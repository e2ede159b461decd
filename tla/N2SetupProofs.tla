--------------------------- MODULE N2SetupProofs ---------------------------
(***************************************************************************)
(* Proofs about N2Setup: type correctness, SetupAgreement and AsSent.      *)
(*                                                                         *)
(* The invariant says, of each gNB, what AMF and gNB know of one another   *)
(* in each phase and which message of the set-up is under way (Exchange).  *)
(* SetupAgreement follows from it once a context that was made of an       *)
(* encoded message holds what was encoded, which the first lemmas show.    *)
(*                                                                         *)
(* AsSent needs that of every NAS message as well.  Digits, slices and     *)
(* elements come in any number, and the readers are recursive functions:   *)
(* what they compute is shown by induction, over a set of places in the    *)
(* message that has no least member (LeastNumber).  A message is looked at *)
(* as octets that are there from some place on (Holds), and its elements   *)
(* as what they tell of an identifier (Tells), which a reader takes.       *)
(***************************************************************************)
EXTENDS N2Setup, GtpuCodecProofs, WellFoundedInduction

SetupRequest(g) == BuildNGSetupRequest(GnbConfig[g])
SetupResponse   == BuildNGSetupResponse(config)

\* What the AMF knows of a gNB that has set up, and the gNB of the AMF.
Ran(g)  == RAN(SetupRequest(g))
Learned == AMFContext(SetupResponse)

\* A message of a UE.
OfUE(pdu) == HandlerKey(pdu) \notin {<<"NGSetup", Initiating>>, <<"NGSetup", Successful>>}

AtMostOneOfUE(queue) == queue = <<>> \/ \E pdu : queue = <<pdu>> /\ OfUE(pdu)

\* How far the set-up of a gNB that waits has come.
Exchange(g) ==
  \/ /\ toAmf[g] = <<SetupRequest(g)>> /\ toGnb[g] = <<>>
     /\ rans[g] = None /\ ~replying[g] /\ amf[g] = None
  \/ /\ toAmf[g] = <<>> /\ toGnb[g] = <<>>
     /\ rans[g] = Ran(g) /\ (replying[g] => amf[g] = None)
  \/ /\ toAmf[g] = <<>> /\ toGnb[g] = <<SetupResponse>>
     /\ rans[g] = Ran(g) /\ ~replying[g] /\ amf[g] = None

\* A gNB with an association.
Associated(g) ==
  /\ amfUp /\ phase[g] \in {"connected", "waiting", "up"}
  /\ phase[g] = "connected" => toAmf[g] = <<>> /\ toGnb[g] = <<>>
  /\ phase[g] = "waiting" => Exchange(g)
  /\ phase[g] = "up" =>
       /\ rans[g] = Ran(g) /\ ~replying[g]
       /\ AtMostOneOfUE(toAmf[g]) /\ AtMostOneOfUE(toGnb[g])
       /\ toAmf[g] = <<>> \/ toGnb[g] = <<>>
       /\ said = None => toAmf[g] = <<>> /\ toGnb[g] = <<>>

GnbOK(g) ==
  /\ rans[g] \in {None, Ran(g)} /\ amf[g] \in {None, Learned}
  /\ replying[g] => rans[g] # None
  /\ phase[g] \in {"off", "dialing"} => attempts[g] < MaxAttempts
  /\ phase[g] \in {"off", "dialing", "connected"} =>
       rans[g] = None /\ ~replying[g] /\ amf[g] = None
  /\ phase[g] = "up" => amf[g] # None
  /\ open[g] => Associated(g)
  /\ ~open[g] => toAmf[g] = <<>> /\ toGnb[g] = <<>>

Typed ==
  /\ phase \in [Gnbs -> {"off", "dialing", "connected", "waiting", "up", "dead"}]
  /\ attempts \in [Gnbs -> 0..MaxAttempts]
  /\ config \in AmfConfigs
  /\ replying \in [Gnbs -> BOOLEAN] /\ open \in [Gnbs -> BOOLEAN]
  /\ DOMAIN amf = Gnbs /\ DOMAIN rans = Gnbs
  /\ DOMAIN toAmf = Gnbs /\ DOMAIN toGnb = Gnbs

\* The inductive invariant.
IInv == Typed /\ \A g \in Gnbs : GnbOK(g)

----------------------------------------------------------------------------
(* Contexts hold what was encoded.                                         *)

\* Three bytes of a number make up the number.
LEMMA ReadThree ==
  ASSUME NEW n \in 0..(2 ^ 24 - 1)
  PROVE  Number(BigEndian(n, 3)) = n
<1>1. PICK s : s = BigEndian(n, 3)
  OBVIOUS
<1>2. n \in Nat /\ n < 256 * 256 * 256
  <2>1. 2 ^ 24 = 256 * 256 * 256
    BY SMT
  <2> QED BY <2>1, SMT
<1>3. /\ s[1] = (n \div (256 * 256)) % 256 /\ s[2] = (n \div 256) % 256 /\ s[3] = n % 256
  <2>1. 256 ^ (3 - 1) = 256 * 256 /\ 256 ^ (3 - 2) = 256 /\ 256 ^ (3 - 3) = 1 /\ n \div 1 = n
    BY SMT, <1>2
  <2> QED BY SMT, <1>1, <2>1 DEF BigEndian
<1>4. s[1] \in Nat /\ s[2] \in Nat /\ s[3] \in Nat
  BY SMT, <1>2, <1>3
<1>5. Len(s) = 3
  <2>1. s \in [1..3 -> Nat]
    BY <1>1, <1>3, <1>4 DEF BigEndian
  <2> QED BY <2>1, FunctionSeq
<1>6. Len(s) \in 2..4 /\ \A i \in 1..Len(s) : s[i] \in Nat
  BY <1>4, <1>5
<1>7. PICK u : /\ Number(s) = u[Len(s)]
               /\ \A i \in 0..Len(s) : u[i] = IF i = 0 THEN 0 ELSE 256 * u[i - 1] + s[i]
  BY ONLY <1>6, Reader
<1>8. /\ u[0] = 0 /\ u[1] = 256 * u[0] + s[1] /\ u[2] = 256 * u[1] + s[2]
      /\ u[3] = 256 * u[2] + s[3]
  BY <1>5, <1>7
<1>9. Number(s) = 256 * (256 * s[1] + s[2]) + s[3]
  BY <1>4, <1>5, <1>7, <1>8
<1>10. PICK a : a = n \div 256
  OBVIOUS
<1>11. a \in Nat /\ n = 256 * a + (n % 256) /\ a < 256 * 256
  BY SMT, <1>2, <1>10
<1>12. PICK b : b = a \div 256
  OBVIOUS
<1>13. b \in 0..255 /\ a = 256 * b + (a % 256) /\ b % 256 = b
  BY SMT, <1>11, <1>12
<1>14. b = n \div (256 * 256)
  BY SMT, <1>2, <1>10, <1>12
<1>15. s[1] = b /\ s[2] = a % 256
  BY <1>3, <1>10, <1>13, <1>14
<1>16. 256 * (256 * s[1] + s[2]) + s[3] = 256 * a + (n % 256)
  BY ONLY <1>3, <1>11, <1>13, <1>15
<1> QED BY ONLY <1>1, <1>9, <1>11, <1>16

\* Two digits of an octet.
LEMMA Nibbles ==
  ASSUME NEW x \in 0..15, NEW y \in 0..15
  PROVE  (16 * y + x) % 16 = x /\ (16 * y + x) \div 16 = y
BY SMT

\* The PLMN is decoded as it was.
LEMMA ReadPLMN ==
  ASSUME NEW p \in Seq(0..9), Len(p) \in {5, 6}
  PROVE  DecodePLMN(EncodePLMN(p)) = p
<1>1. /\ p[1] \in 0..9 /\ p[2] \in 0..9 /\ p[3] \in 0..9 /\ p[4] \in 0..9 /\ p[5] \in 0..9
      /\ Len(p) = 6 => p[6] \in 0..9
  BY ElementOfSeq
<1>2. /\ p[1] \in 0..15 /\ p[2] \in 0..15 /\ p[3] \in 0..15 /\ p[4] \in 0..15
      /\ p[5] \in 0..15
      /\ Len(p) = 6 => p[6] \in 0..15
  BY <1>1
<1>3. CASE Len(p) = 5
  <2>1. EncodePLMN(p) = <<16 * p[2] + p[1], 16 * 15 + p[3], 16 * p[5] + p[4]>>
    BY <1>3 DEF EncodePLMN, Filler
  <2>2. DecodePLMN(EncodePLMN(p)) = <<p[1], p[2], p[3]>> \o <<>> \o <<p[4], p[5]>>
    <3>1. PICK x, y, z : x = 16 * p[2] + p[1] /\ y = 16 * 15 + p[3] /\ z = 16 * p[5] + p[4]
      OBVIOUS
    <3>2. /\ x % 16 = p[1] /\ x \div 16 = p[2] /\ y % 16 = p[3] /\ y \div 16 = 15
          /\ z % 16 = p[4] /\ z \div 16 = p[5]
      <4>1. x % 16 = p[1] /\ x \div 16 = p[2]
        BY ONLY <1>2, <3>1, Nibbles, Zenon
      <4>2. y % 16 = p[3] /\ y \div 16 = 15
        <5>1. 15 \in 0..15
          OBVIOUS
        <5> QED BY ONLY <1>2, <3>1, <5>1, Nibbles, Zenon
      <4>3. z % 16 = p[4] /\ z \div 16 = p[5]
        BY ONLY <1>2, <3>1, Nibbles, Zenon
      <4> QED BY ONLY <4>1, <4>2, <4>3
    <3>3. EncodePLMN(p) = <<x, y, z>>
      BY ONLY <2>1, <3>1
    <3> QED BY ONLY <3>2, <3>3 DEF DecodePLMN, Filler
  <2>3. p = <<p[1], p[2], p[3]>> \o <<p[4], p[5]>>
    BY <1>1, <1>3
  <2> QED BY <2>2, <2>3
<1>4. CASE Len(p) = 6
  <2>1. EncodePLMN(p) = <<16 * p[2] + p[1], 16 * p[4] + p[3], 16 * p[6] + p[5]>>
    BY <1>4 DEF EncodePLMN
  <2>2. DecodePLMN(EncodePLMN(p)) = <<p[1], p[2], p[3]>> \o <<p[4]>> \o <<p[5], p[6]>>
    <3>1. PICK x, y, z : x = 16 * p[2] + p[1] /\ y = 16 * p[4] + p[3] /\ z = 16 * p[6] + p[5]
      OBVIOUS
    <3>2. /\ x % 16 = p[1] /\ x \div 16 = p[2] /\ y % 16 = p[3] /\ y \div 16 = p[4]
          /\ z % 16 = p[5] /\ z \div 16 = p[6]
      <4>1. x % 16 = p[1] /\ x \div 16 = p[2]
        BY ONLY <1>2, <3>1, Nibbles, Zenon
      <4>2. y % 16 = p[3] /\ y \div 16 = p[4]
        BY ONLY <1>2, <3>1, Nibbles, Zenon
      <4>3. z % 16 = p[5] /\ z \div 16 = p[6]
        BY ONLY <1>4, <1>2, <3>1, Nibbles, Zenon
      <4> QED BY ONLY <4>1, <4>2, <4>3
    <3>3. EncodePLMN(p) = <<x, y, z>>
      BY ONLY <2>1, <3>1
    <3>4. p[4] # Filler
      BY <1>1 DEF Filler
    <3> QED BY ONLY <3>2, <3>3, <3>4 DEF DecodePLMN
  <2>3. p = <<p[1], p[2], p[3]>> \o <<p[4]>> \o <<p[5], p[6]>>
    BY <1>1, <1>4
  <2> QED BY <2>2, <2>3
<1> QED BY <1>3, <1>4

\* What the AMF knows of a gNB that has set up.
LEMMA RanFacts ==
  ASSUME NEW g \in Gnbs
  PROVE  /\ Ran(g) # None
         /\ Number(Ran(g).id) = 16 * GnbConfig[g].id /\ Ran(g).name = GnbConfig[g].name
         /\ Len(Ran(g).tacs) = 1 /\ Number(Ran(g).tacs[1]) = GnbConfig[g].tac
<1>1. Ran(g) # None
  BY NoneAssumption DEF Ran, SetupRequest
<1>2. Ran(g).id = BigEndian(GnbConfig[g].id * 16, 4) /\ Ran(g).name = GnbConfig[g].name
  BY DEF Ran, RAN, SetupRequest, BuildNGSetupRequest, PDU, GnbIdBits
<1>3. Len(Ran(g).tacs) = 1 /\ Ran(g).tacs[1] = BigEndian(GnbConfig[g].tac, 3)
  BY DEF Ran, RAN, SetupRequest, BuildNGSetupRequest, PDU
<1>4. GnbConfig[g].id * 16 \in Numbers32
  <2>1. GnbConfig[g].id \in 0..(2 ^ 28 - 1) /\ 2 ^ 28 = 256 * 256 * 256 * 16
    BY SetupAssumption, SMT
  <2>2. PICK n : n = GnbConfig[g].id
    OBVIOUS
  <2>3. n \in Nat /\ n < 256 * 256 * 256 * 16
    BY <2>1, <2>2, SMT
  <2> QED BY <2>2, <2>3, SMT DEF Numbers32
<1>5. Number(BigEndian(GnbConfig[g].id * 16, 4)) = GnbConfig[g].id * 16
  <2>1. PICK n : n = GnbConfig[g].id * 16
    OBVIOUS
  <2>2. PICK s : s = BigEndian(n, 4)
    OBVIOUS
  <2>3. n \in Nat
    BY <1>4, <2>1 DEF Numbers32
  <2>4. Len(s) = 4
    BY <2>2, <2>3, FourBytesSeq
  <2>5. Number(s) = n
    BY ONLY <1>4, <2>1, <2>2, <2>4, ReadFour
  <2> QED BY <2>1, <2>2, <2>5
<1>6. Number(BigEndian(GnbConfig[g].tac, 3)) = GnbConfig[g].tac
  BY SetupAssumption, ReadThree
<1>7. GnbConfig[g].id * 16 = 16 * GnbConfig[g].id
  BY SetupAssumption, SMT
<1> QED BY <1>1, <1>2, <1>3, <1>5, <1>6, <1>7

\* What a gNB that has set up knows of the AMF.
LEMMA LearnedFacts ==
  ASSUME config \in AmfConfigs
  PROVE  /\ Learned # None
         /\ Learned.name = config.name /\ Learned.plmns = <<config.plmn>>
         /\ Learned.region = config.region /\ Learned.pointer = config.pointer
         /\ Learned.set = config.set \div 4
<1>1. Learned # None
  BY NoneAssumption DEF Learned, SetupResponse
<1>2. /\ Learned.name = config.name /\ Learned.region = config.region
      /\ Learned.set = config.set \div 4 /\ Learned.pointer = ((config.pointer * 4) % 256) \div 4
  BY DEF Learned, AMFContext, SetupResponse, BuildNGSetupResponse, PDU
<1>3. ((config.pointer * 4) % 256) \div 4 = config.pointer
  <2>1. \A p \in 0..63 : ((p * 4) % 256) \div 4 = p
    BY SMT
  <2>2. PICK p : p = config.pointer
    OBVIOUS
  <2>3. p \in 0..63
    BY <2>2, SetupAssumption
  <2> QED BY ONLY <2>1, <2>2, <2>3
<1>4. Learned.plmns = <<DecodePLMN(EncodePLMN(config.plmn))>>
  <2>1. PICK x : x = EncodePLMN(config.plmn)
    OBVIOUS
  <2>2. Learned.plmns = [i \in 1..Len(<<x>>) |-> DecodePLMN(<<x>>[i])]
    BY <2>1 DEF Learned, AMFContext, SetupResponse, BuildNGSetupResponse, PDU
  <2>3. Len(<<x>>) = 1 /\ \A i \in 1..1 : <<x>>[i] = x
    OBVIOUS
  <2>4. PICK y : y = DecodePLMN(x)
    OBVIOUS
  <2>5. [i \in 1..Len(<<x>>) |-> DecodePLMN(<<x>>[i])] = [i \in 1..1 |-> y]
    BY <2>3, <2>4
  <2>6. [i \in 1..1 |-> y] = <<y>>
    OBVIOUS
  <2> QED BY ONLY <2>1, <2>2, <2>4, <2>5, <2>6
<1>5. DecodePLMN(EncodePLMN(config.plmn)) = config.plmn
  BY SetupAssumption, ReadPLMN
<1> QED BY <1>1, <1>2, <1>3, <1>4, <1>5

\* One message at a time.
LEMMA OneMessage ==
  ASSUME NEW pdu
  PROVE  /\ Append(<<>>, pdu) = <<pdu>> /\ Head(<<pdu>>) = pdu /\ Tail(<<pdu>>) = <<>>
         /\ <<pdu>> # <<>> /\ Len(<<pdu>>) = 1 /\ Len(<<>>) = 0
OBVIOUS

\* Who handles the messages.
LEMMA Keys ==
  ASSUME NEW g \in Gnbs
  PROVE  /\ HandlerKey(SetupRequest(g)) = <<"NGSetup", Initiating>>
         /\ HandlerKey(SetupResponse) = <<"NGSetup", Successful>>
         /\ <<"NGSetup", Initiating>> # <<"NGSetup", Successful>>
         /\ \A m : OfUE(UplinkPDU(g, m)) /\ OfUE(DownlinkPDU(m))
<1>1. HandlerKey(SetupRequest(g)) = <<"NGSetup", Initiating>>
  BY DEF HandlerKey, SetupRequest, BuildNGSetupRequest, PDU
<1>2. HandlerKey(SetupResponse) = <<"NGSetup", Successful>>
  BY DEF HandlerKey, SetupResponse, BuildNGSetupResponse, PDU
<1>3. <<"NGSetup", Initiating>> # <<"NGSetup", Successful>>
  BY DEF Initiating, Successful
<1>4. \A procedure, present, ies : procedure # "NGSetup" => OfUE(PDU(procedure, present, ies))
  BY DEF OfUE, HandlerKey, PDU
<1>5. \A m : OfUE(UplinkPDU(g, m))
  BY <1>4 DEF UplinkPDU, BuildPDUSessionResourceSetupResponse, InitialUEMessage,
              UplinkNASTransport
<1>6. \A m : OfUE(DownlinkPDU(m))
  BY <1>4 DEF DownlinkPDU, BuildPDUSessionResourceSetupRequest, DownlinkNASTransport
<1> QED BY <1>1, <1>2, <1>3, <1>5, <1>6

----------------------------------------------------------------------------
(* The invariant.                                                          *)

\* A step that leaves what concerns a gNB as it was.
LEMMA OthersKept ==
  ASSUME NEW g \in Gnbs, GnbOK(g), UNCHANGED config, amfUp => amfUp', said' = None => said = None,
         phase'[g] = phase[g], attempts'[g] = attempts[g], amf'[g] = amf[g],
         rans'[g] = rans[g], replying'[g] = replying[g], open'[g] = open[g],
         toAmf'[g] = toAmf[g], toGnb'[g] = toGnb[g]
  PROVE  GnbOK(g)'
<1>1. Learned' = Learned /\ SetupResponse' = SetupResponse
  BY DEF Learned, SetupResponse
<1>2. Exchange(g) => Exchange(g)'
  BY <1>1 DEF Exchange
<1>3. Associated(g) => Associated(g)'
  BY <1>2 DEF Associated
<1> QED BY <1>1, <1>3 DEF GnbOK

LEMMA StartKeeps ==
  ASSUME IInv, NEW g \in Gnbs, Start(g)
  PROVE  IInv'
<1> USE DEF vars, gnbVars, amfVars, assocVars, ueVars
<1>1. Typed'
  BY DEF IInv, Typed, Start
<1>2. ASSUME NEW h \in Gnbs, h # g PROVE GnbOK(h)'
  BY <1>2, OthersKept DEF IInv, Typed, Start
<1>3. GnbOK(g)'
  <2>1. Learned' = Learned
    BY DEF Learned, SetupResponse, Start
  <2> QED BY <2>1 DEF IInv, Typed, GnbOK, Associated, Start
<1> QED BY <1>1, <1>2, <1>3 DEF IInv

LEMMA ConnectKeeps ==
  ASSUME IInv, NEW g \in Gnbs, Connect(g)
  PROVE  IInv'
<1> USE DEF vars, gnbVars, amfVars, assocVars, ueVars
<1>1. Typed'
  BY DEF IInv, Typed, Connect
<1>2. ASSUME NEW h \in Gnbs, h # g PROVE GnbOK(h)'
  BY <1>2, OthersKept DEF IInv, Typed, Connect
<1>3. GnbOK(g)'
  <2>1. Learned' = Learned
    BY DEF Learned, SetupResponse, Connect
  <2>2. ~open[g]
    BY DEF IInv, GnbOK, Associated, Connect
  <2> QED BY <2>1, <2>2 DEF IInv, Typed, GnbOK, Associated, Connect
<1> QED BY <1>1, <1>2, <1>3 DEF IInv

LEMMA ConnectFailsKeeps ==
  ASSUME IInv, NEW g \in Gnbs, ConnectFails(g)
  PROVE  IInv'
<1> USE DEF vars, gnbVars, amfVars, assocVars, ueVars
<1>1. attempts[g] \in Nat /\ attempts[g] < MaxAttempts /\ MaxAttempts \in Nat
  BY SetupAssumption DEF IInv, Typed, GnbOK, ConnectFails
<1>2. attempts[g] + 1 \in 0..MaxAttempts
  BY ONLY <1>1, SMT
<1>3. Typed'
  BY <1>2 DEF IInv, Typed, ConnectFails
<1>4. ASSUME NEW h \in Gnbs, h # g PROVE GnbOK(h)'
  BY <1>4, OthersKept DEF IInv, Typed, ConnectFails
<1>5. GnbOK(g)'
  <2>1. Learned' = Learned
    BY DEF Learned, SetupResponse, ConnectFails
  <2>2. ~open[g]
    BY DEF IInv, GnbOK, Associated, ConnectFails
  <2>3. attempts'[g] = attempts[g] + 1 /\ (attempts'[g] # MaxAttempts => attempts'[g] < MaxAttempts)
    BY <1>1, <1>2 DEF IInv, Typed, ConnectFails
  <2> QED BY <2>1, <2>2, <2>3 DEF IInv, Typed, GnbOK, Associated, ConnectFails
<1> QED BY <1>3, <1>4, <1>5 DEF IInv

LEMMA RequestKeeps ==
  ASSUME IInv, NEW g \in Gnbs, SendNGSetupRequest(g)
  PROVE  IInv'
<1> USE DEF vars, gnbVars, amfVars, assocVars, ueVars
<1>1. Typed'
  BY DEF IInv, Typed, SendNGSetupRequest, Send
<1>2. ASSUME NEW h \in Gnbs, h # g PROVE GnbOK(h)'
  BY <1>2, OthersKept DEF IInv, Typed, SendNGSetupRequest, Send
<1>3. GnbOK(g)'
  <2>1. Learned' = Learned
    BY DEF Learned, SetupResponse, SendNGSetupRequest
  <2>2. CASE open[g]
    <3>1. toAmf'[g] = <<SetupRequest(g)>> /\ toGnb'[g] = <<>>
      BY <2>2, OneMessage DEF IInv, Typed, GnbOK, Associated, SendNGSetupRequest, Send, SetupRequest
    <3>2. Exchange(g)'
      BY <3>1 DEF IInv, GnbOK, SendNGSetupRequest, Exchange
    <3> QED BY <2>1, <2>2, <3>2 DEF IInv, Typed, GnbOK, Associated, SendNGSetupRequest
  <2>3. CASE ~open[g]
    BY <2>1, <2>3 DEF IInv, Typed, GnbOK, Associated, SendNGSetupRequest
  <2> QED BY <2>2, <2>3
<1> QED BY <1>1, <1>2, <1>3 DEF IInv

\* A queue with a message of the set-up at its head is that of a gNB that waits.
LEMMA ResponseFacts ==
  ASSUME IInv, NEW g \in Gnbs, HandleNGSetupResponse(g)
  PROVE  /\ open[g] /\ phase[g] = "waiting" /\ toAmf[g] = <<>> /\ toGnb[g] = <<SetupResponse>>
         /\ rans[g] = Ran(g) /\ ~replying[g]
<1>1. /\ toGnb[g] # <<>> /\ HandlerKey(Head(toGnb[g])) = <<"NGSetup", Successful>>
      /\ GnbOK(g)
  BY DEF IInv, HandleNGSetupResponse
<1>2. open[g] /\ Associated(g) /\ phase[g] # "connected"
  BY <1>1 DEF GnbOK, Associated
<1>3. ~AtMostOneOfUE(toGnb[g])
  BY <1>1, OneMessage DEF AtMostOneOfUE, OfUE
<1>4. phase[g] = "waiting" /\ Exchange(g)
  BY <1>2, <1>3 DEF Associated
<1> QED BY <1>1, <1>2, <1>4 DEF Exchange

LEMMA ResponseKeeps ==
  ASSUME IInv, NEW g \in Gnbs, HandleNGSetupResponse(g)
  PROVE  IInv'
<1> USE DEF vars, gnbVars, amfVars, assocVars, ueVars
<1>1. Typed'
  BY DEF IInv, Typed, HandleNGSetupResponse, Receive
<1>2. ASSUME NEW h \in Gnbs, h # g PROVE GnbOK(h)'
  BY <1>2, OthersKept DEF IInv, Typed, HandleNGSetupResponse, Receive
<1>3. GnbOK(g)'
  <2>1. Learned' = Learned
    BY DEF Learned, SetupResponse, HandleNGSetupResponse
  <2>2. toAmf'[g] = <<>> /\ toGnb'[g] = <<>> /\ amf'[g] = Learned
    BY ResponseFacts, OneMessage DEF IInv, Typed, HandleNGSetupResponse, Receive, Learned
  <2>3. Exchange(g)'
    BY <2>2, ResponseFacts DEF HandleNGSetupResponse, Exchange
  <2> QED BY <2>1, <2>2, <2>3, ResponseFacts
          DEF IInv, GnbOK, Associated, HandleNGSetupResponse
<1> QED BY <1>1, <1>2, <1>3 DEF IInv

LEMMA SetupDoneKeeps ==
  ASSUME IInv, NEW g \in Gnbs, SetupDone(g)
  PROVE  IInv'
<1> USE DEF vars, gnbVars, amfVars, assocVars, ueVars
<1>1. Typed'
  BY DEF IInv, Typed, SetupDone
<1>2. ASSUME NEW h \in Gnbs, h # g PROVE GnbOK(h)'
  BY <1>2, OthersKept DEF IInv, Typed, SetupDone
<1>3. GnbOK(g)'
  <2>1. Learned' = Learned
    BY DEF Learned, SetupResponse, SetupDone
  <2>2. GnbOK(g) /\ phase[g] = "waiting" /\ amf[g] # None /\ phase'[g] = "up"
    BY DEF IInv, Typed, SetupDone
  <2>3. open[g] => toAmf[g] = <<>> /\ toGnb[g] = <<>> /\ rans[g] = Ran(g) /\ ~replying[g]
    BY <2>2 DEF GnbOK, Associated, Exchange
  <2>4. open[g] => Associated(g)'
    BY <2>2, <2>3 DEF GnbOK, Associated, AtMostOneOfUE, SetupDone
  <2> QED BY <2>1, <2>2, <2>4 DEF GnbOK, SetupDone
<1> QED BY <1>1, <1>2, <1>3 DEF IInv

\* What closing associations leaves.
LEMMA ClosedFacts ==
  ASSUME IInv, NEW lost \in SUBSET Gnbs, Closed(lost)
  PROVE  /\ open' \in [Gnbs -> BOOLEAN] /\ DOMAIN toAmf' = Gnbs /\ DOMAIN toGnb' = Gnbs
         /\ \A h \in Gnbs :
              IF h \in lost THEN ~open'[h] /\ toAmf'[h] = <<>> /\ toGnb'[h] = <<>>
              ELSE open'[h] = open[h] /\ toAmf'[h] = toAmf[h] /\ toGnb'[h] = toGnb[h]
BY DEF IInv, Typed, Closed

LEMMA GiveUpKeeps ==
  ASSUME IInv, NEW g \in Gnbs, GiveUp(g)
  PROVE  IInv'
<1> USE DEF vars, gnbVars, amfVars, assocVars, ueVars
<1>1. /\ open' \in [Gnbs -> BOOLEAN] /\ DOMAIN toAmf' = Gnbs /\ DOMAIN toGnb' = Gnbs
      /\ ~open'[g] /\ toAmf'[g] = <<>> /\ toGnb'[g] = <<>>
      /\ \A h \in Gnbs : h # g =>
           open'[h] = open[h] /\ toAmf'[h] = toAmf[h] /\ toGnb'[h] = toGnb[h]
  BY ClosedFacts DEF GiveUp
<1>2. Typed'
  BY <1>1 DEF IInv, Typed, GiveUp
<1>3. ASSUME NEW h \in Gnbs, h # g PROVE GnbOK(h)'
  BY <1>1, <1>3, OthersKept DEF IInv, Typed, GiveUp
<1>4. GnbOK(g)'
  <2>1. Learned' = Learned
    BY DEF Learned, SetupResponse, GiveUp
  <2> QED BY <1>1, <2>1 DEF IInv, Typed, GnbOK, GiveUp
<1> QED BY <1>2, <1>3, <1>4 DEF IInv

LEMMA BreakKeeps ==
  ASSUME IInv, NEW g \in Gnbs, Break(g)
  PROVE  IInv'
<1> USE DEF vars, gnbVars, amfVars, assocVars, ueVars
<1>1. /\ open' \in [Gnbs -> BOOLEAN] /\ DOMAIN toAmf' = Gnbs /\ DOMAIN toGnb' = Gnbs
      /\ ~open'[g] /\ toAmf'[g] = <<>> /\ toGnb'[g] = <<>>
      /\ \A h \in Gnbs : h # g =>
           open'[h] = open[h] /\ toAmf'[h] = toAmf[h] /\ toGnb'[h] = toGnb[h]
  BY ClosedFacts DEF Break
<1>2. Typed'
  BY <1>1 DEF IInv, Typed, Break
<1>3. ASSUME NEW h \in Gnbs, h # g PROVE GnbOK(h)'
  BY <1>1, <1>3, OthersKept DEF IInv, Typed, Break
<1>4. GnbOK(g)'
  <2>1. Learned' = Learned
    BY DEF Learned, SetupResponse, Break
  <2> QED BY <1>1, <2>1 DEF IInv, GnbOK, Break
<1> QED BY <1>2, <1>3, <1>4 DEF IInv

LEMMA AmfStartKeeps ==
  ASSUME IInv, AmfStart
  PROVE  IInv'
<1> USE DEF vars, gnbVars, amfVars, assocVars, ueVars
<1>1. Typed'
  BY DEF IInv, Typed, AmfStart
<1>2. ASSUME NEW h \in Gnbs PROVE GnbOK(h)'
  BY <1>2, OthersKept DEF IInv, AmfStart
<1> QED BY <1>1, <1>2 DEF IInv

LEMMA AmfCrashKeeps ==
  ASSUME IInv, AmfCrash
  PROVE  IInv'
<1> USE DEF vars, gnbVars, amfVars, assocVars, ueVars
<1>1. /\ open' \in [Gnbs -> BOOLEAN] /\ DOMAIN toAmf' = Gnbs /\ DOMAIN toGnb' = Gnbs
      /\ \A h \in Gnbs : ~open'[h] /\ toAmf'[h] = <<>> /\ toGnb'[h] = <<>>
  BY ClosedFacts DEF AmfCrash
<1>2. Typed'
  BY <1>1 DEF IInv, Typed, AmfCrash
<1>3. ASSUME NEW h \in Gnbs PROVE GnbOK(h)'
  <2>1. Learned' = Learned
    BY DEF Learned, SetupResponse, AmfCrash
  <2> QED BY <1>1, <1>3, <2>1 DEF IInv, GnbOK, AmfCrash
<1> QED BY <1>2, <1>3 DEF IInv

\* The AMF reads a request of a gNB that waits.
LEMMA RequestFacts ==
  ASSUME IInv, NEW g \in Gnbs, HandleNGSetupRequest(g)
  PROVE  /\ open[g] /\ phase[g] = "waiting" /\ toAmf[g] = <<SetupRequest(g)>> /\ toGnb[g] = <<>>
         /\ amf[g] = None
<1>1. /\ toAmf[g] # <<>> /\ HandlerKey(Head(toAmf[g])) = <<"NGSetup", Initiating>>
      /\ GnbOK(g)
  BY DEF IInv, HandleNGSetupRequest, NextForAmf
<1>2. open[g] /\ Associated(g) /\ phase[g] # "connected"
  BY <1>1 DEF GnbOK, Associated
<1>3. ~AtMostOneOfUE(toAmf[g])
  BY <1>1, OneMessage DEF AtMostOneOfUE, OfUE
<1>4. phase[g] = "waiting" /\ Exchange(g)
  BY <1>2, <1>3 DEF Associated
<1> QED BY <1>1, <1>2, <1>4 DEF Exchange

LEMMA HandleRequestKeeps ==
  ASSUME IInv, NEW g \in Gnbs, HandleNGSetupRequest(g)
  PROVE  IInv'
<1> USE DEF vars, gnbVars, amfVars, assocVars, ueVars
<1>1. Typed'
  BY DEF IInv, Typed, HandleNGSetupRequest, Receive
<1>2. ASSUME NEW h \in Gnbs, h # g PROVE GnbOK(h)'
  BY <1>2, OthersKept DEF IInv, Typed, HandleNGSetupRequest, Receive
<1>3. GnbOK(g)'
  <2>1. Learned' = Learned
    BY DEF Learned, SetupResponse, HandleNGSetupRequest
  <2>2. toAmf'[g] = <<>> /\ toGnb'[g] = <<>> /\ rans'[g] = Ran(g)
    BY RequestFacts, OneMessage DEF IInv, Typed, HandleNGSetupRequest, Receive, Ran
  <2>3. Exchange(g)'
    BY <2>2, RequestFacts DEF HandleNGSetupRequest, Exchange
  <2> QED BY <2>1, <2>2, <2>3, RequestFacts, RanFacts
          DEF IInv, GnbOK, Associated, HandleNGSetupRequest
<1> QED BY <1>1, <1>2, <1>3 DEF IInv

LEMMA AnswerKeeps ==
  ASSUME IInv, NEW g \in Gnbs, SendNGSetupResponse(g)
  PROVE  IInv'
<1> USE DEF vars, gnbVars, amfVars, assocVars, ueVars
<1>1. Typed'
  BY DEF IInv, Typed, SendNGSetupResponse, Send
<1>2. ASSUME NEW h \in Gnbs, h # g PROVE GnbOK(h)'
  BY <1>2, OthersKept DEF IInv, Typed, SendNGSetupResponse, Send
<1>3. GnbOK(g)'
  <2>1. Learned' = Learned /\ SetupResponse' = SetupResponse
    BY DEF Learned, SetupResponse, SendNGSetupResponse
  <2>2. GnbOK(g) /\ replying[g] /\ ~replying'[g]
    BY DEF IInv, Typed, SendNGSetupResponse
  <2>3. CASE open[g]
    <3>1. /\ phase[g] = "waiting" /\ toAmf[g] = <<>> /\ toGnb[g] = <<>>
          /\ rans[g] = Ran(g) /\ amf[g] = None
      BY <2>2, <2>3 DEF GnbOK, Associated, Exchange
    <3>2. toGnb'[g] \in {<<>>, <<SetupResponse>>} /\ rans' = rans
      BY <2>3, <3>1, OneMessage DEF IInv, Typed, SendNGSetupResponse, Send, SetupResponse
    <3>3. Exchange(g)'
      BY <2>1, <2>2, <3>1, <3>2 DEF SendNGSetupResponse, Exchange
    <3> QED BY <2>1, <2>2, <2>3, <3>1, <3>2, <3>3 DEF GnbOK, Associated, SendNGSetupResponse
  <2>4. CASE ~open[g]
    BY <2>1, <2>2, <2>4 DEF IInv, Typed, GnbOK, SendNGSetupResponse
  <2> QED BY <2>3, <2>4
<1> QED BY <1>1, <1>2, <1>3 DEF IInv

LEMMA SendUplinkKeeps ==
  ASSUME IInv, NEW g \in Gnbs, SendUplink(g)
  PROVE  IInv'
<1> USE DEF vars, gnbVars, amfVars, assocVars, ueVars
<1>1. PICK m \in UplinkMessages :
        Send(toAmf, g, UplinkPDU(g, m)) /\ said' = Read(UplinkId(m), m)
  BY DEF SendUplink
<1>2. said' # None
  BY <1>1, NoneAssumption
<1>3. Typed'
  BY <1>1 DEF IInv, Typed, SendUplink, Send
<1>4. ASSUME NEW h \in Gnbs, h # g PROVE GnbOK(h)'
  BY <1>1, <1>2, <1>4, OthersKept DEF IInv, Typed, SendUplink, Send
<1>5. GnbOK(g)'
  <2>1. Learned' = Learned
    BY DEF Learned, SetupResponse, SendUplink
  <2>2. GnbOK(g) /\ Associated(g) /\ phase[g] = "up" /\ toAmf[g] = <<>> /\ toGnb[g] = <<>>
    BY DEF IInv, GnbOK, Associated, SendUplink
  <2>3. toAmf'[g] = <<UplinkPDU(g, m)>> /\ toGnb'[g] = <<>>
    BY <1>1, <2>2, OneMessage DEF IInv, Typed, SendUplink, Send
  <2>4. AtMostOneOfUE(toAmf'[g]) /\ AtMostOneOfUE(toGnb'[g])
    BY <2>3, Keys DEF AtMostOneOfUE
  <2>5. Associated(g)'
    BY <1>2, <2>2, <2>3, <2>4 DEF Associated, AtMostOneOfUE, SendUplink
  <2> QED BY <2>1, <2>2, <2>5 DEF GnbOK, SendUplink
<1> QED BY <1>3, <1>4, <1>5 DEF IInv

LEMMA SendDownlinkKeeps ==
  ASSUME IInv, NEW g \in Gnbs, SendDownlink(g)
  PROVE  IInv'
<1> USE DEF vars, gnbVars, amfVars, assocVars, ueVars
<1>1. PICK m \in DownlinkMessages(config) :
        Send(toGnb, g, DownlinkPDU(m)) /\ said' = Read(RanId, m)
  BY DEF SendDownlink
<1>2. said' # None
  BY <1>1, NoneAssumption DEF IInv, Typed
<1>3. Typed'
  BY <1>1 DEF IInv, Typed, SendDownlink, Send
<1>4. ASSUME NEW h \in Gnbs, h # g PROVE GnbOK(h)'
  BY <1>1, <1>2, <1>4, OthersKept DEF IInv, Typed, SendDownlink, Send
<1>5. GnbOK(g)'
  <2>1. Learned' = Learned
    BY DEF Learned, SetupResponse, SendDownlink
  <2>2. GnbOK(g) /\ Associated(g) /\ phase[g] = "up" /\ toAmf[g] = <<>> /\ toGnb[g] = <<>>
    BY DEF IInv, GnbOK, Associated, SendDownlink
  <2>3. toGnb'[g] = <<DownlinkPDU(m)>> /\ toAmf'[g] = <<>>
    BY <1>1, <2>2, OneMessage DEF IInv, Typed, SendDownlink, Send
  <2>4. AtMostOneOfUE(toAmf'[g]) /\ AtMostOneOfUE(toGnb'[g])
    BY <2>3, Keys DEF AtMostOneOfUE
  <2>5. Associated(g)'
    BY <1>2, <2>2, <2>3, <2>4 DEF Associated, AtMostOneOfUE, SendDownlink
  <2> QED BY <2>1, <2>2, <2>5 DEF GnbOK, SendDownlink
<1> QED BY <1>3, <1>4, <1>5 DEF IInv

LEMMA ReceiveUplinkKeeps ==
  ASSUME IInv, NEW g \in Gnbs, ReceiveUplink(g)
  PROVE  IInv'
<1> USE DEF vars, gnbVars, amfVars, assocVars, ueVars
<1>1. /\ toAmf[g] # <<>> /\ HandlerKey(Head(toAmf[g])) # <<"NGSetup", Initiating>>
      /\ Receive(toAmf, g)
  BY DEF ReceiveUplink, NextForAmf
<1>2. Typed'
  BY <1>1 DEF IInv, Typed, ReceiveUplink, Receive
<1>3. ASSUME NEW h \in Gnbs, h # g PROVE GnbOK(h)'
  BY <1>1, <1>3, OthersKept DEF IInv, Typed, ReceiveUplink, Receive
<1>4. GnbOK(g)'
  <2>1. Learned' = Learned
    BY DEF Learned, SetupResponse, ReceiveUplink
  <2>2. GnbOK(g) /\ open[g] /\ Associated(g) /\ phase[g] # "connected"
    BY <1>1 DEF IInv, GnbOK, Associated
  <2>3. phase[g] # "waiting"
    BY <1>1, <2>2, Keys, OneMessage DEF Associated, Exchange
  <2>4. phase[g] = "up" /\ toGnb[g] = <<>> /\ AtMostOneOfUE(toAmf[g])
    BY <1>1, <2>2, <2>3 DEF Associated
  <2>5. toAmf'[g] = <<>> /\ toGnb'[g] = <<>>
    BY <1>1, <2>4, OneMessage DEF IInv, Typed, AtMostOneOfUE, ReceiveUplink, Receive
  <2>6. Associated(g)'
    BY <2>2, <2>4, <2>5 DEF Associated, AtMostOneOfUE, ReceiveUplink
  <2> QED BY <2>1, <2>2, <2>6 DEF GnbOK, ReceiveUplink
<1> QED BY <1>2, <1>3, <1>4 DEF IInv

LEMMA ReceiveDownlinkKeeps ==
  ASSUME IInv, NEW g \in Gnbs, ReceiveDownlink(g)
  PROVE  IInv'
<1> USE DEF vars, gnbVars, amfVars, assocVars, ueVars
<1>1. /\ toGnb[g] # <<>> /\ HandlerKey(Head(toGnb[g])) # <<"NGSetup", Successful>>
      /\ Receive(toGnb, g)
  BY DEF ReceiveDownlink
<1>2. Typed'
  BY <1>1 DEF IInv, Typed, ReceiveDownlink, Receive
<1>3. ASSUME NEW h \in Gnbs, h # g PROVE GnbOK(h)'
  BY <1>1, <1>3, OthersKept DEF IInv, Typed, ReceiveDownlink, Receive
<1>4. GnbOK(g)'
  <2>1. Learned' = Learned
    BY DEF Learned, SetupResponse, ReceiveDownlink
  <2>2. GnbOK(g) /\ open[g] /\ Associated(g) /\ phase[g] # "connected"
    BY <1>1 DEF IInv, GnbOK, Associated
  <2>3. phase[g] # "waiting"
    BY <1>1, <2>2, Keys, OneMessage DEF Associated, Exchange
  <2>4. phase[g] = "up" /\ toAmf[g] = <<>> /\ AtMostOneOfUE(toGnb[g])
    BY <1>1, <2>2, <2>3 DEF Associated
  <2>5. toAmf'[g] = <<>> /\ toGnb'[g] = <<>>
    BY <1>1, <2>4, OneMessage DEF IInv, Typed, AtMostOneOfUE, ReceiveDownlink, Receive
  <2>6. Associated(g)'
    BY <2>2, <2>4, <2>5 DEF Associated, AtMostOneOfUE, ReceiveDownlink
  <2> QED BY <2>1, <2>2, <2>6 DEF GnbOK, ReceiveDownlink
<1> QED BY <1>2, <1>3, <1>4 DEF IInv

LEMMA Initially == Init => IInv
<1> SUFFICES ASSUME Init PROVE IInv
  OBVIOUS
<1>1. Typed
  BY SetupAssumption DEF Init, Typed
<1>2. ASSUME NEW g \in Gnbs PROVE GnbOK(g)
  BY <1>2, SetupAssumption DEF Init, GnbOK
<1> QED BY <1>1, <1>2 DEF IInv

LEMMA Inductive == IInv /\ [Next]_vars => IInv'
<1> SUFFICES ASSUME IInv, [Next]_vars PROVE IInv'
  OBVIOUS
<1>1. CASE AmfStart \/ AmfCrash
  BY <1>1, AmfStartKeeps, AmfCrashKeeps
<1>2. ASSUME NEW g \in Gnbs, Start(g) \/ GnbStep(g) \/ HandleNGSetupResponse(g)
      PROVE  IInv'
  BY <1>2, StartKeeps, ConnectKeeps, ConnectFailsKeeps, RequestKeeps, SetupDoneKeeps,
     GiveUpKeeps, ResponseKeeps DEF GnbStep
<1>3. ASSUME NEW g \in Gnbs, AmfStep(g) \/ Break(g) PROVE IInv'
  BY <1>3, HandleRequestKeeps, AnswerKeeps, BreakKeeps DEF AmfStep
<1>4. ASSUME NEW g \in Gnbs, UeStep(g) PROVE IInv'
  BY <1>4, SendUplinkKeeps, SendDownlinkKeeps, ReceiveUplinkKeeps, ReceiveDownlinkKeeps
     DEF UeStep
<1>5. CASE UNCHANGED vars
  <2>1. Typed'
    BY <1>5 DEF IInv, Typed, vars
  <2>2. ASSUME NEW g \in Gnbs PROVE GnbOK(g)'
    BY <1>5, <2>2, OthersKept DEF IInv, vars
  <2> QED BY <2>1, <2>2 DEF IInv
<1> QED BY <1>1, <1>2, <1>3, <1>4, <1>5 DEF Next

----------------------------------------------------------------------------
(* Theorems about the set-up.                                              *)

\* The invariant holds for every number of gNBs, of dials and all identities.
THEOREM Invariance == Spec => []IInv
BY Initially, Inductive, PTL DEF Spec

\* An association is that of a gNB that has not given up with an AMF that runs,
\* and a context of a gNB is there as long as its answer is due.
THEOREM TypeCorrect == Spec => []TypeOK
<1>1. IInv => TypeOK
  <2> SUFFICES ASSUME IInv PROVE TypeOK
    OBVIOUS
  <2>1. ASSUME NEW g \in Gnbs
        PROVE  /\ open[g] => phase[g] \in {"connected", "waiting", "up"} /\ amfUp
               /\ Len(toAmf[g]) <= 1 /\ Len(toGnb[g]) <= 1
               /\ Len(toAmf[g]) + Len(toGnb[g]) > 0 => open[g]
               /\ replying[g] => rans[g] # None
               /\ amf[g] # None => phase[g] \in {"waiting", "up", "dead"}
    <3>1. GnbOK(g)
      BY DEF IInv
    <3>2. Len(<<>>) = 0 /\ \A pdu : Len(<<pdu>>) = 1
      OBVIOUS
    <3>3. Len(toAmf[g]) \in {0, 1} /\ Len(toGnb[g]) \in {0, 1}
      BY <3>1, <3>2 DEF GnbOK, Associated, Exchange, AtMostOneOfUE
    <3>4. ~open[g] => Len(toAmf[g]) = 0 /\ Len(toGnb[g]) = 0
      BY <3>1, <3>2 DEF GnbOK
    <3>5. phase[g] \in {"off", "dialing", "connected", "waiting", "up", "dead"}
      BY DEF IInv, Typed
    <3>6. /\ open[g] => phase[g] \in {"connected", "waiting", "up"} /\ amfUp
          /\ replying[g] => rans[g] # None
          /\ amf[g] # None => phase[g] \in {"waiting", "up", "dead"}
      BY <3>1, <3>5 DEF GnbOK, Associated
    <3>7. /\ Len(toAmf[g]) <= 1 /\ Len(toGnb[g]) <= 1
          /\ Len(toAmf[g]) = 0 /\ Len(toGnb[g]) = 0 => ~(Len(toAmf[g]) + Len(toGnb[g]) > 0)
      <4>1. \A m, n \in {0, 1} : m <= 1 /\ n <= 1 /\ (m = 0 /\ n = 0 => ~(m + n > 0))
        BY SMT
      <4> QED BY ONLY <3>3, <4>1, Zenon
    <3> QED BY ONLY <3>4, <3>6, <3>7, Zenon
  <2> QED BY <2>1 DEF IInv, Typed, TypeOK
<1> QED BY <1>1, Invariance, PTL

\* While a gNB that serves UEs has its association, each end knows the other by
\* what it was configured with, whatever crashed, broke or was given up before.
THEOREM SetUp == Spec => []SetupAgreement
<1>1. IInv => SetupAgreement
  <2> SUFFICES ASSUME IInv, NEW g \in Gnbs, phase[g] = "up", open[g]
               PROVE  rans[g] = Ran(g) /\ amf[g] = Learned /\ config \in AmfConfigs
    BY RanFacts, LearnedFacts DEF SetupAgreement
  <2> QED BY DEF IInv, Typed, GnbOK, Associated
<1> QED BY <1>1, Invariance, PTL
----------------------------------------------------------------------------
(* Induction, over the elements of a set.                                  *)

\* A set of numbers has a least one.
LEMMA LeastNumber ==
  ASSUME NEW T \in SUBSET Nat, T # {}
  PROVE  \E n \in T : \A k \in T : n <= k
<1>1. IsWellFoundedOn(OpToRel(<, Nat), Nat)
  BY NatLessThanWellFounded
<1>2. PICK n \in T : \A k \in T : ~(<<k, n>> \in OpToRel(<, Nat))
  BY <1>1, WFMin
<1>3. \A k \in T : ~(k < n)
  BY <1>2 DEF OpToRel
<1> QED BY <1>3

\* What 0 is in, and each number's successor with the number, every number is in.
LEMMA Steps ==
  ASSUME NEW T, 0 \in T, \A n \in Nat : n \in T => n + 1 \in T
  PROVE  \A n \in Nat : n \in T
<1> SUFFICES ASSUME NEW n \in Nat, n \notin T PROVE FALSE
  OBVIOUS
<1> DEFINE U == {k \in Nat : k \notin T}
<1>1. PICK m \in U : \A k \in U : m <= k
  BY LeastNumber
<1>2. m \in Nat /\ m \notin T /\ m # 0
  OBVIOUS
<1>3. m - 1 \in Nat /\ m - 1 \notin U
  BY <1>1, <1>2
<1> QED BY <1>2, <1>3

----------------------------------------------------------------------------
(* Parts of a message.                                                     *)

\* s is in data, from o on.
Holds(data, o, s) ==
  /\ o + Len(s) <= Len(data) + 1
  /\ \A i \in 1..Len(s) : data[o + i - 1] = s[i]

\* A message is in itself.
LEMMA HoldsAll ==
  ASSUME NEW data \in Seq(Nat)
  PROVE  Holds(data, 1, data)
<1>1. Len(data) \in Nat
  BY LenProperties
<1> QED BY <1>1 DEF Holds

\* With two parts of a message, each of them is there.
LEMMA HoldsSplit ==
  ASSUME NEW data \in Seq(Nat), NEW s \in Seq(Nat), NEW t \in Seq(Nat), NEW o \in Nat \ {0},
         Holds(data, o, s \o t)
  PROVE  Holds(data, o, s) /\ Holds(data, o + Len(s), t)
<1>1. Len(data) \in Nat /\ Len(s) \in Nat /\ Len(t) \in Nat
  BY LenProperties
<1>2. PICK st : st = s \o t
  OBVIOUS
<1>3. /\ Len(st) = Len(s) + Len(t)
      /\ \A i \in 1..Len(s) : st[i] = s[i]
      /\ \A i \in 1..Len(t) : st[Len(s) + i] = t[i]
  BY <1>2, ConcatFacts
<1>4. o + Len(st) <= Len(data) + 1 /\ \A i \in 1..Len(st) : data[o + i - 1] = st[i]
  BY <1>2 DEF Holds
<1>5. ASSUME NEW i \in 1..Len(s) PROVE data[o + i - 1] = s[i]
  <2>1. i \in 1..Len(st)
    BY ONLY i \in 1..Len(s), <1>1, <1>3
  <2> QED BY ONLY i \in 1..Len(s), <2>1, <1>3, <1>4
<1>6. ASSUME NEW i \in 1..Len(t) PROVE data[o + Len(s) + i - 1] = t[i]
  <2>1. Len(s) + i \in 1..Len(st) /\ o + (Len(s) + i) - 1 = o + Len(s) + i - 1
    BY ONLY i \in 1..Len(t), <1>1, <1>3, o \in Nat \ {0}
  <2>2. data[o + (Len(s) + i) - 1] = st[Len(s) + i]
    BY ONLY <2>1, <1>4
  <2> QED BY ONLY i \in 1..Len(t), <2>1, <2>2, <1>3
<1>7. o + Len(s) <= Len(data) + 1 /\ o + Len(s) + Len(t) <= Len(data) + 1
  BY ONLY <1>1, <1>3, <1>4, o \in Nat \ {0}
<1> QED BY ONLY <1>5, <1>6, <1>7 DEF Holds

\* What is there is what is cut out.
LEMMA HoldsPart ==
  ASSUME NEW data \in Seq(Nat), NEW s \in Seq(Nat), NEW o \in Nat \ {0}, Holds(data, o, s)
  PROVE  SubSeq(data, o, o + Len(s) - 1) = s
<1>1. Len(data) \in Nat /\ Len(s) \in Nat
  BY LenProperties
<1>2. o + Len(s) <= Len(data) + 1 /\ \A i \in 1..Len(s) : data[o + i - 1] = s[i]
  BY DEF Holds
<1>3. o \in 1..(Len(data) + 1) /\ o + Len(s) - 1 \in (o - 1)..Len(data)
  BY <1>1, <1>2
<1>4. PICK p : p = SubSeq(data, o, o + Len(s) - 1)
  OBVIOUS
<1>5. /\ p \in Seq(Nat) /\ Len(p) = o + Len(s) - 1 - o + 1
      /\ \A i \in 1..(o + Len(s) - 1 - o + 1) : p[i] = data[o + i - 1]
  BY <1>3, <1>4, SubSeqFacts
<1>6. Len(p) = Len(s) /\ \A i \in 1..Len(s) : p[i] = s[i]
  BY ONLY <1>1, <1>2, <1>5, o \in Nat \ {0}
<1>7. p = s
  BY ONLY <1>5, <1>6, s \in Seq(Nat), SeqEqual
<1> QED BY <1>4, <1>7

\* The payload of a message is what comes after its first k octets.
LEMMA HoldsBehind ==
  ASSUME NEW data \in Seq(Nat), NEW k \in Nat, k <= Len(data)
  PROVE  /\ SubSeq(data, k + 1, Len(data)) \in Seq(Nat)
         /\ Len(SubSeq(data, k + 1, Len(data))) = Len(data) - k
         /\ \A s \in Seq(Nat), o \in Nat \ {0} :
              Holds(data, o + k, s) => Holds(SubSeq(data, k + 1, Len(data)), o, s)
<1>1. Len(data) \in Nat
  BY LenProperties
<1>2. PICK p : p = SubSeq(data, k + 1, Len(data))
  OBVIOUS
<1>3. k + 1 \in 1..(Len(data) + 1) /\ Len(data) \in (k + 1 - 1)..Len(data)
  BY <1>1
<1>4. /\ p \in Seq(Nat) /\ Len(p) = Len(data) - (k + 1) + 1
      /\ \A i \in 1..(Len(data) - (k + 1) + 1) : p[i] = data[k + 1 + i - 1]
  BY ONLY <1>2, <1>3, data \in Seq(Nat), SubSeqFacts
<1>5. Len(p) = Len(data) - k /\ \A i \in 1..(Len(data) - k) : p[i] = data[k + i]
  BY ONLY <1>1, <1>4, k \in Nat
<1>6. ASSUME NEW s \in Seq(Nat), NEW o \in Nat \ {0}, Holds(data, o + k, s)
      PROVE  Holds(p, o, s)
  <2>1. Len(s) \in Nat
    BY LenProperties
  <2>2. o + k + Len(s) <= Len(data) + 1 /\ \A i \in 1..Len(s) : data[o + k + i - 1] = s[i]
    BY <1>6 DEF Holds
  <2>3. ASSUME NEW i \in 1..Len(s) PROVE p[o + i - 1] = s[i]
    <3>1. o + i - 1 \in 1..(Len(data) - k) /\ k + (o + i - 1) = o + k + i - 1
      BY ONLY <1>1, <2>1, <2>2, i \in 1..Len(s), o \in Nat \ {0}, k \in Nat
    <3> QED BY ONLY <1>5, <2>2, <3>1, i \in 1..Len(s)
  <2>4. o + Len(s) <= Len(p) + 1
    BY ONLY <1>1, <1>5, <2>1, <2>2, o \in Nat \ {0}, k \in Nat
  <2> QED BY ONLY <2>3, <2>4 DEF Holds
<1> QED BY <1>2, <1>4, <1>5, <1>6

----------------------------------------------------------------------------
(* Lists of elements.                                                      *)

\* A list that is read from each place on to a later one is read to its end.
Onward(n, Z, next) == \A o \in 1..n : o \notin Z => next[o] \in (o + 1)..n

Walks(u, n, Z, piece, next) ==
  \A o \in 1..n : u[o] = IF o \in Z THEN <<>> ELSE piece[o] \o u[next[o]]

\* Such a list is read from every place on, to pieces of the places it stops at.
LEMMA Walk ==
  ASSUME NEW n \in Nat, NEW Z, NEW piece, NEW next, Onward(n, Z, next)
  PROVE  \E u : Walks(u, n, Z, piece, next)
<1> DEFINE Reads(f, o) == f[o] = IF o \in Z THEN <<>> ELSE piece[o] \o f[next[o]]
           T == {k \in Nat : \E f : \A o \in 1..n : o + k > n => Reads(f, o)}
<1>1. 0 \in T
  OBVIOUS
<1>2. ASSUME NEW k \in Nat, k \in T PROVE k + 1 \in T
  <2>1. PICK f : \A o \in 1..n : o + k > n => Reads(f, o)
    BY <1>2
  <2>2. PICK v : v = IF n - k \in Z THEN <<>> ELSE piece[n - k] \o f[next[n - k]]
    OBVIOUS
  <2>3. PICK g : g = [o \in 1..n |-> IF o = n - k THEN v ELSE f[o]]
    OBVIOUS
  <2>4. ASSUME NEW o \in 1..n, o + (k + 1) > n PROVE Reads(g, o)
    <3>1. o \notin Z => g[next[o]] = f[next[o]]
      <4>1. ASSUME o \notin Z PROVE next[o] \in 1..n /\ next[o] # n - k
        BY ONLY <2>4, <4>1, n \in Nat, k \in Nat, Onward(n, Z, next) DEF Onward
      <4> QED BY ONLY <4>1, <2>3
    <3>2. CASE o = n - k
      <4>1. g[o] = v
        BY ONLY <2>3, <3>2, o \in 1..n
      <4> QED BY ONLY <4>1, <3>1, <2>2, <3>2
    <3>3. CASE o # n - k
      <4>1. g[o] = f[o]
        BY ONLY <2>3, <3>3, o \in 1..n
      <4>2. o + k > n
        BY ONLY <2>4, <3>3, n \in Nat, k \in Nat
      <4>3. Reads(f, o)
        BY <2>1, <4>2
      <4> QED BY ONLY <3>1, <4>1, <4>3
    <3> QED BY <3>2, <3>3
  <2> QED BY <2>4
<1>3. n \in T
  <2> HIDE DEF T
  <2> QED BY <1>1, <1>2, Steps
<1>4. PICK f : \A o \in 1..n : o + n > n => Reads(f, o)
  BY <1>3
<1> QED BY <1>4 DEF Walks

\* The element at o, and where the one after it is.
NoElement(data, o) == o >= Len(data) \/ o + 1 + data[o + 1] > Len(data)
ElementAt(data, o) == [iei |-> data[o], value |-> SubSeq(data, o + 2, o + 1 + data[o + 1])]
Behind(data, o) == o + 2 + data[o + 1]

\* Elements is read in that way.
LEMMA ElementsRead ==
  ASSUME NEW data \in Seq(Nat), NEW from \in 1..(Len(data) + 1)
  PROVE  Elements(data, from) =
           IF NoElement(data, from) THEN <<>>
           ELSE <<ElementAt(data, from)>> \o Elements(data, Behind(data, from))
<1> DEFINE F(f) ==
      [o \in 1..(Len(data) + 1) |->
         IF o >= Len(data) \/ o + 1 + data[o + 1] > Len(data) THEN <<>>
         ELSE <<[iei |-> data[o], value |-> SubSeq(data, o + 2, o + 1 + data[o + 1])]>>
                \o f[o + 2 + data[o + 1]]]
<1>1. PICK n : n = Len(data) + 1
  OBVIOUS
<1>2. n \in Nat /\ Len(data) \in Nat /\ \A i \in 1..Len(data) : data[i] \in Nat
  BY <1>1, LenProperties, ElementOfSeq
<1>3. ASSUME NEW o \in 1..n, ~NoElement(data, o) PROVE Behind(data, o) \in (o + 1)..n
  <2>1. o < Len(data) /\ ~(o + 1 + data[o + 1] > Len(data))
    BY <1>1, <1>2, <1>3 DEF NoElement
  <2>2. data[o + 1] \in Nat
    BY <1>1, <1>2, <2>1
  <2> QED BY ONLY <1>1, <1>2, <2>1, <2>2, o \in 1..n DEF Behind
<1>4. \E f : f = F(f)
  <2>1. PICK Z, piece, next :
          /\ Z = {o \in 1..n : NoElement(data, o)}
          /\ piece = [o \in 1..n |-> <<ElementAt(data, o)>>]
          /\ next = [o \in 1..n |-> Behind(data, o)]
    OBVIOUS
  <2>2. Onward(n, Z, next)
    BY ONLY <1>3, <2>1 DEF Onward
  <2>3. PICK f : Walks(f, n, Z, piece, next)
    BY <1>2, <2>2, Walk
  <2>7. PICK u : u = [o \in 1..n |-> f[o]]
    OBVIOUS
  <2>8. \A o \in 1..n : u[o] = f[o] /\ (o \notin Z => next[o] \in 1..n)
    BY <1>2, <2>2, <2>7 DEF Onward
  <2>9. \A o \in 1..n : u[o] = IF o \in Z THEN <<>> ELSE piece[o] \o u[next[o]]
    BY ONLY <2>3, <2>8 DEF Walks
  <2>4. \A o \in 1..n : u[o] = IF NoElement(data, o) THEN <<>>
                               ELSE <<ElementAt(data, o)>> \o u[Behind(data, o)]
    BY ONLY <2>1, <2>9
  <2>5. \A o \in 1..n : u[o] =
          IF o >= Len(data) \/ o + 1 + data[o + 1] > Len(data) THEN <<>>
          ELSE <<[iei |-> data[o], value |-> SubSeq(data, o + 2, o + 1 + data[o + 1])]>>
                 \o u[o + 2 + data[o + 1]]
    BY ONLY <2>4, Zenon DEF NoElement, ElementAt, Behind
  <2>6. u = F(u)
    BY ONLY <1>1, <2>5, <2>7
  <2> QED BY <2>6
<1>5. PICK u : u = CHOOSE f : f = F(f)
  OBVIOUS
<1>6. u = F(u)
  BY <1>4, <1>5
<1>7. \A o \in 1..n : u[o] = IF NoElement(data, o) THEN <<>>
                             ELSE <<ElementAt(data, o)>> \o u[Behind(data, o)]
  <2>1. \A o \in 1..(Len(data) + 1) : F(u)[o] =
          IF o >= Len(data) \/ o + 1 + data[o + 1] > Len(data) THEN <<>>
          ELSE <<[iei |-> data[o], value |-> SubSeq(data, o + 2, o + 1 + data[o + 1])]>>
                 \o u[o + 2 + data[o + 1]]
    OBVIOUS
  <2> HIDE DEF F
  <2> QED BY ONLY <1>1, <1>6, <2>1, Zenon DEF NoElement, ElementAt, Behind
<1>8. \A o \in 1..n : Elements(data, o) = u[o]
  <2>1. ASSUME NEW o \in 1..n, o <= Len(data) PROVE Elements(data, o) = u[o]
    <3>1. Elements(data, o) = IF o > Len(data) THEN <<>> ELSE u[o]
      BY <1>5 DEF Elements
    <3> QED BY ONLY <1>2, <2>1, <3>1
  <2>2. ASSUME NEW o \in 1..n, ~(o <= Len(data)) PROVE Elements(data, o) = u[o]
    <3>1. o > Len(data) /\ o >= Len(data)
      BY ONLY <1>2, <2>2
    <3>2. Elements(data, o) = <<>>
      BY <3>1 DEF Elements
    <3> QED BY <1>7, <3>1, <3>2 DEF NoElement
  <2> QED BY <2>1, <2>2
<1> HIDE DEF F
<1>9. from \in 1..n
  BY <1>1
<1>10. CASE NoElement(data, from)
  BY <1>7, <1>8, <1>9, <1>10
<1>11. CASE ~NoElement(data, from)
  <2>1. Behind(data, from) \in 1..n
    BY <1>2, <1>3, <1>9, <1>11
  <2>2. u[Behind(data, from)] = Elements(data, Behind(data, from))
    BY ONLY <1>8, <2>1
  <2> QED BY ONLY <1>7, <1>8, <1>9, <1>11, <2>2
<1> QED BY <1>10, <1>11

\* The pieces of a sequence, put together one by one.
Joins(u, s) ==
  /\ FlattenSeq(s) = IF Len(s) = 0 THEN s ELSE u[Len(s)]
  /\ \A i \in 1..Len(s) : u[i] = IF i = 1 THEN s[i] ELSE u[i - 1] \o s[i]

\* Pieces that are read one by one make up the sequence they were cut from.
LEMMA Join ==
  ASSUME NEW s, Len(s) \in Nat
  PROVE  \E u : Joins(u, s)
<1> DEFINE F(f) == [i \in 1..Len(s) |-> IF i = 1 THEN s[i] ELSE f[i - 1] \o s[i]]
           Put(f, i) == f[i] = IF i = 1 THEN s[i] ELSE f[i - 1] \o s[i]
           T == {k \in Nat : \E f : \A i \in 1..Len(s) : i <= k => Put(f, i)}
<1>1. 0 \in T
  OBVIOUS
<1>2. ASSUME NEW k \in Nat, k \in T PROVE k + 1 \in T
  <2>1. PICK f : \A i \in 1..Len(s) : i <= k => Put(f, i)
    BY <1>2
  <2>2. PICK v : v = IF k + 1 = 1 THEN s[k + 1] ELSE f[k] \o s[k + 1]
    OBVIOUS
  <2>3. PICK g : g = [i \in 1..Len(s) |-> IF i = k + 1 THEN v ELSE f[i]]
    OBVIOUS
  <2>4. ASSUME NEW i \in 1..Len(s), i <= k + 1 PROVE Put(g, i)
    <3>1. i # 1 => i - 1 \in 1..Len(s) /\ i - 1 # k + 1
      BY ONLY <2>4, Len(s) \in Nat, k \in Nat
    <3>2. i # 1 => g[i - 1] = f[i - 1]
      BY ONLY <2>3, <3>1
    <3>3. CASE i = k + 1
      <4>1. g[i] = v /\ i - 1 = k
        BY ONLY <2>3, <3>3, i \in 1..Len(s), k \in Nat
      <4> QED BY ONLY <2>2, <3>2, <3>3, <4>1
    <3>4. CASE i # k + 1
      <4>1. g[i] = f[i] /\ i <= k
        BY ONLY <2>3, <2>4, <3>4, Len(s) \in Nat, k \in Nat
      <4>2. Put(f, i)
        BY <2>1, <4>1
      <4> QED BY ONLY <3>2, <4>1, <4>2
    <3> QED BY <3>3, <3>4
  <2> QED BY <2>4
<1>3. Len(s) \in T
  <2> HIDE DEF T
  <2> QED BY <1>1, <1>2, Steps
<1>4. PICK f : \A i \in 1..Len(s) : Put(f, i)
  BY <1>3
<1>5. PICK g : g = [i \in 1..Len(s) |-> f[i]]
  OBVIOUS
<1>6. \A i \in 1..Len(s) : g[i] = f[i] /\ (i # 1 => g[i - 1] = f[i - 1])
  BY <1>5
<1>7. \A i \in 1..Len(s) : g[i] = IF i = 1 THEN s[i] ELSE g[i - 1] \o s[i]
  BY ONLY <1>4, <1>6
<1>8. g = F(g)
  BY ONLY <1>5, <1>7
<1>9. PICK u : u = CHOOSE h : h = F(h)
  OBVIOUS
<1>10. u = F(u)
  BY <1>8, <1>9
<1>11. \A i \in 1..Len(s) : u[i] = IF i = 1 THEN s[i] ELSE u[i - 1] \o s[i]
  <2>1. \A i \in 1..Len(s) : F(u)[i] = IF i = 1 THEN s[i] ELSE u[i - 1] \o s[i]
    OBVIOUS
  <2> HIDE DEF F
  <2> QED BY ONLY <1>10, <2>1
<1>12. FlattenSeq(s) = IF Len(s) = 0 THEN s ELSE u[Len(s)]
  BY <1>9 DEF FlattenSeq
<1> QED BY <1>11, <1>12 DEF Joins

----------------------------------------------------------------------------
(* The identity of a subscriber.                                           *)

\* One cell of a sequence, and two.
LEMMA CellsOf ==
  ASSUME NEW S, NEW d \in Seq(S), NEW k \in 1..Len(d)
  PROVE  /\ SubSeq(d, k, k) = <<d[k]>>
         /\ k + 1 <= Len(d) => SubSeq(d, k, k + 1) = <<d[k], d[k + 1]>>
<1>1. Len(d) \in Nat /\ d[k] \in S /\ k \in Nat /\ k >= 1 /\ k <= Len(d)
  BY LenProperties, ElementOfSeq
<1>2. SubSeq(d, k, k) = <<d[k]>>
  <2>1. PICK p : p = SubSeq(d, k, k)
    OBVIOUS
  <2>2. /\ p \in Seq(S) /\ Len(p) = k - k + 1
        /\ \A i \in 1..(k - k + 1) : p[i] = d[k + i - 1]
    <3>1. k \in 1..(Len(d) + 1) /\ k \in (k - 1)..Len(d)
      BY ONLY <1>1
    <3> QED BY ONLY <2>1, <3>1, d \in Seq(S), SubSeqFacts
  <2>3. Len(p) = 1 /\ p[1] = d[k]
    <3>1. k - k + 1 = 1 /\ k + 1 - 1 = k
      BY ONLY <1>1
    <3> QED BY ONLY <2>2, <3>1
  <2>4. PICK q : q = <<d[k]>>
    OBVIOUS
  <2>5. q \in Seq(S) /\ Len(q) = 1 /\ q[1] = d[k]
    BY ONLY <1>1, <2>4
  <2>6. Len(p) = Len(q) /\ \A i \in 1..Len(p) : p[i] = q[i]
    BY ONLY <2>3, <2>5
  <2> QED BY ONLY <2>1, <2>2, <2>4, <2>5, <2>6, SeqEqual
<1>3. ASSUME k + 1 <= Len(d) PROVE SubSeq(d, k, k + 1) = <<d[k], d[k + 1]>>
  <2>1. PICK p : p = SubSeq(d, k, k + 1)
    OBVIOUS
  <2>2. /\ p \in Seq(S) /\ Len(p) = k + 1 - k + 1
        /\ \A i \in 1..(k + 1 - k + 1) : p[i] = d[k + i - 1]
    <3>1. k \in 1..(Len(d) + 1) /\ k + 1 \in (k - 1)..Len(d)
      BY ONLY <1>1, <1>3
    <3> QED BY ONLY <2>1, <3>1, d \in Seq(S), SubSeqFacts
  <2>3. Len(p) = 2 /\ p[1] = d[k] /\ p[2] = d[k + 1]
    <3>1. k + 1 - k + 1 = 2 /\ k + 1 - 1 = k /\ k + 2 - 1 = k + 1
      BY ONLY <1>1
    <3> QED BY ONLY <2>2, <3>1
  <2>4. PICK q : q = <<d[k], d[k + 1]>>
    OBVIOUS
  <2>5. q \in Seq(S) /\ Len(q) = 2 /\ q[1] = d[k] /\ q[2] = d[k + 1]
    <3>1. k + 1 \in 1..Len(d)
      BY ONLY <1>1, <1>3
    <3>2. d[k + 1] \in S
      BY ONLY <3>1, d \in Seq(S), ElementOfSeq
    <3> QED BY ONLY <1>1, <2>4, <3>2
  <2>6. Len(p) = Len(q) /\ \A i \in 1..Len(p) : p[i] = q[i]
    BY ONLY <2>3, <2>5
  <2> QED BY ONLY <2>1, <2>2, <2>4, <2>5, <2>6, SeqEqual
<1> QED BY <1>2, <1>3

\* Two sequences of one member.
LEMMA OneAndOne ==
  ASSUME NEW x, NEW y
  PROVE  <<x>> \o <<y>> = <<x, y>>
<1>1. PICK a, b, p, q : a = <<x>> /\ b = <<y>> /\ p = a \o b /\ q = <<x, y>>
  OBVIOUS
<1>2. PICK S : S = {x, y}
  OBVIOUS
<1>3. a \in Seq(S) /\ b \in Seq(S) /\ Len(a) = 1 /\ Len(b) = 1 /\ a[1] = x /\ b[1] = y
  BY <1>1, <1>2
<1>4. q \in Seq(S) /\ Len(q) = 2 /\ q[1] = x /\ q[2] = y
  BY <1>1, <1>2
<1>5. /\ p \in Seq(S) /\ Len(p) = Len(a) + Len(b)
      /\ \A i \in 1..Len(a) : p[i] = a[i]
      /\ \A i \in 1..Len(b) : p[Len(a) + i] = b[i]
  BY ONLY <1>1, <1>3, ConcatFacts
<1>6. Len(p) = 2 /\ p[1] = x /\ p[2] = y
  BY ONLY <1>3, <1>5
<1>7. Len(p) = Len(q) /\ \A i \in 1..Len(p) : p[i] = q[i]
  BY ONLY <1>4, <1>6
<1>8. p = q
  BY ONLY <1>4, <1>5, <1>7, SeqEqual
<1> QED BY <1>1, <1>8

\* The digits of the i-th octet.
EndOfPair(d, i) == IF 2 * i <= Len(d) THEN 2 * i ELSE Len(d)
Pair(d, i) == SubSeq(d, 2 * i - 1, EndOfPair(d, i))

\* An octet gives the digits it was made of, and no filler.
LEMMA ReadPair ==
  ASSUME NEW d \in Seq(0..9), NEW i \in Nat \ {0}, 2 * i - 1 <= Len(d),
         NEW b, b = d[2 * i - 1] + 16 * (IF 2 * i <= Len(d) THEN d[2 * i] ELSE Filler)
  PROVE  Digit(b % 16) \o Digit(b \div 16) = Pair(d, i)
<1>1. Len(d) \in Nat
  BY LenProperties
<1>2. PICK k : k = 2 * i - 1
  OBVIOUS
<1>3. k \in 1..Len(d) /\ 2 * i = k + 1
  BY <1>1, <1>2
<1>4. PICK x : x = d[k]
  OBVIOUS
<1>5. x \in 0..9 /\ x \in 0..15 /\ x <= 9
  <2>1. x \in 0..9
    BY <1>3, <1>4, ElementOfSeq
  <2> QED BY <2>1
<1>6. b = x + 16 * (IF k + 1 <= Len(d) THEN d[k + 1] ELSE 15)
  BY <1>2, <1>3, <1>4 DEF Filler
<1>7. Digit(x) = <<x>>
  BY <1>5 DEF Digit
<1>8. CASE k + 1 <= Len(d)
  <2>1. PICK y : y = d[k + 1]
    OBVIOUS
  <2>2. y \in 0..9 /\ y \in 0..15 /\ y <= 9
    <3>1. k + 1 \in 1..Len(d)
      BY <1>1, <1>3, <1>8
    <3>2. y \in 0..9
      BY <2>1, <3>1, ElementOfSeq
    <3> QED BY <3>2
  <2>3. b = 16 * y + x
    BY <1>5, <1>6, <1>8, <2>1, <2>2
  <2>4. b % 16 = x /\ b \div 16 = y
    BY ONLY <1>5, <2>2, <2>3, Nibbles, Zenon
  <2>5. Digit(y) = <<y>>
    BY <2>2 DEF Digit
  <2>6. <<x>> \o <<y>> = <<x, y>>
    BY ONLY OneAndOne
  <2>7. Pair(d, i) = <<x, y>>
    BY <1>2, <1>3, <1>4, <1>8, <2>1, CellsOf DEF Pair, EndOfPair
  <2> QED BY <1>7, <2>4, <2>5, <2>6, <2>7
<1>9. CASE ~(k + 1 <= Len(d))
  <2>1. Len(d) = k
    BY <1>1, <1>3, <1>9
  <2>2. b = 16 * 15 + x
    BY <1>5, <1>6, <1>9
  <2>3. b % 16 = x /\ b \div 16 = 15
    <3>1. 15 \in 0..15
      OBVIOUS
    <3> QED BY ONLY <1>5, <2>2, <3>1, Nibbles, Zenon
  <2>4. Digit(15) = <<>>
    BY DEF Digit
  <2>5. <<x>> \o <<>> = <<x>>
    BY ONLY TRUE
  <2>6. Pair(d, i) = <<x>>
    BY <1>2, <1>3, <1>4, <1>9, <2>1, CellsOf DEF Pair, EndOfPair
  <2> QED BY <1>7, <2>3, <2>4, <2>5, <2>6
<1> QED BY <1>8, <1>9

\* decodeMSIN gives the digits encodeMSIN packed two to an octet, however many, odd
\* or even, and never the filler.
THEOREM ReadMSIN ==
  ASSUME NEW d \in Seq(0..9), d # <<>>
  PROVE  /\ DecodeMSIN(EncodeMSIN(d)) = d
         /\ EncodeMSIN(d) \in Seq(Nat) /\ Len(EncodeMSIN(d)) = (Len(d) + 1) \div 2
<1>1. PICK n : n = (Len(d) + 1) \div 2
  OBVIOUS
<1>2. Len(d) \in Nat /\ Len(d) # 0
  BY LenProperties, EmptySeq
<1>3. n \in Nat /\ n >= 1 /\ 2 * n >= Len(d) /\ 2 * n <= Len(d) + 1
  BY SMT, <1>1, <1>2
<1>4. PICK b : b = EncodeMSIN(d)
  OBVIOUS
<1>5. b = [i \in 1..n |-> d[2 * i - 1] + 16 * (IF 2 * i <= Len(d) THEN d[2 * i] ELSE Filler)]
  BY <1>1, <1>4 DEF EncodeMSIN
<1>6. b \in Seq(Nat) /\ Len(b) = n
  <2>1. ASSUME NEW i \in 1..n
        PROVE  d[2 * i - 1] + 16 * (IF 2 * i <= Len(d) THEN d[2 * i] ELSE Filler) \in Nat
    <3>1. 2 * i - 1 \in 1..Len(d)
      BY <1>2, <1>3
    <3>2. d[2 * i - 1] \in Nat
      <4>1. d[2 * i - 1] \in 0..9
        BY ONLY <3>1, d \in Seq(0..9), ElementOfSeq
      <4> QED BY <4>1
    <3>3. (IF 2 * i <= Len(d) THEN d[2 * i] ELSE Filler) \in Nat
      <4>1. CASE 2 * i <= Len(d)
        <5>1. 2 * i \in 1..Len(d)
          BY <1>2, <4>1
        <5>2. d[2 * i] \in 0..9
          BY ONLY <5>1, d \in Seq(0..9), ElementOfSeq
        <5> QED BY <4>1, <5>2
      <4>2. CASE ~(2 * i <= Len(d))
        BY <4>2 DEF Filler
      <4> QED BY <4>1, <4>2
    <3>4. PICK x, y : x = d[2 * i - 1] /\ y = (IF 2 * i <= Len(d) THEN d[2 * i] ELSE Filler)
      OBVIOUS
    <3>5. x + 16 * y \in Nat
      BY ONLY <3>2, <3>3, <3>4
    <3> QED BY ONLY <3>4, <3>5
  <2>2. b \in [1..n -> Nat]
    BY ONLY <1>5, <2>1
  <2> QED BY <1>3, <2>2, FunctionSeq
<1>7. PICK s : s = [i \in 1..n |-> Digit(b[i] % 16) \o Digit(b[i] \div 16)]
  OBVIOUS
<1>8. ASSUME NEW i \in 1..n PROVE s[i] = Pair(d, i)
  <2>1. i \in Nat \ {0} /\ 2 * i - 1 <= Len(d)
    BY <1>2, <1>3
  <2>2. b[i] = d[2 * i - 1] + 16 * (IF 2 * i <= Len(d) THEN d[2 * i] ELSE Filler)
    BY ONLY <1>5, i \in 1..n
  <2>3. Digit(b[i] % 16) \o Digit(b[i] \div 16) = Pair(d, i)
    <3>1. PICK c : c = b[i]
      OBVIOUS
    <3>2. Digit(c % 16) \o Digit(c \div 16) = Pair(d, i)
      BY ONLY <2>1, <2>2, <3>1, d \in Seq(0..9), ReadPair
    <3> QED BY ONLY <3>1, <3>2
  <2>4. s[i] = Digit(b[i] % 16) \o Digit(b[i] \div 16)
    BY ONLY <1>7, i \in 1..n
  <2> QED BY ONLY <2>3, <2>4
<1>9. Len(s) = n
  <2>1. s \in [1..n -> {s[i] : i \in 1..n}]
    BY <1>7
  <2> QED BY <1>3, <2>1, FunctionSeq
<1>10. PICK u : Joins(u, s)
  BY <1>3, <1>9, Join
<1>11. /\ FlattenSeq(s) = u[n]
       /\ \A i \in 1..n : u[i] = IF i = 1 THEN s[i] ELSE u[i - 1] \o s[i]
  BY <1>3, <1>9, <1>10 DEF Joins
<1> DEFINE T == {i \in Nat : i + 1 <= n => u[i + 1] = SubSeq(d, 1, EndOfPair(d, i + 1))}
<1>12. 0 \in T
  <2>1. u[1] = Pair(d, 1)
    BY <1>3, <1>8, <1>11
  <2>2. Pair(d, 1) = SubSeq(d, 1, EndOfPair(d, 1))
    BY DEF Pair
  <2> QED BY <2>1, <2>2
<1>13. ASSUME NEW i \in Nat, i \in T PROVE i + 1 \in T
  <2>1. SUFFICES ASSUME i + 2 <= n PROVE u[i + 2] = SubSeq(d, 1, EndOfPair(d, i + 2))
    BY <1>3
  <2>2. u[i + 1] = SubSeq(d, 1, EndOfPair(d, i + 1))
    BY <1>3, <1>13, <2>1
  <2>3. u[i + 2] = u[i + 1] \o s[i + 2]
    <3>1. PICK j : j = i + 2
      OBVIOUS
    <3>2. j \in 1..n /\ j # 1 /\ j - 1 = i + 1
      BY <1>3, <2>1, <3>1
    <3>3. u[j] = u[j - 1] \o s[j]
      BY ONLY <1>11, <3>2
    <3> QED BY ONLY <3>1, <3>2, <3>3
  <2>4. s[i + 2] = SubSeq(d, 2 * (i + 2) - 1, EndOfPair(d, i + 2))
    <3>1. i + 2 \in 1..n
      BY <1>3, <2>1
    <3> QED BY <1>8, <3>1 DEF Pair
  <2>5. PICK k, m : k = 2 * (i + 1) /\ m = EndOfPair(d, i + 2)
    OBVIOUS
  <2>6. EndOfPair(d, i + 1) = k
    BY <1>2, <1>3, <2>1, <2>5 DEF EndOfPair
  <2>7. k + 1 = 2 * (i + 2) - 1 /\ k \in 0..Len(d) /\ m \in k..Len(d) /\ 1 \in 1..(Len(d) + 1)
    BY <1>2, <1>3, <2>1, <2>5 DEF EndOfPair
  <2>8. SubSeq(d, 1, k) \o SubSeq(d, k + 1, m) = SubSeq(d, 1, m)
    <3>1. k \in (1 - 1)..Len(d)
      BY <2>7
    <3> QED BY ONLY <2>7, <3>1, d \in Seq(0..9), ConcatAdjacentSubSeq
  <2> QED BY ONLY <2>2, <2>3, <2>4, <2>5, <2>6, <2>7, <2>8
<1>14. n - 1 \in T
  <2> HIDE DEF T
  <2>1. n - 1 \in Nat
    BY <1>3
  <2> QED BY <1>12, <1>13, <2>1, Steps
<1>15. u[n] = SubSeq(d, 1, EndOfPair(d, n))
  <2>1. n - 1 + 1 <= n /\ n - 1 + 1 = n
    BY <1>3
  <2>2. u[n - 1 + 1] = SubSeq(d, 1, EndOfPair(d, n - 1 + 1))
    BY <1>14, <2>1
  <2> QED BY ONLY <2>1, <2>2
<1>16. EndOfPair(d, n) = Len(d)
  BY <1>2, <1>3 DEF EndOfPair
<1>17. DecodeMSIN(b) = FlattenSeq(s)
  BY <1>6, <1>7 DEF DecodeMSIN
<1>18. SubSeq(d, 1, Len(d)) = d
  BY SubSeqFull
<1> QED BY ONLY <1>1, <1>4, <1>6, <1>11, <1>15, <1>16, <1>17, <1>18

----------------------------------------------------------------------------
(* The identity an AMF gives.                                              *)

\* Two sequences of numbers make one, as long as both.
LEMMA Joined ==
  ASSUME NEW s \in Seq(Nat), NEW t \in Seq(Nat), NEW st, st = s \o t
  PROVE  st \in Seq(Nat) /\ Len(st) = Len(s) + Len(t)
BY ConcatFacts

\* No octets are the sign that a field is not there.
LEMMA NotAbsent ==
  ASSUME NEW s \in Seq(Nat)
  PROVE  s # Absent
<1> SUFFICES ASSUME s = Absent PROVE FALSE
  OBVIOUS
<1>1. s = <<-1>>
  BY DEF Absent
<1>2. s[1] = -1 /\ Len(s) = 1
  BY ONLY <1>1
<1>3. s[1] \in Nat
  BY <1>2, ElementOfSeq
<1> QED BY ONLY <1>2, <1>3

\* Two half octets make a number.
LEMMA TwoDigits ==
  ASSUME NEW a \in Nat, NEW b \in Nat
  PROVE  16 * b + a \in Nat
OBVIOUS

\* A PLMN takes three octets.
LEMMA PLMNOctets ==
  ASSUME NEW p \in Seq(0..9), Len(p) \in {5, 6}
  PROVE  EncodePLMN(p) \in Seq(Nat) /\ Len(EncodePLMN(p)) = 3
<1>1. /\ p[1] \in Nat /\ p[2] \in Nat /\ p[3] \in Nat /\ p[4] \in Nat /\ p[5] \in Nat
      /\ Len(p) = 6 => p[6] \in Nat
  <2>1. \A i \in 1..Len(p) : p[i] \in 0..9
    BY ElementOfSeq
  <2> QED BY <2>1
<1>2. CASE Len(p) = 5
  <2>1. EncodePLMN(p) = <<16 * p[2] + p[1], 16 * 15 + p[3], 16 * p[5] + p[4]>>
    BY <1>2 DEF EncodePLMN, Filler
  <2>2. PICK x, y, z : x = 16 * p[2] + p[1] /\ y = 16 * 15 + p[3] /\ z = 16 * p[5] + p[4]
    OBVIOUS
  <2>3. x \in Nat /\ y \in Nat /\ z \in Nat
    <3>1. 15 \in Nat
      OBVIOUS
    <3> QED BY ONLY <1>1, <2>2, <3>1, TwoDigits
  <2> QED BY ONLY <2>1, <2>2, <2>3
<1>3. CASE Len(p) = 6
  <2>1. EncodePLMN(p) = <<16 * p[2] + p[1], 16 * p[4] + p[3], 16 * p[6] + p[5]>>
    BY <1>3 DEF EncodePLMN
  <2>2. PICK x, y, z : x = 16 * p[2] + p[1] /\ y = 16 * p[4] + p[3] /\ z = 16 * p[6] + p[5]
    OBVIOUS
  <2>3. x \in Nat /\ y \in Nat /\ z \in Nat
    BY ONLY <1>1, <1>3, <2>2, TwoDigits
  <2> QED BY ONLY <2>1, <2>2, <2>3
<1> QED BY <1>2, <1>3

\* Region, set and pointer in three octets.
LEMMA SharedOctets ==
  ASSUME NEW set, set \in 0..255, NEW pointer, pointer \in 0..63, NEW x, NEW y,
         x = set \div 4, y = (set % 4) * 64 + (pointer % 64)
  PROVE  /\ x \in Nat /\ y \in Nat
         /\ ((x * 4) % 256) + (y \div 64) = set /\ y % 64 = pointer
<1>1. PICK q : q = set % 4
  OBVIOUS
<1>2. x \in 0..63 /\ q \in 0..3 /\ set = 4 * x + q
  BY SMT, <1>1
<1>3. pointer % 64 = pointer
  BY SMT
<1>4. y = 64 * q + pointer /\ y \in Nat
  BY SMT, <1>1, <1>2, <1>3
<1>5. y \div 64 = q /\ y % 64 = pointer
  BY SMT, <1>2, <1>4
<1>6. (x * 4) % 256 = 4 * x
  BY SMT, <1>2
<1> QED BY SMT, <1>2, <1>4, <1>5, <1>6

\* DecodeGUTI gives back the identity EncodeGUTI wrote, though set and pointer share
\* an octet and it reads but eight bits of the set: the AMF's has no more.
THEOREM ReadGUTI ==
  ASSUME NEW c \in AmfConfigs, NEW tmsi \in Tmsis
  PROVE  /\ DecodeGUTI(EncodeGUTI(Guti(c, tmsi))) = Guti(c, tmsi)
         /\ EncodeGUTI(Guti(c, tmsi)) \in Seq(Nat) /\ Len(EncodeGUTI(Guti(c, tmsi))) = 11
<1>1. /\ c.region \in 0..255 /\ c.set \in 0..255 /\ c.pointer \in 0..63
      /\ c.plmn \in Seq(0..9) /\ Len(c.plmn) \in {5, 6}
  BY SetupAssumption
<1>2. tmsi \in Numbers32 /\ tmsi \in Nat
  BY MessageAssumption DEF Numbers32
<1>3. PICK first, plmn, mid, x, y, last, b :
        /\ first = <<246>> /\ plmn = EncodePLMN(c.plmn)
        /\ x = c.set \div 4 /\ y = (c.set % 4) * 64 + (c.pointer % 64)
        /\ mid = <<c.region, x, y>> /\ last = BigEndian(tmsi, 4)
        /\ b = first \o plmn \o mid \o last
  OBVIOUS
<1>4. EncodeGUTI(Guti(c, tmsi)) = b
  BY <1>3 DEF EncodeGUTI, Guti
<1>5. /\ x \in Nat /\ y \in Nat
      /\ ((x * 4) % 256) + (y \div 64) = c.set /\ y % 64 = c.pointer
  <2>1. PICK set, pointer : set = c.set /\ pointer = c.pointer
    OBVIOUS
  <2>2. set \in 0..255 /\ pointer \in 0..63
    BY <1>1, <2>1
  <2>3. x = set \div 4 /\ y = (set % 4) * 64 + (pointer % 64)
    BY <1>3, <2>1
  <2>4. /\ x \in Nat /\ y \in Nat
        /\ ((x * 4) % 256) + (y \div 64) = set /\ y % 64 = pointer
    BY ONLY <2>2, <2>3, SharedOctets
  <2> QED BY ONLY <2>1, <2>4
<1>6. /\ first \in Seq(Nat) /\ Len(first) = 1 /\ plmn \in Seq(Nat) /\ Len(plmn) = 3
      /\ mid \in Seq(Nat) /\ Len(mid) = 3 /\ last \in Seq(Nat) /\ Len(last) = 4
      /\ mid[1] = c.region /\ mid[2] = x /\ mid[3] = y
  <2>1. first \in Seq(Nat) /\ Len(first) = 1
    BY <1>3
  <2>2. plmn \in Seq(Nat) /\ Len(plmn) = 3
    BY <1>1, <1>3, PLMNOctets
  <2>3. /\ mid \in Seq(Nat) /\ Len(mid) = 3
        /\ mid[1] = c.region /\ mid[2] = x /\ mid[3] = y
    <3>1. c.region \in Nat
      <4>1. c.region \in 0..255
        BY <1>1
      <4> QED BY ONLY <4>1
    <3> QED BY <1>3, <1>5, <3>1
  <2>4. last \in Seq(Nat) /\ Len(last) = 4
    BY <1>2, <1>3, FourBytesSeq
  <2> QED BY ONLY <2>1, <2>2, <2>3, <2>4
<1>7. PICK fp, fpm : fp = first \o plmn /\ fpm = fp \o mid
  OBVIOUS
<1>8. /\ fp \in Seq(Nat) /\ Len(fp) = 4 /\ fpm \in Seq(Nat) /\ Len(fpm) = 7
      /\ b = fpm \o last /\ b \in Seq(Nat) /\ Len(b) = 11
  <2>1. fp \in Seq(Nat) /\ Len(fp) = 4
    <3>1. fp \in Seq(Nat) /\ Len(fp) = Len(first) + Len(plmn)
      BY ONLY <1>6, <1>7, Joined
    <3> QED BY ONLY <1>6, <3>1
  <2>2. fpm \in Seq(Nat) /\ Len(fpm) = 7
    <3>1. fpm \in Seq(Nat) /\ Len(fpm) = Len(fp) + Len(mid)
      BY ONLY <1>6, <1>7, <2>1, Joined
    <3> QED BY ONLY <1>6, <2>1, <3>1
  <2>3. b = fpm \o last
    BY ONLY <1>3, <1>7
  <2>4. b \in Seq(Nat) /\ Len(b) = 11
    <3>1. b \in Seq(Nat) /\ Len(b) = Len(fpm) + Len(last)
      BY ONLY <1>6, <2>2, <2>3, Joined
    <3> QED BY ONLY <1>6, <2>2, <3>1
  <2> QED BY ONLY <2>1, <2>2, <2>3, <2>4
<1>9. Holds(b, 2, plmn) /\ Holds(b, 5, mid) /\ Holds(b, 8, last)
  <2>1. Holds(b, 1, fpm \o last)
    BY <1>8, HoldsAll
  <2>2. Holds(b, 1, fpm) /\ Holds(b, 1 + 7, last)
    BY ONLY <1>6, <1>8, <2>1, HoldsSplit, 1 \in Nat \ {0}
  <2>3. Holds(b, 1, fp) /\ Holds(b, 1 + 4, mid)
    BY ONLY <1>6, <1>7, <1>8, <2>2, HoldsSplit, 1 \in Nat \ {0}
  <2>4. Holds(b, 1 + 1, plmn)
    BY ONLY <1>6, <1>7, <1>8, <2>3, HoldsSplit, 1 \in Nat \ {0}
  <2>5. 1 + 7 = 8 /\ 1 + 4 = 5 /\ 1 + 1 = 2
    OBVIOUS
  <2> QED BY ONLY <2>2, <2>3, <2>4, <2>5
<1>10. SubSeq(b, 2, 4) = plmn /\ SubSeq(b, 8, 11) = last
  <2>1. SubSeq(b, 2, 2 + 3 - 1) = plmn
    BY ONLY <1>6, <1>8, <1>9, HoldsPart, 2 \in Nat \ {0}
  <2>2. SubSeq(b, 8, 8 + 4 - 1) = last
    BY ONLY <1>6, <1>8, <1>9, HoldsPart, 8 \in Nat \ {0}
  <2>3. 2 + 3 - 1 = 4 /\ 8 + 4 - 1 = 11
    OBVIOUS
  <2> QED BY ONLY <2>1, <2>2, <2>3
<1>11. b[5] = c.region /\ b[6] = x /\ b[7] = y
  <2>1. \A i \in 1..3 : b[5 + i - 1] = mid[i]
    BY <1>6, <1>9 DEF Holds
  <2> QED BY <1>6, <2>1
<1>12. DecodePLMN(plmn) = c.plmn /\ Number(last) = tmsi
  <2>1. DecodePLMN(plmn) = c.plmn
    BY <1>1, <1>3, ReadPLMN
  <2>2. Number(last) = tmsi
    BY <1>2, <1>3, <1>6, ReadFour
  <2> QED BY <2>1, <2>2
<1>13. ~(b = Absent \/ Len(b) < 10)
  <2>2. b # Absent
    BY ONLY <1>8, NotAbsent
  <2>3. ~(Len(b) < 10)
    BY ONLY <1>8
  <2> QED BY ONLY <2>2, <2>3
<1>14. DecodeGUTI(b) =
         [plmn |-> c.plmn, region |-> c.region, set |-> c.set, pointer |-> c.pointer,
          tmsi |-> tmsi]
  BY ONLY <1>5, <1>10, <1>11, <1>12, <1>13 DEF DecodeGUTI
<1> QED BY <1>4, <1>8, <1>14 DEF Guti

----------------------------------------------------------------------------
(* The elements of a message.                                              *)

\* Octets that are there end in the data.
LEMMA HoldsEnd ==
  ASSUME NEW data \in Seq(Nat), NEW s \in Seq(Nat), NEW o \in Nat \ {0}, Holds(data, o, s),
         NEW k \in 1..Len(s)
  PROVE  data[o + k - 1] = s[k] /\ o + k - 1 <= Len(data) /\ o + Len(s) <= Len(data) + 1
<1>1. Len(data) \in Nat /\ Len(s) \in Nat
  BY LenProperties
<1>2. o + Len(s) <= Len(data) + 1 /\ \A i \in 1..Len(s) : data[o + i - 1] = s[i]
  BY DEF Holds
<1>3. data[o + k - 1] = s[k]
  BY ONLY <1>2, k \in 1..Len(s)
<1>4. o + k - 1 <= Len(data)
  BY ONLY <1>1, <1>2, k \in 1..Len(s), o \in Nat \ {0}
<1> QED BY ONLY <1>2, <1>3, <1>4

Element == [iei : Nat, value : Seq(Nat)]

\* From o on there is no element, or just the one with this value, of an identifier.
Lacks(data, o, iei) ==
  /\ Elements(data, o) \in Seq(Element)
  /\ \A k \in 1..Len(Elements(data, o)) : Elements(data, o)[k].iei # iei

At(s, iei, v, k) ==
  /\ k \in 1..Len(s) /\ s[k].iei = iei /\ s[k].value = v
  /\ \A j \in 1..Len(s) : s[j].iei = iei => j = k

Gives(data, o, iei, v) ==
  /\ Elements(data, o) \in Seq(Element)
  /\ \E k \in 1..Len(Elements(data, o)) : At(Elements(data, o), iei, v, k)

\* Behind the last octet there is no element.
LEMMA AtEnd ==
  ASSUME NEW data \in Seq(Nat), NEW iei
  PROVE  Lacks(data, Len(data) + 1, iei)
<1>1. Len(data) \in Nat
  BY LenProperties
<1>2. Len(data) + 1 > Len(data)
  BY <1>1
<1>3. Elements(data, Len(data) + 1) = <<>>
  BY <1>2 DEF Elements
<1>4. PICK s : s = Elements(data, Len(data) + 1)
  OBVIOUS
<1>5. s \in Seq(Element) /\ Len(s) = 0
  <2>1. s = <<>>
    BY ONLY <1>3, <1>4
  <2>2. <<>> \in Seq(Element) /\ Len(<<>>) = 0
    OBVIOUS
  <2> QED BY ONLY <2>1, <2>2, Zenon
<1>6. \A k \in 1..Len(s) : s[k].iei # iei
  BY ONLY <1>5
<1> QED BY ONLY <1>4, <1>5, <1>6 DEF Lacks

\* An element in front of others.
LEMMA InFront ==
  ASSUME NEW s \in Seq(Element), NEW e \in Element, NEW t, t = <<e>> \o s
  PROVE  /\ t \in Seq(Element) /\ Len(t) = Len(s) + 1 /\ t[1] = e
         /\ \A k \in 1..Len(s) : t[k + 1] = s[k]
         /\ \A k \in 1..Len(t) : k = 1 \/ (k - 1 \in 1..Len(s) /\ t[k] = s[k - 1])
<1>1. Len(s) \in Nat
  BY LenProperties
<1>2. PICK f : f = <<e>>
  OBVIOUS
<1>3. f \in Seq(Element) /\ Len(f) = 1 /\ f[1] = e
  BY <1>2
<1>4. /\ t \in Seq(Element) /\ Len(t) = Len(f) + Len(s)
      /\ \A i \in 1..Len(f) : t[i] = f[i]
      /\ \A i \in 1..Len(s) : t[Len(f) + i] = s[i]
  BY ONLY <1>2, <1>3, t = <<e>> \o s, s \in Seq(Element), ConcatFacts
<1>5. Len(t) = Len(s) + 1 /\ t[1] = e
  BY ONLY <1>1, <1>3, <1>4
<1>6. ASSUME NEW k \in 1..Len(s) PROVE t[k + 1] = s[k]
  <2>1. Len(f) + k = k + 1
    BY ONLY <1>3, k \in 1..Len(s)
  <2> QED BY ONLY <1>4, <2>1, k \in 1..Len(s)
<1>7. ASSUME NEW k \in 1..Len(t), k # 1 PROVE k - 1 \in 1..Len(s) /\ t[k] = s[k - 1]
  <2>1. k - 1 \in 1..Len(s) /\ k - 1 + 1 = k
    BY ONLY <1>1, <1>5, <1>7, k \in 1..Len(t)
  <2>2. t[k - 1 + 1] = s[k - 1]
    BY ONLY <1>6, <2>1
  <2> QED BY ONLY <2>1, <2>2
<1> QED BY ONLY <1>4, <1>5, <1>6, <1>7

\* A value after its length.
LEMMA LengthFirst ==
  ASSUME NEW v \in Seq(Nat), Len(v) < 256
  PROVE  /\ Prefixed(v) = <<Len(v)>> \o v
         /\ Prefixed(v) \in Seq(Nat) /\ Len(Prefixed(v)) = Len(v) + 1
         /\ Prefixed(v)[1] = Len(v)
         /\ \A k \in 1..Len(v) : Prefixed(v)[k + 1] = v[k]
<1>1. PICK n : n = Len(v)
  OBVIOUS
<1>2. n \in Nat /\ n < 256
  BY <1>1, LenProperties
<1>3. n % 256 = n
  BY SMT, <1>2
<1>4. PICK f, p : f = <<n>> /\ p = f \o v
  OBVIOUS
<1>5. Prefixed(v) = p
  BY <1>1, <1>3, <1>4 DEF Prefixed
<1>6. f \in Seq(Nat) /\ Len(f) = 1 /\ f[1] = n
  BY <1>2, <1>4
<1>7. /\ p \in Seq(Nat) /\ Len(p) = Len(f) + Len(v)
      /\ \A i \in 1..Len(f) : p[i] = f[i]
      /\ \A i \in 1..Len(v) : p[Len(f) + i] = v[i]
  BY ONLY <1>4, <1>6, v \in Seq(Nat), ConcatFacts
<1>8. Len(p) = n + 1 /\ p[1] = n
  BY ONLY <1>1, <1>2, <1>6, <1>7
<1>9. ASSUME NEW k \in 1..Len(v) PROVE p[k + 1] = v[k]
  <2>1. Len(f) + k = k + 1
    BY ONLY <1>6, k \in 1..Len(v)
  <2> QED BY ONLY <1>7, <2>1, k \in 1..Len(v)
<1> QED BY ONLY <1>1, <1>4, <1>5, <1>7, <1>8, <1>9

\* A value after its length is cut out.
LEMMA PrefixedHeld ==
  ASSUME NEW data \in Seq(Nat), NEW o \in Nat \ {0}, NEW v \in Seq(Nat), Len(v) < 256,
         Holds(data, o, Prefixed(v))
  PROVE  /\ data[o] = Len(v) /\ o + 1 + Len(v) <= Len(data) + 1 /\ Holds(data, o + 1, v)
         /\ SubSeq(data, o + 1, o + Len(v)) = v
<1>1. Len(data) \in Nat /\ Len(v) \in Nat
  BY LenProperties
<1>2. PICK p, q : p = Prefixed(v) /\ q = <<Len(v)>>
  OBVIOUS
<1>3. /\ p = q \o v /\ p \in Seq(Nat) /\ Len(p) = Len(v) + 1 /\ p[1] = Len(v)
  BY ONLY <1>2, v \in Seq(Nat), Len(v) < 256, LengthFirst
<1>4. q \in Seq(Nat) /\ Len(q) = 1
  BY ONLY <1>1, <1>2
<1>5. data[o] = Len(v) /\ o + 1 + Len(v) <= Len(data) + 1
  <2>1. o + Len(p) <= Len(data) + 1 /\ \A k \in 1..Len(p) : data[o + k - 1] = p[k]
    BY <1>2 DEF Holds
  <2>2. 1 \in 1..Len(p) /\ o + 1 - 1 = o
    BY ONLY <1>1, <1>3, o \in Nat \ {0}
  <2>3. data[o + 1 - 1] = p[1]
    BY ONLY <2>1, <2>2
  <2>4. o + 1 + Len(v) <= Len(data) + 1
    BY ONLY <1>1, <1>3, <2>1, o \in Nat \ {0}
  <2> QED BY ONLY <1>3, <2>2, <2>3, <2>4
<1>6. Holds(data, o + 1, v)
  <2>1. Holds(data, o, q \o v)
    BY <1>2, <1>3
  <2>2. Holds(data, o + Len(q), v)
    BY ONLY <1>4, <2>1, data \in Seq(Nat), v \in Seq(Nat), o \in Nat \ {0}, HoldsSplit
  <2> QED BY ONLY <1>4, <2>2
<1>7. SubSeq(data, o + 1, o + Len(v)) = v
  <2>1. o + 1 \in Nat \ {0}
    BY ONLY o \in Nat \ {0}
  <2>2. SubSeq(data, o + 1, o + 1 + Len(v) - 1) = v
    BY ONLY <1>6, <2>1, data \in Seq(Nat), v \in Seq(Nat), HoldsPart
  <2>3. o + 1 + Len(v) - 1 = o + Len(v)
    BY ONLY <1>1, o \in Nat \ {0}
  <2> QED BY ONLY <2>2, <2>3
<1> QED BY ONLY <1>5, <1>6, <1>7

\* An element as it is written.
InOctets(i, v) == <<i>> \o Prefixed(v)

\* The element at o, and those after it.
LEMMA ElementHeld ==
  ASSUME NEW data \in Seq(Nat), NEW o \in Nat \ {0}, NEW i \in Nat, NEW v \in Seq(Nat),
         Len(v) < 256, Holds(data, o, InOctets(i, v))
  PROVE  /\ Elements(data, o) = <<[iei |-> i, value |-> v]>> \o Elements(data, o + 2 + Len(v))
         /\ o + 2 + Len(v) <= Len(data) + 1
<1>1. Len(data) \in Nat /\ Len(v) \in Nat
  BY LenProperties
<1>2. PICK p, f : p = Prefixed(v) /\ f = <<i>>
  OBVIOUS
<1>3. p \in Seq(Nat) /\ f \in Seq(Nat) /\ Len(f) = 1 /\ f[1] = i
  <2>1. p \in Seq(Nat)
    BY ONLY <1>2, v \in Seq(Nat), Len(v) < 256, LengthFirst
  <2> QED BY <1>2, <2>1
<1>4. Holds(data, o, f) /\ Holds(data, o + 1, p)
  <2>1. Holds(data, o, f \o p)
    BY <1>2 DEF InOctets
  <2>2. Holds(data, o, f) /\ Holds(data, o + Len(f), p)
    BY ONLY <1>3, <2>1, data \in Seq(Nat), o \in Nat \ {0}, HoldsSplit
  <2> QED BY ONLY <1>3, <2>2
<1>5. data[o] = i
  <2>1. 1 \in 1..Len(f) /\ o + 1 - 1 = o
    BY ONLY <1>3, o \in Nat \ {0}
  <2>2. data[o + 1 - 1] = f[1]
    BY ONLY <1>4, <2>1 DEF Holds
  <2> QED BY ONLY <1>3, <2>1, <2>2
<1>6. /\ data[o + 1] = Len(v) /\ o + 2 + Len(v) <= Len(data) + 1
      /\ SubSeq(data, o + 2, o + 1 + Len(v)) = v
  <2>1. PICK r : r = o + 1
    OBVIOUS
  <2>2. r \in Nat \ {0} /\ r + 1 = o + 2
    BY ONLY <2>1, o \in Nat \ {0}
  <2>3. Holds(data, r, Prefixed(v))
    BY ONLY <1>2, <1>4, <2>1
  <2>4. /\ data[r] = Len(v) /\ r + 1 + Len(v) <= Len(data) + 1
        /\ SubSeq(data, r + 1, r + Len(v)) = v
    BY ONLY <2>2, <2>3, data \in Seq(Nat), v \in Seq(Nat), Len(v) < 256, PrefixedHeld
  <2> QED BY ONLY <2>1, <2>2, <2>4
<1>7. ~NoElement(data, o)
  <2>1. ~(o >= Len(data)) /\ ~(o + 1 + Len(v) > Len(data))
    BY ONLY <1>1, <1>6, o \in Nat \ {0}
  <2> QED BY ONLY <1>6, <2>1 DEF NoElement
<1>8. ElementAt(data, o) = [iei |-> i, value |-> v] /\ Behind(data, o) = o + 2 + Len(v)
  BY ONLY <1>5, <1>6 DEF ElementAt, Behind
<1>9. o \in 1..(Len(data) + 1)
  BY ONLY <1>1, <1>6, o \in Nat \ {0}
<1>10. Elements(data, o) = IF NoElement(data, o) THEN <<>>
                           ELSE <<ElementAt(data, o)>> \o Elements(data, Behind(data, o))
  BY ONLY <1>9, data \in Seq(Nat), ElementsRead
<1> QED BY ONLY <1>6, <1>7, <1>8, <1>10

\* The element of an identifier and a value at an offset, and the offset behind it.
ThereIs(data, o, i, v, next) ==
  /\ data \in Seq(Nat) /\ o \in Nat \ {0} /\ i \in Nat /\ v \in Seq(Nat) /\ Len(v) < 256
  /\ Holds(data, o, InOctets(i, v))
  /\ next = o + 2 + Len(v)

\* It is in front of those that come after it.
LEMMA FirstElement ==
  ASSUME NEW data, NEW o, NEW i, NEW v, NEW next, ThereIs(data, o, i, v, next),
         Elements(data, next) \in Seq(Element),
         NEW s, s = Elements(data, next), NEW t, t = Elements(data, o)
  PROVE  /\ t \in Seq(Element) /\ Len(t) = Len(s) + 1 /\ Len(s) \in Nat
         /\ t[1].iei = i /\ t[1].value = v
         /\ \A k \in 1..Len(s) : t[k + 1] = s[k]
         /\ \A k \in 1..Len(t) : k = 1 \/ (k - 1 \in 1..Len(s) /\ t[k] = s[k - 1])
<1>1. /\ data \in Seq(Nat) /\ o \in Nat \ {0} /\ i \in Nat /\ v \in Seq(Nat) /\ Len(v) < 256
      /\ Holds(data, o, InOctets(i, v)) /\ next = o + 2 + Len(v)
  BY ONLY ThereIs(data, o, i, v, next) DEF ThereIs
<1>2. PICK e : e = [iei |-> i, value |-> v]
  OBVIOUS
<1>3. t = <<e>> \o s
  <2>1. Elements(data, o) = <<[iei |-> i, value |-> v]>> \o Elements(data, o + 2 + Len(v))
    BY ONLY <1>1, ElementHeld
  <2> QED BY ONLY <1>1, <1>2, <2>1, s = Elements(data, next), t = Elements(data, o)
<1>4. e \in Element /\ e.iei = i /\ e.value = v
  BY ONLY <1>1, <1>2 DEF Element
<1>5. s \in Seq(Element)
  OBVIOUS
<1>6. /\ t \in Seq(Element) /\ Len(t) = Len(s) + 1 /\ t[1] = e /\ Len(s) \in Nat
      /\ \A k \in 1..Len(s) : t[k + 1] = s[k]
      /\ \A k \in 1..Len(t) : k = 1 \/ (k - 1 \in 1..Len(s) /\ t[k] = s[k - 1])
  BY ONLY <1>3, <1>4, <1>5, InFront, LenProperties
<1> QED BY ONLY <1>4, <1>6

\* Without one of an identifier after it, an element of another one gives none.
LEMMA PassedLacking ==
  ASSUME NEW data, NEW o, NEW i, NEW v, NEW next, NEW iei,
         ThereIs(data, o, i, v, next), i # iei, Lacks(data, next, iei)
  PROVE  Lacks(data, o, iei)
<1>1. PICK s, t : s = Elements(data, next) /\ t = Elements(data, o)
  OBVIOUS
<1>2. s \in Seq(Element) /\ \A k \in 1..Len(s) : s[k].iei # iei
  BY ONLY <1>1, Lacks(data, next, iei) DEF Lacks
<1>3. /\ t \in Seq(Element) /\ t[1].iei = i
      /\ \A k \in 1..Len(t) : k = 1 \/ (k - 1 \in 1..Len(s) /\ t[k] = s[k - 1])
  BY ONLY <1>1, <1>2, ThereIs(data, o, i, v, next), FirstElement
<1>4. \A k \in 1..Len(t) : t[k].iei # iei
  BY ONLY <1>2, <1>3, i # iei
<1> QED BY ONLY <1>1, <1>3, <1>4 DEF Lacks

\* An element of another identifier is passed over.
LEMMA PassedGiving ==
  ASSUME NEW data, NEW o, NEW i, NEW v, NEW next, NEW iei, NEW w,
         ThereIs(data, o, i, v, next), i # iei, Gives(data, next, iei, w)
  PROVE  Gives(data, o, iei, w)
<1>1. PICK s, t : s = Elements(data, next) /\ t = Elements(data, o)
  OBVIOUS
<1>2. s \in Seq(Element) /\ \E k \in 1..Len(s) : At(s, iei, w, k)
  BY ONLY <1>1, Gives(data, next, iei, w) DEF Gives
<1>3. /\ t \in Seq(Element) /\ Len(t) = Len(s) + 1 /\ Len(s) \in Nat /\ t[1].iei = i
      /\ \A k \in 1..Len(s) : t[k + 1] = s[k]
      /\ \A k \in 1..Len(t) : k = 1 \/ (k - 1 \in 1..Len(s) /\ t[k] = s[k - 1])
  BY ONLY <1>1, <1>2, ThereIs(data, o, i, v, next), FirstElement
<1>4. PICK k \in 1..Len(s) : At(s, iei, w, k)
  BY ONLY <1>2
<1>5. s[k].iei = iei /\ s[k].value = w /\ \A j \in 1..Len(s) : s[j].iei = iei => j = k
  BY ONLY <1>4 DEF At
<1>6. k + 1 \in 1..Len(t) /\ t[k + 1] = s[k]
  BY ONLY <1>3, k \in 1..Len(s)
<1>7. ASSUME NEW j \in 1..Len(t), t[j].iei = iei PROVE j = k + 1
  <2>1. j # 1
    BY ONLY <1>3, <1>7, i # iei
  <2>2. j - 1 \in 1..Len(s) /\ t[j] = s[j - 1]
    BY ONLY <1>3, <2>1, j \in 1..Len(t)
  <2>3. j - 1 = k
    BY ONLY <1>5, <1>7, <2>2
  <2> QED BY ONLY <2>3, j \in 1..Len(t)
<1>8. At(t, iei, w, k + 1)
  BY ONLY <1>5, <1>6, <1>7 DEF At
<1> QED BY ONLY <1>1, <1>3, <1>6, <1>8 DEF Gives

\* The only element of an identifier is given.
LEMMA Found ==
  ASSUME NEW data, NEW o, NEW iei, NEW v, NEW next,
         ThereIs(data, o, iei, v, next), Lacks(data, next, iei)
  PROVE  Gives(data, o, iei, v)
<1>1. PICK s, t : s = Elements(data, next) /\ t = Elements(data, o)
  OBVIOUS
<1>2. s \in Seq(Element) /\ \A k \in 1..Len(s) : s[k].iei # iei
  BY ONLY <1>1, Lacks(data, next, iei) DEF Lacks
<1>3. /\ t \in Seq(Element) /\ Len(t) = Len(s) + 1 /\ Len(s) \in Nat
      /\ t[1].iei = iei /\ t[1].value = v
      /\ \A k \in 1..Len(t) : k = 1 \/ (k - 1 \in 1..Len(s) /\ t[k] = s[k - 1])
  BY ONLY <1>1, <1>2, ThereIs(data, o, iei, v, next), FirstElement
<1>4. 1 \in 1..Len(t)
  BY ONLY <1>3
<1>5. ASSUME NEW j \in 1..Len(t), t[j].iei = iei PROVE j = 1
  BY ONLY <1>2, <1>3, <1>5
<1>6. At(t, iei, v, 1)
  BY ONLY <1>3, <1>4, <1>5 DEF At
<1> QED BY ONLY <1>1, <1>3, <1>4, <1>6 DEF Gives

\* Of a single number, the greatest.
LEMMA MaxOfOne ==
  ASSUME NEW k \in Nat
  PROVE  Max({k}) = k
BY DEF Max

\* What the readers take of them.
LEMMA ValueGiven ==
  ASSUME NEW data, NEW o, NEW iei, NEW v \in Seq(Nat), Gives(data, o, iei, v),
         NEW least \in Nat, least <= Len(v)
  PROVE  Value(Elements(data, o), iei, least) = v
<1>1. PICK s : s = Elements(data, o)
  OBVIOUS
<1>2. PICK k \in 1..Len(s) : At(s, iei, v, k)
  BY <1>1 DEF Gives
<1>3. s \in Seq(Element)
  BY <1>1 DEF Gives
<1>4. DOMAIN s = 1..Len(s) /\ Len(s) \in Nat
  BY ONLY <1>3, LenProperties
<1>5. s[k].iei = iei /\ s[k].value = v /\ \A j \in 1..Len(s) : s[j].iei = iei => j = k
  BY ONLY <1>2 DEF At
<1>6. PICK found : found = {j \in DOMAIN s : s[j].iei = iei /\ Len(s[j].value) >= least}
  OBVIOUS
<1>7. Len(v) >= least
  BY LenProperties
<1>8. found = {k}
  BY ONLY <1>4, <1>5, <1>6, <1>7, k \in 1..Len(s)
<1>9. Max(found) = k
  BY <1>4, <1>8, MaxOfOne
<1>10. Value(s, iei, least) = IF found = {} THEN Absent ELSE s[Max(found)].value
  BY <1>6 DEF Value
<1> QED BY ONLY <1>1, <1>5, <1>8, <1>9, <1>10

\* Without an element of the identifier they take none.
LEMMA ValueLacking ==
  ASSUME NEW data, NEW o, NEW iei, Lacks(data, o, iei), NEW least
  PROVE  Value(Elements(data, o), iei, least) = Absent
<1>1. PICK s : s = Elements(data, o)
  OBVIOUS
<1>2. s \in Seq(Element) /\ \A k \in 1..Len(s) : s[k].iei # iei
  BY ONLY <1>1, Lacks(data, o, iei) DEF Lacks
<1>3. DOMAIN s = 1..Len(s)
  BY ONLY <1>2, LenProperties
<1>4. PICK found : found = {j \in DOMAIN s : s[j].iei = iei /\ Len(s[j].value) >= least}
  OBVIOUS
<1>5. found = {}
  BY ONLY <1>2, <1>3, <1>4
<1>6. Value(s, iei, least) = IF found = {} THEN Absent ELSE s[Max(found)].value
  BY <1>4 DEF Value
<1> QED BY ONLY <1>1, <1>5, <1>6

----------------------------------------------------------------------------
(* Slices.                                                                 *)

\* Where the pieces of a sequence are, one behind the other.
Placed(place, pieces, data) ==
  /\ place[1] = 1 /\ place[Len(pieces) + 1] = Len(data) + 1
  /\ \A i \in 1..Len(pieces) :
       /\ place[i] \in Nat \ {0} /\ place[i + 1] = place[i] + Len(pieces[i])
       /\ Holds(data, place[i], pieces[i])

\* Pieces that are written one behind the other are each at their place.
LEMMA Pieces ==
  ASSUME NEW pieces, Len(pieces) \in Nat \ {0},
         \A i \in 1..Len(pieces) : pieces[i] \in Seq(Nat)
  PROVE  FlattenSeq(pieces) \in Seq(Nat) /\ \E place : Placed(place, pieces, FlattenSeq(pieces))
<1>1. PICK n, data : n = Len(pieces) /\ data = FlattenSeq(pieces)
  OBVIOUS
<1>2. n \in Nat \ {0} /\ n \in Nat /\ n >= 1
  BY <1>1
<1>3. PICK u : Joins(u, pieces)
  BY Join
<1>4. /\ data = u[n]
      /\ \A i \in 1..n : u[i] = IF i = 1 THEN pieces[i] ELSE u[i - 1] \o pieces[i]
  BY <1>1, <1>3 DEF Joins
<1> DEFINE S == {k \in Nat : k + 1 <= n => u[k + 1] \in Seq(Nat)}
<1>5. 0 \in S
  BY <1>1, <1>2, <1>4
<1>6. ASSUME NEW k \in Nat, k \in S PROVE k + 1 \in S
  <2>1. SUFFICES ASSUME k + 1 + 1 <= n PROVE u[k + 1 + 1] \in Seq(Nat)
    OBVIOUS
  <2>2. PICK j : j = k + 1 + 1
    OBVIOUS
  <2>3. j \in 1..n /\ j # 1 /\ j - 1 = k + 1 /\ k + 1 <= n
    BY ONLY <1>2, <2>1, <2>2, k \in Nat
  <2>4. u[j] = u[j - 1] \o pieces[j]
    BY ONLY <1>4, <2>3
  <2>5. u[j - 1] \in Seq(Nat)
    BY <1>6, <2>3
  <2>6. pieces[j] \in Seq(Nat)
    BY <1>1, <2>3
  <2>7. u[j] \in Seq(Nat)
    BY ONLY <2>4, <2>5, <2>6, Joined
  <2> QED BY ONLY <2>2, <2>7
<1>7. \A k \in Nat : k \in S
  <2> HIDE DEF S
  <2> QED BY <1>5, <1>6, Steps
<1>8. \A i \in 1..n : u[i] \in Seq(Nat)
  <2>1. SUFFICES ASSUME NEW i \in 1..n PROVE u[i] \in Seq(Nat)
    OBVIOUS
  <2>2. i - 1 \in Nat /\ i - 1 + 1 = i /\ i <= n
    BY <1>2
  <2> QED BY <1>7, <2>2
<1> DEFINE H == {k \in Nat : k < n => Holds(data, 1, u[n - k])}
<1>9. 0 \in H
  <2>1. data \in Seq(Nat)
    BY <1>2, <1>4, <1>8
  <2>2. Holds(data, 1, data)
    BY ONLY <2>1, HoldsAll
  <2>3. n - 0 = n
    BY <1>2
  <2> QED BY <1>4, <2>2, <2>3
<1>10. data \in Seq(Nat)
  BY <1>2, <1>4, <1>8
<1>11. ASSUME NEW i \in 1..n, i # 1, Holds(data, 1, u[i])
       PROVE  Holds(data, 1, u[i - 1]) /\ Holds(data, 1 + Len(u[i - 1]), pieces[i])
  <2>1. i - 1 \in 1..n
    BY <1>2, <1>11
  <2>2. u[i - 1] \in Seq(Nat)
    BY ONLY <1>8, <2>1
  <2>3. pieces[i] \in Seq(Nat)
    BY <1>1
  <2>4. u[i] = u[i - 1] \o pieces[i]
    BY ONLY <1>4, <1>11, i \in 1..n
  <2>5. Holds(data, 1, u[i - 1] \o pieces[i])
    BY ONLY <1>11, <2>4
  <2>6. 1 \in Nat \ {0}
    OBVIOUS
  <2> QED BY ONLY <1>10, <2>2, <2>3, <2>5, <2>6, HoldsSplit
<1>12. ASSUME NEW k \in Nat, k \in H PROVE k + 1 \in H
  <2>1. SUFFICES ASSUME k + 1 < n PROVE Holds(data, 1, u[n - (k + 1)])
    OBVIOUS
  <2>2. n - k \in 1..n /\ n - k # 1 /\ n - k - 1 = n - (k + 1) /\ k < n
    BY <1>2, <2>1
  <2>3. Holds(data, 1, u[n - k])
    BY <1>12, <2>2
  <2>4. Holds(data, 1, u[n - k - 1])
    BY <1>11, <2>2, <2>3
  <2> QED BY <2>2, <2>4
<1>13. \A k \in Nat : k \in H
  <2> HIDE DEF H
  <2> QED BY <1>9, <1>12, Steps
<1>14. \A i \in 1..n : Holds(data, 1, u[i])
  <2>1. SUFFICES ASSUME NEW i \in 1..n PROVE Holds(data, 1, u[i])
    OBVIOUS
  <2>2. n - i \in Nat /\ n - i < n /\ n - (n - i) = i
    BY <1>2
  <2>3. n - i \in H
    BY <1>13, <2>2
  <2>4. Holds(data, 1, u[n - (n - i)])
    BY <2>2, <2>3
  <2> QED BY <2>2, <2>4
<1> HIDE DEF S, H
<1>15. PICK place : place = [i \in 1..(n + 1) |-> IF i = 1 THEN 1 ELSE Len(u[i - 1]) + 1]
  OBVIOUS
<1>16. /\ place[1] = 1
       /\ \A i \in 1..n : place[i + 1] = Len(u[i]) + 1
       /\ \A i \in 1..n : i # 1 => place[i] = Len(u[i - 1]) + 1
  <2>1. place[1] = 1
    BY <1>2, <1>15
  <2>2. ASSUME NEW i \in 1..n PROVE place[i + 1] = Len(u[i]) + 1
    <3>1. i + 1 \in 1..(n + 1) /\ i + 1 # 1 /\ i + 1 - 1 = i
      BY <1>2
    <3> QED BY ONLY <1>15, <3>1
  <2>3. ASSUME NEW i \in 1..n, i # 1 PROVE place[i] = Len(u[i - 1]) + 1
    <3>1. i \in 1..(n + 1)
      BY <1>2
    <3> QED BY ONLY <1>15, <2>3, <3>1
  <2> QED BY ONLY <2>1, <2>2, <2>3
<1>17. \A i \in 1..n : Len(u[i]) \in Nat
  BY <1>8, LenProperties
<1>18. place[n + 1] = Len(data) + 1
  BY <1>2, <1>4, <1>16
<1>19. ASSUME NEW i \in 1..n
       PROVE  /\ place[i] \in Nat \ {0} /\ place[i + 1] = place[i] + Len(pieces[i])
              /\ Holds(data, place[i], pieces[i])
  <2>1. Len(pieces[i]) \in Nat
    BY <1>1, LenProperties
  <2>2. CASE i = 1
    <3>1. u[i] = pieces[i]
      BY <1>4, <2>2
    <3>2. Holds(data, 1, u[i])
      BY <1>14
    <3>3. place[i + 1] = Len(u[i]) + 1
      BY <1>16
    <3>4. place[i] = 1 /\ place[i + 1] = place[i] + Len(pieces[i])
      BY ONLY <1>16, <2>1, <2>2, <3>1, <3>3
    <3> QED BY ONLY <3>1, <3>2, <3>4
  <2>3. CASE i # 1
    <3>1. PICK x, y : x = u[i - 1] /\ y = pieces[i]
      OBVIOUS
    <3>2. x \in Seq(Nat) /\ y \in Seq(Nat)
      <4>1. i - 1 \in 1..n
        BY <1>2, <2>3
      <4> QED BY <1>1, <1>8, <3>1, <4>1
    <3>3. u[i] = x \o y
      BY <1>4, <2>3, <3>1
    <3>4. Len(u[i]) = Len(x) + Len(y) /\ Len(x) \in Nat /\ Len(y) \in Nat
      BY ONLY <3>2, <3>3, Joined, LenProperties
    <3>5. place[i] = Len(x) + 1 /\ place[i + 1] = Len(u[i]) + 1
      BY <1>16, <2>3, <3>1
    <3>6. place[i] \in Nat \ {0} /\ place[i + 1] = place[i] + Len(y) /\ place[i] = 1 + Len(x)
      BY ONLY <3>4, <3>5
    <3>7. Holds(data, 1 + Len(x), y)
      BY <1>11, <1>14, <2>3, <3>1
    <3> QED BY ONLY <3>1, <3>6, <3>7
  <2> QED BY <2>2, <2>3
<1>20. Placed(place, pieces, data)
  BY ONLY <1>1, <1>16, <1>18, <1>19 DEF Placed
<1> QED BY ONLY <1>1, <1>10, <1>20

\* A slice without its length, and back.
Entry(slice) == IF slice.sd = NotSet THEN <<slice.sst>> ELSE <<slice.sst>> \o BigEndian(slice.sd, 3)

SliceOf(entry) == [sst |-> IF entry = <<>> THEN 0 ELSE entry[1],
                   sd |-> IF Len(entry) < 4 THEN NotSet ELSE Number(SubSeq(entry, 2, 4))]

\* Three octets of a number.
LEMMA ThreeBytesSeq ==
  ASSUME NEW n \in Nat
  PROVE  BigEndian(n, 3) \in Seq(Nat) /\ Len(BigEndian(n, 3)) = 3
<1>1. /\ (n \div (256 * 256)) % 256 \in Nat /\ (n \div 256) % 256 \in Nat /\ n % 256 \in Nat
  BY SMT
<1>2. 256 ^ (3 - 1) = 256 * 256 /\ 256 ^ (3 - 2) = 256 /\ 256 ^ (3 - 3) = 1 /\ n \div 1 = n
  BY SMT
<1>3. PICK s : s = BigEndian(n, 3)
  OBVIOUS
<1>4. s[1] = (n \div (256 * 256)) % 256 /\ s[2] = (n \div 256) % 256 /\ s[3] = n % 256
  BY SMT, <1>2, <1>3 DEF BigEndian
<1>5. s \in [1..3 -> Nat]
  BY <1>1, <1>3, <1>4 DEF BigEndian
<1> QED BY <1>3, <1>5, FunctionSeq

\* An SD has 24 bits.
LEMMA SDs == NotSet = 256 * 256 * 256 - 1 /\ NotSet \in Nat
BY SMT DEF NotSet

\* The octets of a slice, and the slice that is read of them.
LEMMA EntryFacts ==
  ASSUME NEW slice \in [sst : 0..255, sd : 1..NotSet]
  PROVE  /\ Entry(slice) \in Seq(Nat) /\ Len(Entry(slice)) \in {1, 4}
         /\ SliceOf(Entry(slice)) = slice
         /\ Prefixed(Entry(slice)) =
              IF slice.sd \in {0, NotSet} THEN <<1, slice.sst>>
              ELSE <<4, slice.sst>> \o BigEndian(slice.sd, 3)
<1>1. PICK sst, sd : sst = slice.sst /\ sd = slice.sd
  OBVIOUS
<1>2. sst \in 0..255 /\ sd \in 1..NotSet /\ slice = [sst |-> sst, sd |-> sd]
  BY <1>1
<1>3. sst \in Nat /\ sd # 0
  <2>1. NotSet \in Nat
    BY SDs
  <2> QED BY ONLY <1>2, <2>1
<1>4. PICK f : f = <<sst>>
  OBVIOUS
<1>5. f \in Seq(Nat) /\ Len(f) = 1 /\ f[1] = sst /\ f # <<>>
  BY <1>3, <1>4
<1>6. CASE sd = NotSet
  <2>1. Entry(slice) = f
    BY <1>1, <1>4, <1>6 DEF Entry
  <2>2. SliceOf(f) = slice
    <3>1. Len(f) < 4
      BY ONLY <1>5
    <3>2. SliceOf(f) = [sst |-> sst, sd |-> NotSet]
      BY ONLY <1>5, <3>1 DEF SliceOf
    <3> QED BY ONLY <1>2, <1>6, <3>2
  <2>3. Prefixed(f) = <<1, sst>>
    <3>1. Prefixed(f) = <<1>> \o <<sst>>
      <4>1. 1 % 256 = 1
        BY SMT
      <4> QED BY ONLY <1>4, <1>5, <4>1 DEF Prefixed
    <3>2. <<1>> \o <<sst>> = <<1, sst>>
      BY ONLY OneAndOne
    <3> QED BY ONLY <3>1, <3>2
  <2>4. slice.sd \in {0, NotSet}
    BY <1>1, <1>6
  <2> QED BY ONLY <1>1, <1>5, <2>1, <2>2, <2>3, <2>4
<1>7. CASE sd # NotSet
  <2>1. PICK b, e : b = BigEndian(sd, 3) /\ e = f \o b
    OBVIOUS
  <2>2. Entry(slice) = e
    BY <1>1, <1>4, <1>7, <2>1 DEF Entry
  <2>3. sd \in 0..(2 ^ 24 - 1) /\ sd \in Nat
    <3>1. 2 ^ 24 = 256 * 256 * 256
      BY SMT
    <3>2. NotSet \in Nat
      BY SDs
    <3>3. sd \in Nat /\ sd <= NotSet
      BY ONLY <1>2, <3>2
    <3>4. sd <= 256 * 256 * 256 - 1
      BY ONLY <3>3, SDs
    <3> QED BY ONLY <3>1, <3>3, <3>4
  <2>4. b \in Seq(Nat) /\ Len(b) = 3
    BY ONLY <2>1, <2>3, ThreeBytesSeq
  <2>5. /\ e \in Seq(Nat) /\ Len(e) = Len(f) + Len(b)
        /\ \A i \in 1..Len(f) : e[i] = f[i]
    <3>1. f \in Seq(Nat) /\ b \in Seq(Nat) /\ e = f \o b
      BY ONLY <1>5, <2>1, <2>4
    <3> QED BY ONLY <3>1, ConcatFacts
  <2>6. Len(e) = 4 /\ e[1] = sst
    BY ONLY <1>5, <2>4, <2>5
  <2>7. SubSeq(e, 2, 4) = b
    <3>1. Holds(e, 1, f \o b)
      BY ONLY <2>1, <2>5, HoldsAll
    <3>2. Holds(e, 1 + Len(f), b)
      <4>1. 1 \in Nat \ {0}
        OBVIOUS
      <4> QED BY ONLY <1>5, <2>4, <2>5, <3>1, <4>1, HoldsSplit
    <3>3. 1 + Len(f) = 2 /\ 2 \in Nat \ {0} /\ 2 + Len(b) - 1 = 4
      BY ONLY <1>5, <2>4
    <3>4. SubSeq(e, 2, 2 + Len(b) - 1) = b
      BY ONLY <2>4, <2>5, <3>2, <3>3, HoldsPart
    <3> QED BY ONLY <3>3, <3>4
  <2>8. SliceOf(e) = slice
    <3>1. ~(Len(e) < 4) /\ e # <<>>
      <4>1. Len(<<>>) = 0
        OBVIOUS
      <4> QED BY ONLY <2>6, <4>1
    <3>2. Number(b) = sd
      BY <2>1, <2>3, ReadThree
    <3>3. SliceOf(e) = [sst |-> sst, sd |-> sd]
      BY ONLY <2>6, <2>7, <3>1, <3>2 DEF SliceOf
    <3> QED BY ONLY <1>2, <3>3
  <2>9. Prefixed(e) = <<4, sst>> \o b
    <3>1. PICK q, p, h, r : q = <<4>> /\ p = q \o e /\ h = <<4, sst>> /\ r = h \o b
      OBVIOUS
    <3>2. q \in Seq(Nat) /\ Len(q) = 1 /\ q[1] = 4
      BY ONLY <3>1
    <3>3. h \in Seq(Nat) /\ Len(h) = 2 /\ h[1] = 4 /\ h[2] = sst
      BY ONLY <1>3, <3>1
    <3>4. Prefixed(e) = p
      <4>1. 4 % 256 = 4
        BY SMT
      <4> QED BY ONLY <2>6, <3>1, <4>1 DEF Prefixed
    <3>5. h = q \o f
      <4>1. <<4>> \o <<sst>> = <<4, sst>>
        BY ONLY OneAndOne
      <4> QED BY ONLY <1>4, <3>1, <4>1
    <3>6. (q \o f) \o b = q \o (f \o b)
      <4>1. \A u \in Seq(Nat), v \in Seq(Nat), w \in Seq(Nat) : (u \o v) \o w = u \o (v \o w)
        BY ConcatAssociative
      <4> QED BY ONLY <1>5, <2>4, <3>2, <4>1
    <3> QED BY ONLY <2>1, <3>1, <3>4, <3>5, <3>6
  <2>10. ~(slice.sd \in {0, NotSet})
    BY <1>1, <1>3, <1>7
  <2> QED BY ONLY <1>1, <2>1, <2>2, <2>5, <2>6, <2>8, <2>9, <2>10
<1> QED BY <1>6, <1>7

\* Slices are read from octets that start with the length of the first.
NoSlice(data, o) == o > Len(data) \/ o + data[o] > Len(data)

\* DecodeNSSAI reads one slice after the other.
LEMMA SlicesRead ==
  ASSUME NEW data \in Seq(Nat)
  PROVE  \E u : /\ DecodeNSSAI(data) = u[1]
                /\ \A o \in 1..(Len(data) + 1) :
                     u[o] = IF NoSlice(data, o) THEN <<>>
                            ELSE <<SliceOf(SubSeq(data, o + 1, o + data[o]))>>
                                   \o u[o + 1 + data[o]]
<1> DEFINE F(f) ==
      [o \in 1..(Len(data) + 1) |->
         IF o > Len(data) \/ o + data[o] > Len(data) THEN <<>>
         ELSE <<[sst |-> IF SubSeq(data, o + 1, o + data[o]) = <<>> THEN 0
                         ELSE SubSeq(data, o + 1, o + data[o])[1],
                 sd |-> IF Len(SubSeq(data, o + 1, o + data[o])) < 4 THEN NotSet
                        ELSE Number(SubSeq(SubSeq(data, o + 1, o + data[o]), 2, 4))]>>
                \o f[o + 1 + data[o]]]
<1>1. PICK n : n = Len(data) + 1
  OBVIOUS
<1>2. n \in Nat /\ Len(data) \in Nat /\ \A i \in 1..Len(data) : data[i] \in Nat
  BY <1>1, LenProperties, ElementOfSeq
<1>3. ASSUME NEW o \in 1..n, ~NoSlice(data, o) PROVE o + 1 + data[o] \in (o + 1)..n
  <2>1. o \in 1..Len(data) /\ ~(o + data[o] > Len(data))
    BY <1>1, <1>2, <1>3 DEF NoSlice
  <2>2. data[o] \in Nat
    BY <1>2, <2>1
  <2> QED BY ONLY <1>1, <1>2, <2>1, <2>2
<1>4. \E f : f = F(f)
  <2>1. PICK Z, piece, next :
          /\ Z = {o \in 1..n : NoSlice(data, o)}
          /\ piece = [o \in 1..n |-> <<SliceOf(SubSeq(data, o + 1, o + data[o]))>>]
          /\ next = [o \in 1..n |-> o + 1 + data[o]]
    OBVIOUS
  <2>2. Onward(n, Z, next)
    BY ONLY <1>3, <2>1 DEF Onward
  <2>3. PICK f : Walks(f, n, Z, piece, next)
    BY <1>2, <2>2, Walk
  <2>4. PICK u : u = [o \in 1..n |-> f[o]]
    OBVIOUS
  <2>5. \A o \in 1..n : u[o] = f[o] /\ (o \notin Z => next[o] \in 1..n)
    BY <1>2, <2>2, <2>4 DEF Onward
  <2>6. \A o \in 1..n : u[o] = IF o \in Z THEN <<>> ELSE piece[o] \o u[next[o]]
    BY ONLY <2>3, <2>5 DEF Walks
  <2>7. \A o \in 1..n : u[o] = IF NoSlice(data, o) THEN <<>>
                               ELSE <<SliceOf(SubSeq(data, o + 1, o + data[o]))>>
                                      \o u[o + 1 + data[o]]
    BY ONLY <2>1, <2>6
  <2>8. \A o \in 1..n : u[o] = F(u)[o]
    BY ONLY <1>1, <2>7 DEF NoSlice, SliceOf
  <2>9. u = F(u)
    BY ONLY <1>1, <2>4, <2>8
  <2> QED BY <2>9
<1>5. PICK u : u = CHOOSE f : f = F(f)
  OBVIOUS
<1>6. u = F(u)
  BY <1>4, <1>5
<1>7. \A o \in 1..n : u[o] = IF NoSlice(data, o) THEN <<>>
                             ELSE <<SliceOf(SubSeq(data, o + 1, o + data[o]))>>
                                    \o u[o + 1 + data[o]]
  <2>1. \A o \in 1..n : u[o] = F(u)[o]
    BY <1>6
  <2> QED BY ONLY <1>1, <2>1 DEF NoSlice, SliceOf
<1>8. DecodeNSSAI(data) = u[1]
  BY <1>5, NotAbsent DEF DecodeNSSAI
<1> HIDE DEF F
<1> QED BY ONLY <1>1, <1>7, <1>8

\* DecodeNSSAI gives the slices EncodeNSSAI wrote one behind the other, however many,
\* with and without an SD other than 0.
THEOREM ReadNSSAI ==
  ASSUME NEW slices \in Seq([sst : 0..255, sd : 1..NotSet]), slices # <<>>
  PROVE  EncodeNSSAI(slices) \in Seq(Nat) /\ DecodeNSSAI(EncodeNSSAI(slices)) = slices
<1>1. PICK n, S : n = Len(slices) /\ S = [sst : 0..255, sd : 1..NotSet]
  OBVIOUS
<1>2. slices \in Seq(S) /\ n \in Nat \ {0} /\ n \in Nat
  BY <1>1, EmptySeq
<1>3. \A i \in 1..n : slices[i] \in S
  BY ONLY <1>1, <1>2, ElementOfSeq
<1>4. PICK entry : entry = [i \in 1..n |-> Entry(slices[i])]
  OBVIOUS
<1>5. ASSUME NEW i \in 1..n
      PROVE  /\ entry[i] \in Seq(Nat) /\ Len(entry[i]) \in {1, 4}
             /\ SliceOf(entry[i]) = slices[i]
             /\ Prefixed(entry[i]) =
                  IF slices[i].sd \in {0, NotSet} THEN <<1, slices[i].sst>>
                  ELSE <<4, slices[i].sst>> \o BigEndian(slices[i].sd, 3)
  <2>1. slices[i] \in [sst : 0..255, sd : 1..NotSet]
    BY <1>1, <1>3
  <2>2. entry[i] = Entry(slices[i])
    BY ONLY <1>4, i \in 1..n
  <2> QED BY ONLY <2>1, <2>2, EntryFacts
<1>6. PICK pieces : pieces = [i \in 1..n |-> Prefixed(entry[i])]
  OBVIOUS
<1>7. \A i \in 1..n : pieces[i] = Prefixed(entry[i])
  BY ONLY <1>6
<1>8. EncodeNSSAI(slices) = FlattenSeq(pieces)
  <2>1. pieces = [i \in 1..Len(slices) |->
                    IF slices[i].sd \in {0, NotSet} THEN <<1, slices[i].sst>>
                    ELSE <<4, slices[i].sst>> \o BigEndian(slices[i].sd, 3)]
    BY ONLY <1>1, <1>5, <1>6
  <2> QED BY ONLY <2>1 DEF EncodeNSSAI
<1>9. ASSUME NEW i \in 1..n
      PROVE  /\ Len(entry[i]) \in Nat /\ Len(entry[i]) < 256
             /\ pieces[i] \in Seq(Nat) /\ Len(pieces[i]) = Len(entry[i]) + 1
  <2>1. entry[i] \in Seq(Nat) /\ Len(entry[i]) \in Nat /\ Len(entry[i]) < 256
    <3>1. Len(entry[i]) \in {1, 4} /\ entry[i] \in Seq(Nat)
      BY ONLY <1>5, i \in 1..n
    <3>2. \A l \in {1, 4} : l \in Nat /\ l < 256
      OBVIOUS
    <3> QED BY ONLY <3>1, <3>2, Zenon
  <2>2. PICK e : e = entry[i]
    OBVIOUS
  <2>3. Prefixed(e) \in Seq(Nat) /\ Len(Prefixed(e)) = Len(e) + 1
    BY ONLY <2>1, <2>2, LengthFirst
  <2> QED BY ONLY <1>7, <2>1, <2>2, <2>3, i \in 1..n
<1>10. Len(pieces) = n
  <2>1. pieces \in [1..n -> Seq(Nat)]
    BY ONLY <1>6, <1>7, <1>9
  <2> QED BY ONLY <1>2, <2>1, FunctionSeq
<1>11. PICK data : data = FlattenSeq(pieces)
  OBVIOUS
<1>12. /\ data \in Seq(Nat)
       /\ \E place : Placed(place, pieces, data)
  BY <1>2, <1>9, <1>10, <1>11, Pieces
<1>13. PICK place : Placed(place, pieces, data)
  BY <1>12
<1>14. place[1] = 1 /\ place[n + 1] = Len(data) + 1 /\ Len(data) \in Nat
  BY <1>10, <1>12, <1>13, LenProperties DEF Placed
<1>15. ASSUME NEW i \in 1..n
       PROVE  /\ place[i] \in 1..(Len(data) + 1) /\ ~NoSlice(data, place[i])
              /\ SliceOf(SubSeq(data, place[i] + 1, place[i] + data[place[i]])) = slices[i]
              /\ place[i] + 1 + data[place[i]] = place[i + 1]
  <2>1. PICK o, e : o = place[i] /\ e = entry[i]
    OBVIOUS
  <2>2. e \in Seq(Nat) /\ Len(e) \in Nat /\ Len(e) < 256 /\ SliceOf(e) = slices[i]
    BY <1>5, <1>9, <2>1
  <2>3. o \in Nat \ {0} /\ Holds(data, o, Prefixed(e)) /\ place[i + 1] = o + Len(pieces[i])
    BY <1>7, <1>10, <1>13, <2>1 DEF Placed
  <2>4. /\ data[o] = Len(e) /\ o + 1 + Len(e) <= Len(data) + 1
        /\ SubSeq(data, o + 1, o + Len(e)) = e
    BY ONLY <1>12, <2>2, <2>3, PrefixedHeld
  <2>5. Len(pieces[i]) = Len(e) + 1
    BY <1>9, <2>1
  <2>6. place[i + 1] = o + 1 + Len(e)
    BY ONLY <2>2, <2>3, <2>5
  <2>7. o \in 1..(Len(data) + 1) /\ ~(o > Len(data)) /\ ~(o + Len(e) > Len(data))
    BY ONLY <1>14, <2>2, <2>3, <2>4
  <2>8. ~NoSlice(data, o)
    BY ONLY <2>4, <2>7 DEF NoSlice
  <2> QED BY ONLY <2>1, <2>2, <2>4, <2>6, <2>7, <2>8
<1>16. PICK u : /\ DecodeNSSAI(data) = u[1]
                /\ \A o \in 1..(Len(data) + 1) :
                     u[o] = IF NoSlice(data, o) THEN <<>>
                            ELSE <<SliceOf(SubSeq(data, o + 1, o + data[o]))>>
                                   \o u[o + 1 + data[o]]
  BY ONLY <1>12, SlicesRead
<1>17. ASSUME NEW i \in 1..n PROVE u[place[i]] = <<slices[i]>> \o u[place[i + 1]]
  BY ONLY <1>15, <1>16, i \in 1..n
<1>18. u[place[n + 1]] = <<>>
  <2>1. Len(data) + 1 \in 1..(Len(data) + 1) /\ Len(data) + 1 > Len(data)
    BY ONLY <1>14
  <2>2. NoSlice(data, Len(data) + 1)
    BY ONLY <2>1 DEF NoSlice
  <2> QED BY ONLY <1>14, <1>16, <2>1, <2>2
<1> DEFINE T == {k \in Nat : k <= n => u[place[n + 1 - k]] = SubSeq(slices, n + 1 - k, n)}
<1>19. 0 \in T
  <2>1. SubSeq(slices, n + 1, n) = <<>>
    <3>1. n + 1 \in Int /\ n \in Int /\ n < n + 1
      BY ONLY <1>2
    <3> QED BY ONLY <3>1, SubSeqEmpty
  <2>2. n + 1 - 0 = n + 1
    BY ONLY <1>2
  <2> QED BY <1>18, <2>1, <2>2
<1>20. ASSUME NEW k \in Nat, k \in T PROVE k + 1 \in T
  <2>1. SUFFICES ASSUME k + 1 <= n
                 PROVE  u[place[n + 1 - (k + 1)]] = SubSeq(slices, n + 1 - (k + 1), n)
    OBVIOUS
  <2>2. PICK i : i = n - k
    OBVIOUS
  <2>3. i \in 1..n /\ i + 1 = n + 1 - k /\ i = n + 1 - (k + 1) /\ k <= n
    BY ONLY <1>2, <2>1, <2>2, k \in Nat
  <2>4. u[place[i + 1]] = SubSeq(slices, i + 1, n)
    BY <1>20, <2>3
  <2>5. SubSeq(slices, i, i) = <<slices[i]>>
    <3>1. i \in 1..Len(slices)
      BY ONLY <1>1, <2>3
    <3> QED BY ONLY <1>2, <3>1, CellsOf
  <2>6. SubSeq(slices, i, i) \o SubSeq(slices, i + 1, n) = SubSeq(slices, i, n)
    <3>1. i \in 1..(Len(slices) + 1) /\ i \in (i - 1)..Len(slices) /\ n \in i..Len(slices)
      BY ONLY <1>1, <1>2, <2>3
    <3> QED BY ONLY <1>2, <3>1, ConcatAdjacentSubSeq
  <2> QED BY ONLY <1>17, <2>3, <2>4, <2>5, <2>6
<1>21. n \in T
  <2> HIDE DEF T
  <2> QED BY <1>2, <1>19, <1>20, Steps
<1>22. u[place[1]] = SubSeq(slices, 1, n)
  <2>1. n <= n /\ n + 1 - n = 1
    BY ONLY <1>2
  <2>2. u[place[n + 1 - n]] = SubSeq(slices, n + 1 - n, n)
    BY <1>21, <2>1
  <2> QED BY ONLY <2>1, <2>2
<1>23. SubSeq(slices, 1, Len(slices)) = slices
  BY SubSeqFull
<1> QED BY ONLY <1>1, <1>8, <1>11, <1>12, <1>14, <1>16, <1>22, <1>23

----------------------------------------------------------------------------
(* Messages.                                                               *)

\* Two parts of a message, one behind the other, are there as a whole.
LEMMA HoldsJoin ==
  ASSUME NEW data \in Seq(Nat), NEW s \in Seq(Nat), NEW t \in Seq(Nat), NEW o \in Nat \ {0},
         Holds(data, o, s), Holds(data, o + Len(s), t)
  PROVE  Holds(data, o, s \o t)
<1>1. Len(data) \in Nat /\ Len(s) \in Nat /\ Len(t) \in Nat
  BY LenProperties
<1>2. PICK st : st = s \o t
  OBVIOUS
<1>3. /\ Len(st) = Len(s) + Len(t)
      /\ \A i \in 1..Len(s) : st[i] = s[i]
      /\ \A i \in 1..Len(t) : st[Len(s) + i] = t[i]
  BY <1>2, ConcatFacts
<1>4. /\ \A i \in 1..Len(s) : data[o + i - 1] = s[i]
      /\ o + Len(s) + Len(t) <= Len(data) + 1
      /\ \A i \in 1..Len(t) : data[o + Len(s) + i - 1] = t[i]
  BY DEF Holds
<1>5. ASSUME NEW i \in 1..Len(st) PROVE data[o + i - 1] = st[i]
  <2>1. CASE i <= Len(s)
    <3>1. i \in 1..Len(s)
      BY ONLY <1>1, <2>1, i \in 1..Len(st)
    <3> QED BY ONLY <1>3, <1>4, <3>1
  <2>2. CASE ~(i <= Len(s))
    <3>1. PICK j : j = i - Len(s)
      OBVIOUS
    <3>2. j \in 1..Len(t) /\ Len(s) + j = i /\ o + Len(s) + j - 1 = o + i - 1
      BY ONLY <1>1, <1>3, <2>2, <3>1, i \in 1..Len(st), o \in Nat \ {0}
    <3>3. data[o + Len(s) + j - 1] = t[j] /\ st[Len(s) + j] = t[j]
      BY ONLY <1>3, <1>4, <3>2
    <3> QED BY ONLY <3>2, <3>3
  <2> QED BY <2>1, <2>2
<1>6. o + Len(st) <= Len(data) + 1
  BY ONLY <1>1, <1>3, <1>4, o \in Nat \ {0}
<1> QED BY ONLY <1>2, <1>5, <1>6 DEF Holds

\* A message in four parts.
Four(a, b, c, d) == ((a \o b) \o c) \o d

\* Each of its parts is there.
LEMMA FourParts ==
  ASSUME NEW data \in Seq(Nat), NEW a \in Seq(Nat), NEW b \in Seq(Nat), NEW c \in Seq(Nat),
         NEW d \in Seq(Nat), NEW o \in Nat \ {0}, Holds(data, o, Four(a, b, c, d))
  PROVE  /\ Holds(data, o, a) /\ Holds(data, o + Len(a), b)
         /\ Holds(data, o + Len(a) + Len(b), c)
         /\ Holds(data, o + Len(a) + Len(b) + Len(c), d)
<1>1. PICK ab, abc : ab = a \o b /\ abc = ab \o c
  OBVIOUS
<1>2. ab \in Seq(Nat) /\ Len(ab) = Len(a) + Len(b)
  BY ONLY <1>1, a \in Seq(Nat), b \in Seq(Nat), Joined
<1>3. abc \in Seq(Nat) /\ Len(abc) = Len(ab) + Len(c)
  BY ONLY <1>1, <1>2, c \in Seq(Nat), Joined
<1>4. Holds(data, o, abc) /\ Holds(data, o + Len(abc), d)
  <2>1. Holds(data, o, abc \o d)
    BY <1>1 DEF Four
  <2> QED BY ONLY <1>3, <2>1, data \in Seq(Nat), d \in Seq(Nat), o \in Nat \ {0}, HoldsSplit
<1>5. Holds(data, o, ab) /\ Holds(data, o + Len(ab), c)
  <2>1. Holds(data, o, ab \o c)
    BY <1>1, <1>4
  <2> QED BY ONLY <1>2, <2>1, data \in Seq(Nat), c \in Seq(Nat), o \in Nat \ {0}, HoldsSplit
<1>6. Holds(data, o, a) /\ Holds(data, o + Len(a), b)
  <2>1. Holds(data, o, a \o b)
    BY <1>1, <1>5
  <2> QED BY ONLY <2>1, data \in Seq(Nat), a \in Seq(Nat), b \in Seq(Nat), o \in Nat \ {0},
                  HoldsSplit
<1>7. Len(a) \in Nat /\ Len(b) \in Nat /\ Len(c) \in Nat
  BY LenProperties
<1>8. o + Len(ab) = o + Len(a) + Len(b) /\ o + Len(abc) = o + Len(a) + Len(b) + Len(c)
  BY ONLY <1>2, <1>3, <1>7, o \in Nat \ {0}
<1> QED BY ONLY <1>4, <1>5, <1>6, <1>8

\* It is as long as its parts.
LEMMA FourLengths ==
  ASSUME NEW a \in Seq(Nat), NEW b \in Seq(Nat), NEW c \in Seq(Nat), NEW d \in Seq(Nat)
  PROVE  /\ Four(a, b, c, d) \in Seq(Nat)
         /\ Len(Four(a, b, c, d)) = Len(a) + Len(b) + Len(c) + Len(d)
<1>1. PICK ab, abc : ab = a \o b /\ abc = ab \o c
  OBVIOUS
<1>2. ab \in Seq(Nat) /\ Len(ab) = Len(a) + Len(b)
  BY ONLY <1>1, a \in Seq(Nat), b \in Seq(Nat), Joined
<1>3. abc \in Seq(Nat) /\ Len(abc) = Len(ab) + Len(c)
  BY ONLY <1>1, <1>2, c \in Seq(Nat), Joined
<1>4. PICK st : st = abc \o d
  OBVIOUS
<1>5. st \in Seq(Nat) /\ Len(st) = Len(abc) + Len(d)
  BY ONLY <1>3, <1>4, d \in Seq(Nat), Joined
<1>6. Four(a, b, c, d) = st
  BY <1>1, <1>4 DEF Four
<1>7. Len(a) \in Nat /\ Len(b) \in Nat /\ Len(c) \in Nat /\ Len(d) \in Nat
  BY LenProperties
<1>8. Len(st) = Len(a) + Len(b) + Len(c) + Len(d)
  BY ONLY <1>2, <1>3, <1>5, <1>7
<1> QED BY ONLY <1>5, <1>6, <1>8

\* An SM message is taken out of the transport it was put in.
LEMMA ReadContainer ==
  ASSUME NEW type \in Nat, NEW id \in Nat, NEW sm \in Seq(Nat), Len(sm) < 256 * 256,
         NEW nas, nas = Transport(type, id, sm)
  PROVE  nas \in Seq(Nat) /\ Len(nas) >= 3 /\ nas[3] = type /\ Container(nas) = sm
<1>1. PICK n, h, l, t : /\ n = Len(sm) /\ h = <<MM, 0, type, 1>> /\ l = BigEndian(n, 2)
                        /\ t = <<18, id>>
  OBVIOUS
<1>2. n \in Nat /\ n < 256 * 256
  BY <1>1, LenProperties
<1>3. n % 65536 = n /\ n \in Numbers16
  BY SMT, <1>2 DEF Numbers16
<1>4. nas = Four(h, l, sm, t)
  <2>1. Len(sm) % 65536 = Len(sm)
    BY <1>1, <1>3
  <2>2. Transport(type, id, sm) =
          Four(<<MM, 0, type, 1>>, BigEndian(Len(sm) % 65536, 2), sm, <<18, id>>)
    BY SMT DEF Transport, Four
  <2> QED BY <1>1, <2>1, <2>2
<1>5. n = Len(sm) /\ n \in Numbers16
  BY <1>1, <1>3
<1>6. /\ h \in Seq(Nat) /\ Len(h) = 4 /\ h[3] = type
      /\ l \in Seq(Nat) /\ Len(l) = 2
      /\ t \in Seq(Nat) /\ Len(t) = 2
  <2>1. h \in Seq(Nat) /\ Len(h) = 4 /\ h[3] = type
    BY <1>1 DEF MM
  <2>2. l \in Seq(Nat) /\ Len(l) = 2
    BY ONLY <1>1, <1>2, TwoBytes
  <2>3. t \in Seq(Nat) /\ Len(t) = 2
    BY <1>1
  <2> QED BY ONLY <2>1, <2>2, <2>3
<1>7. nas \in Seq(Nat) /\ Len(nas) = n + 8
  <2>1. nas \in Seq(Nat) /\ Len(nas) = Len(h) + Len(l) + Len(sm) + Len(t)
    <3>1. h \in Seq(Nat) /\ l \in Seq(Nat) /\ t \in Seq(Nat)
      BY ONLY <1>6
    <3>2. /\ Four(h, l, sm, t) \in Seq(Nat)
          /\ Len(Four(h, l, sm, t)) = Len(h) + Len(l) + Len(sm) + Len(t)
      BY ONLY <3>1, sm \in Seq(Nat), FourLengths
    <3> QED BY ONLY <1>4, <3>2
  <2> QED BY ONLY <1>5, <1>2, <1>6, <2>1
<1>8. Holds(nas, 1, h) /\ Holds(nas, 5, l) /\ Holds(nas, 7, sm)
  <2>1. Holds(nas, 1, Four(h, l, sm, t))
    BY <1>4, <1>7, HoldsAll
  <2>2. 1 \in Nat \ {0}
    OBVIOUS
  <2>3. /\ Holds(nas, 1, h) /\ Holds(nas, 1 + Len(h), l)
        /\ Holds(nas, 1 + Len(h) + Len(l), sm)
    BY ONLY <1>6, <1>7, <2>1, <2>2, sm \in Seq(Nat), FourParts
  <2>4. 1 + Len(h) = 5 /\ 1 + Len(h) + Len(l) = 7
    BY ONLY <1>6
  <2> QED BY ONLY <2>3, <2>4
<1>9. nas[3] = type
  <2>1. 1 + 3 - 1 = 3 /\ 3 \in 1..Len(h) /\ 1 \in Nat \ {0}
    BY ONLY <1>6
  <2>2. nas[1 + 3 - 1] = h[3]
    BY ONLY <1>6, <1>7, <1>8, <2>1, HoldsEnd
  <2> QED BY ONLY <1>6, <2>1, <2>2
<1>10. SubSeq(nas, 5, 6) = l /\ SubSeq(nas, 7, 6 + n) = sm
  <2>1. SubSeq(nas, 5, 5 + Len(l) - 1) = l /\ SubSeq(nas, 7, 7 + Len(sm) - 1) = sm
    <3>1. 5 \in Nat \ {0} /\ 7 \in Nat \ {0}
      OBVIOUS
    <3> QED BY ONLY <1>6, <1>7, <1>8, <3>1, sm \in Seq(Nat), HoldsPart
  <2>2. 5 + Len(l) - 1 = 6 /\ 7 + Len(sm) - 1 = 6 + n
    BY ONLY <1>5, <1>2, <1>6
  <2> QED BY ONLY <2>1, <2>2
<1>11. Number(l) = n
  <2>1. \A i \in 1..2 : l[i] = BigEndian(n, 2)[i]
    BY <1>1
  <2> QED BY ONLY <1>5, <1>6, <2>1, ReadTwo
<1>12. ~(Len(nas) < 6 \/ 6 + n > Len(nas)) /\ Len(nas) >= 3
  BY ONLY <1>2, <1>7
<1>13. Container(nas) = sm
  BY ONLY <1>10, <1>11, <1>12 DEF Container
<1> QED BY ONLY <1>7, <1>9, <1>12, <1>13

\* The identity of a subscriber of PLMN 001-01 is read as it was written.
LEMMA ReadSUPI ==
  ASSUME NEW supi \in Supis, NEW id, id = EncodeSUPI(supi)
  PROVE  id \in Seq(Nat) /\ Len(id) = 13 /\ DecodeSUPIFromMobileIdentity(id) = supi
<1>1. supi \in Seq(0..9) /\ Len(supi) = 15 /\ SubSeq(supi, 1, 5) = <<0, 0, 1, 0, 1>>
  BY MessageAssumption
<1>2. PICK msin, h, b : /\ msin = SubSeq(supi, 6, 15) /\ h = <<1, 0, 241, 16, 0, 0, 0, 0>>
                        /\ b = EncodeMSIN(msin)
  OBVIOUS
<1>3. msin \in Seq(0..9) /\ Len(msin) = 10 /\ msin # <<>>
  <2>1. 6 \in 1..(Len(supi) + 1) /\ 15 \in (6 - 1)..Len(supi)
    BY ONLY <1>1
  <2>2. msin \in Seq(0..9) /\ Len(msin) = 15 - 6 + 1
    BY ONLY <1>1, <1>2, <2>1, SubSeqFacts
  <2>3. Len(<<>>) = 0 /\ 15 - 6 + 1 = 10
    OBVIOUS
  <2> QED BY ONLY <2>2, <2>3
<1>4. id = h \o b
  <2>1. Len(supi) > 10 /\ Len(supi) - 9 = 6
    BY ONLY <1>1
  <2>2. EncodeSUPI(supi) = <<1, 0, 241, 16, 0, 0, 0, 0>> \o EncodeMSIN(SubSeq(supi, 6, 15))
    BY ONLY <1>1, <2>1 DEF EncodeSUPI
  <2> QED BY <1>2, <2>2
<1>5. DecodeMSIN(b) = msin /\ b \in Seq(Nat) /\ Len(b) = 5
  <2>1. /\ DecodeMSIN(EncodeMSIN(msin)) = msin
        /\ EncodeMSIN(msin) \in Seq(Nat) /\ Len(EncodeMSIN(msin)) = (Len(msin) + 1) \div 2
    BY ONLY <1>3, ReadMSIN
  <2>2. (10 + 1) \div 2 = 5
    BY SMT
  <2> QED BY ONLY <1>2, <1>3, <2>1, <2>2
<1>6. h \in Seq(Nat) /\ Len(h) = 8 /\ h[1] = 1
  BY <1>2
<1>7. id \in Seq(Nat) /\ Len(id) = 13
  <2>1. id \in Seq(Nat) /\ Len(id) = Len(h) + Len(b)
    BY ONLY <1>4, <1>5, <1>6, Joined
  <2> QED BY ONLY <1>5, <1>6, <2>1
<1>8. SubSeq(id, 9, 13) = b /\ id[1] = 1
  <2>1. Holds(id, 1, h \o b)
    BY <1>4, <1>7, HoldsAll
  <2>2. 1 \in Nat \ {0} /\ 9 \in Nat \ {0} /\ 1 + Len(h) = 9 /\ 9 + Len(b) - 1 = 13
        /\ 1 \in 1..Len(h) /\ 1 + 1 - 1 = 1
    BY ONLY <1>5, <1>6
  <2>3. Holds(id, 1, h) /\ Holds(id, 1 + Len(h), b)
    BY ONLY <1>5, <1>6, <1>7, <2>1, <2>2, HoldsSplit
  <2>4. SubSeq(id, 9, 9 + Len(b) - 1) = b
    BY ONLY <1>5, <1>7, <2>2, <2>3, HoldsPart
  <2>5. id[1 + 1 - 1] = h[1]
    BY ONLY <1>6, <1>7, <2>2, <2>3, HoldsEnd
  <2> QED BY ONLY <1>6, <2>2, <2>4, <2>5
<1>9. <<0, 0, 1, 0, 1>> \o msin = supi
  <2>1. SubSeq(supi, 1, 5) \o SubSeq(supi, 5 + 1, 15) = SubSeq(supi, 1, 15)
    <3>1. 1 \in 1..(Len(supi) + 1) /\ 5 \in (1 - 1)..Len(supi) /\ 15 \in 5..Len(supi)
      BY ONLY <1>1
    <3> QED BY ONLY <1>1, <3>1, ConcatAdjacentSubSeq
  <2>2. SubSeq(supi, 1, Len(supi)) = supi
    BY ONLY <1>1, SubSeqFull
  <2>3. 5 + 1 = 6
    OBVIOUS
  <2> QED BY ONLY <1>1, <1>2, <2>1, <2>2, <2>3
<1>10. ~(Len(id) < 9 \/ id[1] % 8 # 1 \/ msin = <<>>)
  <2>1. 1 % 8 = 1 /\ ~(13 < 9)
    BY SMT
  <2> QED BY ONLY <1>3, <1>7, <1>8, <2>1
<1>11. DecodeSUPIFromMobileIdentity(id) = supi
  BY ONLY <1>5, <1>7, <1>8, <1>9, <1>10 DEF DecodeSUPIFromMobileIdentity
<1> QED BY ONLY <1>7, <1>11

\* The payload of a message.
LEMMA PayloadOf ==
  ASSUME NEW nas \in Seq(Nat), Len(nas) >= 3
  PROVE  /\ SubSeq(nas, 4, Len(nas)) \in Seq(Nat)
         /\ Len(SubSeq(nas, 4, Len(nas))) = Len(nas) - 3
         /\ \A i \in 1..(Len(nas) - 3) : SubSeq(nas, 4, Len(nas))[i] = nas[i + 3]
         /\ \A s \in Seq(Nat), o \in Nat \ {0} :
              Holds(nas, o + 3, s) => Holds(SubSeq(nas, 4, Len(nas)), o, s)
<1>1. 3 \in Nat /\ 3 <= Len(nas) /\ 3 + 1 = 4 /\ Len(nas) \in Nat
  BY LenProperties
<1>2. /\ SubSeq(nas, 3 + 1, Len(nas)) \in Seq(Nat)
      /\ Len(SubSeq(nas, 3 + 1, Len(nas))) = Len(nas) - 3
      /\ \A s \in Seq(Nat), o \in Nat \ {0} :
           Holds(nas, o + 3, s) => Holds(SubSeq(nas, 3 + 1, Len(nas)), o, s)
  BY ONLY <1>1, nas \in Seq(Nat), HoldsBehind
<1>3. ASSUME NEW i \in 1..(Len(nas) - 3) PROVE SubSeq(nas, 4, Len(nas))[i] = nas[i + 3]
  <2>1. 4 \in 1..(Len(nas) + 1) /\ Len(nas) \in (4 - 1)..Len(nas)
    BY ONLY <1>1
  <2>2. \A j \in 1..(Len(nas) - 4 + 1) : SubSeq(nas, 4, Len(nas))[j] = nas[4 + j - 1]
    BY ONLY <2>1, nas \in Seq(Nat), SubSeqFacts
  <2>3. i \in 1..(Len(nas) - 4 + 1) /\ 4 + i - 1 = i + 3
    BY ONLY <1>1, i \in 1..(Len(nas) - 3)
  <2> QED BY ONLY <2>2, <2>3
<1> QED BY ONLY <1>1, <1>2, <1>3

\* An element, of its identifier and the rest.
LEMMA ElementParts ==
  ASSUME NEW data \in Seq(Nat), NEW o \in Nat \ {0}, NEW i \in Nat, NEW v \in Seq(Nat),
         Len(v) < 256, Holds(data, o, <<i>>), Holds(data, o + 1, Prefixed(v))
  PROVE  Holds(data, o, InOctets(i, v))
<1>1. PICK p, f : p = Prefixed(v) /\ f = <<i>>
  OBVIOUS
<1>2. p \in Seq(Nat)
  BY ONLY <1>1, v \in Seq(Nat), Len(v) < 256, LengthFirst
<1>3. f \in Seq(Nat) /\ Len(f) = 1
  BY <1>1
<1>4. Holds(data, o, f) /\ Holds(data, o + Len(f), p)
  BY <1>1, <1>3
<1>5. Holds(data, o, f \o p)
  BY ONLY <1>2, <1>3, <1>4, data \in Seq(Nat), o \in Nat \ {0}, HoldsJoin
<1> QED BY <1>1, <1>5 DEF InOctets

\* An element has two octets more than its value.
LEMMA OctetsOf ==
  ASSUME NEW i \in Nat, NEW v \in Seq(Nat), Len(v) < 256
  PROVE  InOctets(i, v) \in Seq(Nat) /\ Len(InOctets(i, v)) = Len(v) + 2
<1>1. PICK f, p : f = <<i>> /\ p = Prefixed(v)
  OBVIOUS
<1>2. f \in Seq(Nat) /\ Len(f) = 1
  BY <1>1
<1>3. p \in Seq(Nat) /\ Len(p) = Len(v) + 1 /\ Len(v) \in Nat
  BY ONLY <1>1, v \in Seq(Nat), Len(v) < 256, LengthFirst, LenProperties
<1>4. PICK x : x = f \o p
  OBVIOUS
<1>5. x \in Seq(Nat) /\ Len(x) = Len(f) + Len(p)
  BY ONLY <1>2, <1>3, <1>4, Joined
<1>6. InOctets(i, v) = x
  BY ONLY <1>1, <1>4 DEF InOctets
<1> QED BY ONLY <1>2, <1>3, <1>5, <1>6

----------------------------------------------------------------------------
(* Elements that may be left out.                                          *)

\* What the elements from an offset on tell of an identifier: a value, or Absent.
Tells(data, o, iei, v) ==
  IF v = Absent THEN Lacks(data, o, iei) ELSE v \in Seq(Nat) /\ Gives(data, o, iei, v)

OptionalAt(data, o, i, v, next) ==
  IF v = Absent THEN next = o ELSE ThereIs(data, o, i, v, next)

\* An element of another identifier tells nothing new.
LEMMA TellsPassed ==
  ASSUME NEW data, NEW o, NEW i, NEW v, NEW next, NEW iei, NEW w,
         OptionalAt(data, o, i, v, next), i # iei, Tells(data, next, iei, w)
  PROVE  Tells(data, o, iei, w)
<1>1. CASE v = Absent
  <2>1. next = o
    BY ONLY <1>1, OptionalAt(data, o, i, v, next) DEF OptionalAt
  <2> QED BY ONLY <2>1, Tells(data, next, iei, w)
<1>2. CASE v # Absent
  <2>1. ThereIs(data, o, i, v, next)
    BY ONLY <1>2, OptionalAt(data, o, i, v, next) DEF OptionalAt
  <2>2. CASE w = Absent
    <3>1. Lacks(data, next, iei)
      BY ONLY <2>2, Tells(data, next, iei, w) DEF Tells
    <3>2. Lacks(data, o, iei)
      BY ONLY <2>1, <3>1, i # iei, PassedLacking
    <3> QED BY ONLY <2>2, <3>2 DEF Tells
  <2>3. CASE w # Absent
    <3>1. w \in Seq(Nat) /\ Gives(data, next, iei, w)
      BY ONLY <2>3, Tells(data, next, iei, w) DEF Tells
    <3>2. Gives(data, o, iei, w)
      BY ONLY <2>1, <3>1, i # iei, PassedGiving
    <3> QED BY ONLY <2>3, <3>1, <3>2 DEF Tells
  <2> QED BY ONLY <2>2, <2>3
<1> QED BY ONLY <1>1, <1>2

\* What an element tells that is not followed by another of its identifier.
LEMMA TellsHere ==
  ASSUME NEW data, NEW o, NEW i, NEW v, NEW next,
         OptionalAt(data, o, i, v, next), Tells(data, next, i, Absent)
  PROVE  Tells(data, o, i, v)
<1>1. Lacks(data, next, i)
  BY ONLY Tells(data, next, i, Absent) DEF Tells
<1>2. CASE v = Absent
  <2>1. next = o
    BY ONLY <1>2, OptionalAt(data, o, i, v, next) DEF OptionalAt
  <2> QED BY ONLY <1>1, <1>2, <2>1 DEF Tells
<1>3. CASE v # Absent
  <2>1. ThereIs(data, o, i, v, next)
    BY ONLY <1>3, OptionalAt(data, o, i, v, next) DEF OptionalAt
  <2>2. v \in Seq(Nat)
    BY ONLY <2>1 DEF ThereIs
  <2>3. Gives(data, o, i, v)
    BY ONLY <1>1, <2>1, Found
  <2> QED BY ONLY <1>3, <2>2, <2>3 DEF Tells
<1> QED BY ONLY <1>2, <1>3

\* At the end nothing is told.
LEMMA TellsAtEnd ==
  ASSUME NEW data \in Seq(Nat), NEW iei
  PROVE  Tells(data, Len(data) + 1, iei, Absent)
<1>1. Lacks(data, Len(data) + 1, iei)
  BY ONLY data \in Seq(Nat), AtEnd
<1> QED BY ONLY <1>1 DEF Tells

\* The reader takes what is told.
LEMMA ValueTold ==
  ASSUME NEW data, NEW o, NEW iei, NEW v, Tells(data, o, iei, v),
         NEW least \in Nat, v = Absent \/ least <= Len(v)
  PROVE  Value(Elements(data, o), iei, least) = v
<1>1. CASE v = Absent
  <2>1. Lacks(data, o, iei)
    BY ONLY <1>1, Tells(data, o, iei, v) DEF Tells
  <2> QED BY ONLY <1>1, <2>1, ValueLacking
<1>2. CASE v # Absent
  <2>1. v \in Seq(Nat) /\ Gives(data, o, iei, v) /\ least <= Len(v)
    BY ONLY <1>2, Tells(data, o, iei, v), v = Absent \/ least <= Len(v) DEF Tells
  <2> QED BY ONLY <2>1, least \in Nat, ValueGiven
<1> QED BY ONLY <1>1, <1>2

\* What is in the front of a message is in the message.
LEMMA HoldsInFront ==
  ASSUME NEW data \in Seq(Nat), NEW front \in Seq(Nat), Holds(data, 1, front),
         NEW o \in Nat \ {0}, NEW s \in Seq(Nat), Holds(front, o, s)
  PROVE  Holds(data, o, s)
<1>1. Len(data) \in Nat /\ Len(front) \in Nat /\ Len(s) \in Nat
  BY LenProperties
<1>2. Len(front) + 1 <= Len(data) + 1 /\ \A k \in 1..Len(front) : data[k] = front[k]
  <2>1. 1 + Len(front) <= Len(data) + 1 /\ \A k \in 1..Len(front) : data[1 + k - 1] = front[k]
    BY ONLY Holds(data, 1, front) DEF Holds
  <2>2. \A k \in 1..Len(front) : 1 + k - 1 = k
    BY ONLY <1>1
  <2> QED BY ONLY <1>1, <2>1, <2>2
<1>3. o + Len(s) <= Len(front) + 1 /\ \A k \in 1..Len(s) : front[o + k - 1] = s[k]
  BY ONLY Holds(front, o, s) DEF Holds
<1>4. ASSUME NEW k \in 1..Len(s) PROVE data[o + k - 1] = s[k]
  <2>1. o + k - 1 \in 1..Len(front)
    BY ONLY <1>1, <1>3, k \in 1..Len(s), o \in Nat \ {0}
  <2> QED BY ONLY <1>2, <1>3, <2>1, k \in 1..Len(s)
<1>5. o + Len(s) <= Len(data) + 1
  BY ONLY <1>1, <1>2, <1>3, o \in Nat \ {0}
<1> QED BY ONLY <1>4, <1>5 DEF Holds

\* An element in the front of a message is in the message.
LEMMA OptionalInFront ==
  ASSUME NEW data \in Seq(Nat), NEW front \in Seq(Nat), Holds(data, 1, front),
         NEW o, NEW i, NEW v, NEW next, OptionalAt(front, o, i, v, next)
  PROVE  OptionalAt(data, o, i, v, next)
<1>1. CASE v = Absent
  BY ONLY <1>1, OptionalAt(front, o, i, v, next) DEF OptionalAt
<1>2. CASE v # Absent
  <2>1. /\ o \in Nat \ {0} /\ i \in Nat /\ v \in Seq(Nat) /\ Len(v) < 256
        /\ Holds(front, o, InOctets(i, v)) /\ next = o + 2 + Len(v)
    BY ONLY <1>2, OptionalAt(front, o, i, v, next) DEF OptionalAt, ThereIs
  <2>2. InOctets(i, v) \in Seq(Nat)
    BY ONLY <2>1, OctetsOf
  <2>3. Holds(data, o, InOctets(i, v))
    BY ONLY <2>1, <2>2, data \in Seq(Nat), front \in Seq(Nat), Holds(data, 1, front),
            HoldsInFront
  <2>4. ThereIs(data, o, i, v, next)
    BY ONLY <2>1, <2>3, data \in Seq(Nat) DEF ThereIs
  <2> QED BY ONLY <1>2, <2>4 DEF OptionalAt
<1> QED BY ONLY <1>1, <1>2

\* What is written behind the front of a message.
LEMMA AppendedPiece ==
  ASSUME NEW front \in Seq(Nat), NEW s \in Seq(Nat), NEW nas, nas = front \o s
  PROVE  /\ nas \in Seq(Nat) /\ Len(nas) = Len(front) + Len(s)
         /\ Holds(nas, 1, front) /\ Holds(nas, Len(front) + 1, s)
<1>1. nas \in Seq(Nat) /\ Len(nas) = Len(front) + Len(s)
  BY ONLY front \in Seq(Nat), s \in Seq(Nat), nas = front \o s, Joined
<1>2. Holds(nas, 1, front \o s) /\ 1 \in Nat \ {0}
  <2>1. Holds(nas, 1, nas)
    BY ONLY <1>1, HoldsAll
  <2> QED BY ONLY <2>1, nas = front \o s
<1>3. Holds(nas, 1, front) /\ Holds(nas, 1 + Len(front), s)
  BY ONLY <1>1, <1>2, front \in Seq(Nat), s \in Seq(Nat), HoldsSplit
<1>4. Len(front) \in Nat
  BY LenProperties
<1>5. 1 + Len(front) = Len(front) + 1
  BY ONLY <1>4
<1> QED BY ONLY <1>1, <1>3, <1>5

WithOptional(front, i, v) == front \o (IF v = Absent THEN <<>> ELSE InOctets(i, v))

WithElement(front, i, v) == (front \o <<i>>) \o Prefixed(v)

\* An element that may be left out, behind the front of a message.
LEMMA AppendedOptional ==
  ASSUME NEW front \in Seq(Nat), NEW i \in Nat, NEW v,
         v = Absent \/ (v \in Seq(Nat) /\ Len(v) < 256),
         NEW nas, nas = WithOptional(front, i, v)
  PROVE  /\ nas \in Seq(Nat) /\ Len(nas) \in Nat /\ Len(nas) >= Len(front)
         /\ Len(nas) = Len(front) + (IF v = Absent THEN 0 ELSE Len(v) + 2)
         /\ Holds(nas, 1, front) /\ OptionalAt(nas, Len(front) + 1, i, v, Len(nas) + 1)
<1>1. Len(front) \in Nat
  BY LenProperties
<1>2. CASE v = Absent
  <2>1. PICK s : s = <<>>
    OBVIOUS
  <2>2. s \in Seq(Nat) /\ Len(s) = 0
    BY <2>1
  <2>3. nas = front \o s
    BY ONLY <1>2, <2>1, nas = WithOptional(front, i, v) DEF WithOptional
  <2>4. nas \in Seq(Nat) /\ Len(nas) = Len(front) + Len(s) /\ Holds(nas, 1, front)
    BY ONLY <2>2, <2>3, front \in Seq(Nat), AppendedPiece
  <2>5. Len(nas) = Len(front)
    BY ONLY <1>1, <2>2, <2>4
  <2>6. OptionalAt(nas, Len(front) + 1, i, v, Len(nas) + 1)
    BY ONLY <1>2, <2>5 DEF OptionalAt
  <2> QED BY ONLY <1>1, <1>2, <2>4, <2>5, <2>6
<1>3. CASE v # Absent
  <2>1. v \in Seq(Nat) /\ Len(v) < 256
    BY ONLY <1>3, v = Absent \/ (v \in Seq(Nat) /\ Len(v) < 256)
  <2>2. PICK s : s = InOctets(i, v)
    OBVIOUS
  <2>3. s \in Seq(Nat) /\ Len(s) = Len(v) + 2
    BY ONLY <2>1, <2>2, i \in Nat, OctetsOf
  <2>4. nas = front \o s
    BY ONLY <1>3, <2>2, nas = WithOptional(front, i, v) DEF WithOptional
  <2>5. /\ nas \in Seq(Nat) /\ Len(nas) = Len(front) + Len(s)
        /\ Holds(nas, 1, front) /\ Holds(nas, Len(front) + 1, s)
    BY ONLY <2>3, <2>4, front \in Seq(Nat), AppendedPiece
  <2>6. Len(v) \in Nat
    BY ONLY <2>1, LenProperties
  <2>7. Len(nas) = Len(front) + (Len(v) + 2) /\ Len(nas) + 1 = Len(front) + 1 + 2 + Len(v)
        /\ Len(front) + 1 \in Nat \ {0} /\ Len(nas) >= Len(front) /\ Len(nas) \in Nat
    BY ONLY <1>1, <2>3, <2>5, <2>6
  <2>8. ThereIs(nas, Len(front) + 1, i, v, Len(nas) + 1)
    BY ONLY <2>1, <2>2, <2>5, <2>7, i \in Nat DEF ThereIs
  <2>9. OptionalAt(nas, Len(front) + 1, i, v, Len(nas) + 1)
    BY ONLY <1>3, <2>8 DEF OptionalAt
  <2> QED BY ONLY <1>3, <2>5, <2>7, <2>9
<1> QED BY ONLY <1>2, <1>3

\* An element behind the front of a message.
LEMMA Appended ==
  ASSUME NEW front \in Seq(Nat), NEW i \in Nat, NEW v \in Seq(Nat), Len(v) < 256,
         NEW nas, nas = WithElement(front, i, v)
  PROVE  /\ nas \in Seq(Nat) /\ Len(nas) = Len(front) + 2 + Len(v)
         /\ Holds(nas, 1, front) /\ OptionalAt(nas, Len(front) + 1, i, v, Len(nas) + 1)
<1>1. PICK f, p, ff : f = <<i>> /\ p = Prefixed(v) /\ ff = front \o f
  OBVIOUS
<1>2. f \in Seq(Nat) /\ Len(f) = 1
  BY <1>1
<1>3. p \in Seq(Nat) /\ Len(p) = Len(v) + 1 /\ Len(v) \in Nat /\ Len(front) \in Nat
  BY ONLY <1>1, v \in Seq(Nat), Len(v) < 256, front \in Seq(Nat), LengthFirst, LenProperties
<1>4. /\ ff \in Seq(Nat) /\ Len(ff) = Len(front) + Len(f)
      /\ Holds(ff, 1, front) /\ Holds(ff, Len(front) + 1, f)
  BY ONLY <1>1, <1>2, front \in Seq(Nat), AppendedPiece
<1>5. nas = ff \o p
  BY ONLY <1>1, nas = WithElement(front, i, v) DEF WithElement
<1>6. /\ nas \in Seq(Nat) /\ Len(nas) = Len(ff) + Len(p)
      /\ Holds(nas, 1, ff) /\ Holds(nas, Len(ff) + 1, p)
  BY ONLY <1>3, <1>4, <1>5, AppendedPiece
<1>7. /\ Len(nas) = Len(front) + 2 + Len(v) /\ Len(ff) + 1 = Len(front) + 1 + 1
      /\ Len(front) + 1 \in Nat \ {0} /\ 1 \in Nat \ {0}
      /\ Len(nas) + 1 = Len(front) + 1 + 2 + Len(v)
  BY ONLY <1>2, <1>3, <1>4, <1>6
<1>8. Holds(nas, 1, front) /\ Holds(nas, Len(front) + 1, f)
  BY ONLY <1>2, <1>4, <1>6, <1>7, front \in Seq(Nat), HoldsInFront
<1>9. Holds(nas, Len(front) + 1, InOctets(i, v))
  <2>1. Holds(nas, Len(front) + 1, <<i>>) /\ Holds(nas, Len(front) + 1 + 1, Prefixed(v))
    BY ONLY <1>1, <1>6, <1>7, <1>8
  <2> QED BY ONLY <1>6, <1>7, <2>1, i \in Nat, v \in Seq(Nat), Len(v) < 256, ElementParts
<1>10. ThereIs(nas, Len(front) + 1, i, v, Len(nas) + 1)
  BY ONLY <1>6, <1>7, <1>9, i \in Nat, v \in Seq(Nat), Len(v) < 256 DEF ThereIs
<1>11. v # Absent
  BY ONLY v \in Seq(Nat), NotAbsent
<1>12. OptionalAt(nas, Len(front) + 1, i, v, Len(nas) + 1)
  BY ONLY <1>10, <1>11 DEF OptionalAt
<1> QED BY ONLY <1>6, <1>7, <1>8, <1>12

\* Of a message with a header of three octets, in its payload.
LEMMA OptionalBehind ==
  ASSUME NEW nas \in Seq(Nat), Len(nas) >= 3, NEW o \in Nat \ {0}, NEW i, NEW v,
         NEW next \in Nat, OptionalAt(nas, o + 3, i, v, next + 3)
  PROVE  OptionalAt(SubSeq(nas, 4, Len(nas)), o, i, v, next)
<1>1. PICK p : p = SubSeq(nas, 4, Len(nas))
  OBVIOUS
<1>2. CASE v = Absent
  <2>1. next + 3 = o + 3
    BY ONLY <1>2, OptionalAt(nas, o + 3, i, v, next + 3) DEF OptionalAt
  <2>2. next = o
    BY ONLY <2>1, next \in Nat, o \in Nat \ {0}
  <2> QED BY ONLY <1>2, <2>2 DEF OptionalAt
<1>3. CASE v # Absent
  <2>1. /\ i \in Nat /\ v \in Seq(Nat) /\ Len(v) < 256
        /\ Holds(nas, o + 3, InOctets(i, v)) /\ next + 3 = o + 3 + 2 + Len(v)
    BY ONLY <1>3, OptionalAt(nas, o + 3, i, v, next + 3) DEF OptionalAt, ThereIs
  <2>2. InOctets(i, v) \in Seq(Nat) /\ Len(v) \in Nat
    BY ONLY <2>1, OctetsOf, LenProperties
  <2>3. /\ p \in Seq(Nat)
        /\ \A s \in Seq(Nat), x \in Nat \ {0} : Holds(nas, x + 3, s) => Holds(p, x, s)
    BY ONLY <1>1, nas \in Seq(Nat), Len(nas) >= 3, PayloadOf
  <2>4. Holds(p, o, InOctets(i, v))
    BY ONLY <2>1, <2>2, <2>3, o \in Nat \ {0}
  <2>5. next = o + 2 + Len(v)
    <3>1. PICK n : n = Len(v)
      OBVIOUS
    <3>2. n \in Nat /\ next + 3 = o + 3 + 2 + n
      BY ONLY <2>1, <2>2, <3>1
    <3>3. next = o + 2 + n
      BY ONLY <3>2, next \in Nat, o \in Nat \ {0}
    <3> QED BY ONLY <3>1, <3>3
  <2>6. ThereIs(p, o, i, v, next)
    BY ONLY <2>1, <2>3, <2>4, <2>5, o \in Nat \ {0} DEF ThereIs
  <2>7. OptionalAt(p, o, i, v, next)
    BY ONLY <1>3, <2>6 DEF OptionalAt
  <2> QED BY ONLY <1>1, <2>7
<1> QED BY ONLY <1>2, <1>3

----------------------------------------------------------------------------
(* Uplink.                                                                 *)

\* The slices a UE asks for.
LEMMA BroadbandOctets ==
  DecodeNSSAI(<<1, 1>>) = <<Broadband>>
<1>1. PICK s : s = <<Broadband>>
  OBVIOUS
<1>2. Broadband \in [sst : 0..255, sd : 1..NotSet]
  <2>1. NotSet \in 1..NotSet
    <3>1. NotSet \in Nat /\ NotSet # 0
      BY SDs
    <3> QED BY ONLY <3>1
  <2> QED BY ONLY <2>1 DEF Broadband
<1>3. /\ s \in Seq([sst : 0..255, sd : 1..NotSet]) /\ s # <<>> /\ Len(s) = 1
      /\ s[1] = Broadband
  <2>1. PICK S : S = [sst : 0..255, sd : 1..NotSet]
    OBVIOUS
  <2>2. Broadband \in S
    BY ONLY <1>2, <2>1
  <2>3. s \in Seq(S) /\ s # <<>> /\ Len(s) = 1 /\ s[1] = Broadband
    BY ONLY <1>1, <2>2
  <2> QED BY ONLY <2>1, <2>3
<1>4. EncodeNSSAI(s) = <<1, 1>>
  <2>1. PICK pieces : pieces = [i \in 1..Len(s) |->
                                  IF s[i].sd \in {0, NotSet} THEN <<1, s[i].sst>>
                                  ELSE <<4, s[i].sst>> \o BigEndian(s[i].sd, 3)]
    OBVIOUS
  <2>2. EncodeNSSAI(s) = FlattenSeq(pieces)
    BY ONLY <2>1 DEF EncodeNSSAI
  <2>3. s[1].sst = 1 /\ s[1].sd = NotSet
    BY ONLY <1>3 DEF Broadband
  <2>4. pieces[1] = <<1, 1>>
    BY ONLY <1>3, <2>1, <2>3
  <2>5. Len(pieces) = 1
    <3>1. pieces \in [1..1 -> {pieces[1]}]
      BY ONLY <1>3, <2>1
    <3>2. 1 \in Nat
      OBVIOUS
    <3> QED BY ONLY <3>1, <3>2, FunctionSeq
  <2>6. PICK u : Joins(u, pieces)
    BY <2>5, Join
  <2>7. FlattenSeq(pieces) = pieces[1]
    BY ONLY <2>5, <2>6 DEF Joins
  <2> QED BY ONLY <2>2, <2>4, <2>7
<1>5. DecodeNSSAI(EncodeNSSAI(s)) = s
  BY ONLY <1>3, ReadNSSAI
<1> QED BY ONLY <1>1, <1>4, <1>5

\* A request to register is read as it was written.
LEMMA RequestRead ==
  ASSUME NEW supi \in Supis
  PROVE  AmfReads(BuildRegistrationRequest(Request(supi))) = Request(supi)
<1>1. PICK id : id = EncodeSUPI(supi)
  OBVIOUS
<1>2. id \in Seq(Nat) /\ Len(id) = 13 /\ DecodeSUPIFromMobileIdentity(id) = supi
  BY ONLY <1>1, supi \in Supis, ReadSUPI
<1>3. PICK h, pid, c, f, v, last, front, nas :
        /\ h = <<MM, 0, RegistrationRequest, 9, 14>> /\ pid = Prefixed(id)
        /\ c = <<46, 2, 192, 192>> /\ f = <<47>> /\ v = <<1, 1>> /\ last = Prefixed(v)
        /\ front = Four(h, pid, c, f) /\ nas = front \o last
  OBVIOUS
<1>4. BuildRegistrationRequest(Request(supi)) = nas
  <2>1. PICK m : m = Request(supi)
    OBVIOUS
  <2>2. (1 % 8) + 8 = 9
    BY ONLY SMT
  <2>3. m.type = 1 /\ Bit(m.followOn, 8) = 8 /\ m.supi = supi
    BY <2>1 DEF Request, Bit
  <2>4. BuildRegistrationRequest(m) =
          Four(<<MM, 0, RegistrationRequest, (m.type % 8) + Bit(m.followOn, 8), 14>>,
               Prefixed(EncodeSUPI(m.supi)), <<46, 2, 192, 192>>, <<47>>)
            \o Prefixed(<<1, 1>>)
    BY ONLY SMT DEF BuildRegistrationRequest, Four
  <2>5. BuildRegistrationRequest(m) =
          Four(<<MM, 0, RegistrationRequest, 9, 14>>, Prefixed(id), <<46, 2, 192, 192>>, <<47>>)
            \o Prefixed(<<1, 1>>)
    BY ONLY <1>1, <2>2, <2>3, <2>4
  <2> QED BY ONLY <1>3, <2>1, <2>5
<1>5. /\ h \in Seq(Nat) /\ Len(h) = 5 /\ h[3] = RegistrationRequest /\ h[4] = 9 /\ h[5] = 14
      /\ pid \in Seq(Nat) /\ Len(pid) = 14
      /\ c \in Seq(Nat) /\ Len(c) = 4 /\ c[1] = 46 /\ c[2] = 2
      /\ f \in Seq(Nat) /\ Len(f) = 1
      /\ v \in Seq(Nat) /\ Len(v) = 2 /\ last \in Seq(Nat) /\ Len(last) = 3
  <2>1. /\ h \in Seq(Nat) /\ Len(h) = 5 /\ h[3] = RegistrationRequest /\ h[4] = 9 /\ h[5] = 14
    BY <1>3 DEF MM, RegistrationRequest
  <2>2. /\ c \in Seq(Nat) /\ Len(c) = 4 /\ c[1] = 46 /\ c[2] = 2
        /\ f \in Seq(Nat) /\ Len(f) = 1 /\ v \in Seq(Nat) /\ Len(v) = 2
    BY <1>3
  <2>3. Len(id) < 256 /\ Len(v) < 256
    BY ONLY <1>2, <2>2
  <2>4. pid = Prefixed(id) /\ last = Prefixed(v)
    BY <1>3
  <2>5. pid \in Seq(Nat) /\ Len(pid) = Len(id) + 1
    BY ONLY <1>2, <2>3, <2>4, LengthFirst
  <2>6. last \in Seq(Nat) /\ Len(last) = Len(v) + 1
    BY ONLY <2>2, <2>3, <2>4, LengthFirst
  <2> QED BY ONLY <1>2, <2>1, <2>2, <2>5, <2>6
<1>6. nas = front \o last /\ front = Four(h, pid, c, f) /\ pid = Prefixed(id)
      /\ last = Prefixed(v)
  BY <1>3
<1>7. f = <<47>> /\ v = <<1, 1>>
  BY <1>3
<1>8. front \in Seq(Nat) /\ Len(front) = 24
  <2>1. front \in Seq(Nat) /\ Len(front) = Len(h) + Len(pid) + Len(c) + Len(f)
    <3>1. h \in Seq(Nat) /\ pid \in Seq(Nat) /\ c \in Seq(Nat) /\ f \in Seq(Nat)
      BY ONLY <1>5
    <3>2. /\ Four(h, pid, c, f) \in Seq(Nat)
          /\ Len(Four(h, pid, c, f)) = Len(h) + Len(pid) + Len(c) + Len(f)
      BY ONLY <3>1, FourLengths
    <3>3. front = Four(h, pid, c, f)
      BY ONLY <1>6
    <3> QED BY ONLY <3>2, <3>3
  <2> QED BY ONLY <1>5, <2>1
<1>9. nas \in Seq(Nat) /\ Len(nas) = 27
  <2>1. nas \in Seq(Nat) /\ Len(nas) = Len(front) + Len(last)
    BY ONLY <1>5, <1>6, <1>8, Joined
  <2> QED BY ONLY <1>5, <1>8, <2>1
<1>10. /\ Holds(nas, 1, h) /\ Holds(nas, 6, pid) /\ Holds(nas, 20, c) /\ Holds(nas, 24, f)
      /\ Holds(nas, 25, last)
  <2>1. Holds(nas, 1, front \o last) /\ 1 \in Nat \ {0}
    <3>1. nas \in Seq(Nat) /\ nas = front \o last
      BY ONLY <1>6, <1>9
    <3>2. Holds(nas, 1, nas)
      BY ONLY <3>1, HoldsAll
    <3> QED BY ONLY <3>1, <3>2
  <2>2. Holds(nas, 1, front) /\ Holds(nas, 1 + Len(front), last)
    BY ONLY <1>5, <1>8, <1>9, <2>1, HoldsSplit
  <2>3. /\ Holds(nas, 1, h) /\ Holds(nas, 1 + Len(h), pid)
        /\ Holds(nas, 1 + Len(h) + Len(pid), c)
        /\ Holds(nas, 1 + Len(h) + Len(pid) + Len(c), f)
    <3>1. Holds(nas, 1, Four(h, pid, c, f))
      BY ONLY <1>6, <2>2
    <3> QED BY ONLY <1>5, <1>9, <2>1, <3>1, FourParts
  <2>4. /\ 1 + Len(h) = 6 /\ 1 + Len(h) + Len(pid) = 20
        /\ 1 + Len(h) + Len(pid) + Len(c) = 24 /\ 1 + Len(front) = 25
    BY ONLY <1>5, <1>8
  <2> QED BY ONLY <2>2, <2>3, <2>4
<1>11. PICK p : p = SubSeq(nas, 4, Len(nas))
  OBVIOUS
<1>12. /\ p \in Seq(Nat) /\ Len(p) = 24
       /\ nas[3] = RegistrationRequest /\ p[1] = 9 /\ p[2] = 14
       /\ Holds(p, 3, pid) /\ Holds(p, 17, c) /\ Holds(p, 21, f) /\ Holds(p, 22, last)
  <2>1. Len(nas) >= 3 /\ Len(nas) - 3 = 24
    BY ONLY <1>9
  <2>2. /\ p \in Seq(Nat) /\ Len(p) = Len(nas) - 3
        /\ \A i \in 1..(Len(nas) - 3) : p[i] = nas[i + 3]
    BY ONLY <1>9, <1>11, <2>1, PayloadOf
  <2>3. /\ \A s \in Seq(Nat), o \in Nat \ {0} : Holds(nas, o + 3, s) => Holds(p, o, s)
    BY ONLY <1>9, <1>11, <2>1, PayloadOf
  <2>4. /\ 3 + 3 = 6 /\ 17 + 3 = 20 /\ 21 + 3 = 24 /\ 22 + 3 = 25
        /\ 3 \in Nat \ {0} /\ 17 \in Nat \ {0} /\ 21 \in Nat \ {0} /\ 22 \in Nat \ {0}
    OBVIOUS
  <2>5. Holds(p, 3, pid) /\ Holds(p, 17, c) /\ Holds(p, 21, f) /\ Holds(p, 22, last)
    BY ONLY <1>5, <1>10, <2>3, <2>4
  <2>6. \A i \in 1..Len(h) : nas[1 + i - 1] = h[i]
    BY ONLY <1>10 DEF Holds
  <2>7. /\ nas[1 + 3 - 1] = h[3] /\ nas[1 + 4 - 1] = h[4] /\ nas[1 + 5 - 1] = h[5]
        /\ 1 + 3 - 1 = 3 /\ 1 + 4 - 1 = 4 /\ 1 + 5 - 1 = 5
    BY ONLY <1>5, <2>6
  <2>8. p[1] = nas[1 + 3] /\ p[2] = nas[2 + 3] /\ 1 + 3 = 4 /\ 2 + 3 = 5
    <3>1. \A i \in 1..24 : p[i] = nas[i + 3]
      BY ONLY <2>1, <2>2
    <3>2. 1 \in 1..24 /\ 2 \in 1..24 /\ 1 + 3 = 4 /\ 2 + 3 = 5
      OBVIOUS
    <3> QED BY ONLY <3>1, <3>2
  <2> QED BY ONLY <1>5, <2>1, <2>2, <2>5, <2>7, <2>8
<1>13. p[3] = 13 /\ SubSeq(p, 4, 16) = id
  <2>1. Holds(p, 3, Prefixed(id)) /\ 3 \in Nat \ {0} /\ Len(id) < 256
    BY ONLY <1>2, <1>6, <1>12
  <2>2. p[3] = Len(id) /\ SubSeq(p, 3 + 1, 3 + Len(id)) = id
    BY ONLY <1>2, <1>12, <2>1, PrefixedHeld
  <2>3. 3 + 1 = 4 /\ 3 + Len(id) = 16
    BY ONLY <1>2
  <2> QED BY ONLY <1>2, <2>2, <2>3
<1>14. Gives(p, 17, 47, v)
  <2>1. Lacks(p, 25, 47)
    <3>1. Lacks(p, Len(p) + 1, 47)
      BY ONLY <1>12, AtEnd
    <3>2. Len(p) + 1 = 25
      BY ONLY <1>12
    <3> QED BY ONLY <3>1, <3>2
  <2>2. Gives(p, 21, 47, v)
    <3>1. Holds(p, 21, InOctets(47, v))
      <4>1. 21 \in Nat \ {0} /\ 47 \in Nat /\ Len(v) < 256 /\ 21 + 1 = 22
        BY ONLY <1>5
      <4>2. Holds(p, 21, <<47>>) /\ Holds(p, 21 + 1, Prefixed(v))
        BY ONLY <1>6, <1>7, <1>12, <4>1
      <4> QED BY ONLY <1>5, <1>12, <4>1, <4>2, ElementParts
    <3>2. 21 \in Nat \ {0} /\ 47 \in Nat /\ Len(v) < 256 /\ 25 = 21 + 2 + Len(v)
      BY ONLY <1>5
    <3>3. p \in Seq(Nat) /\ v \in Seq(Nat)
      BY ONLY <1>5, <1>12
    <3>4. ThereIs(p, 21, 47, v, 25)
      BY ONLY <3>1, <3>2, <3>3 DEF ThereIs
    <3> QED BY ONLY <2>1, <3>4, Found
  <2>3. PICK w : w = <<192, 192>>
    OBVIOUS
  <2>4. w \in Seq(Nat) /\ Len(w) = 2
    BY ONLY <2>3
  <2>5. ThereIs(p, 17, 46, w, 21)
    <3>1. c = InOctets(46, w)
      <4>1. PICK x, y : x = InOctets(46, w) /\ y = Prefixed(w)
        OBVIOUS
      <4>2. /\ y \in Seq(Nat) /\ Len(y) = Len(w) + 1 /\ y[1] = Len(w)
            /\ \A k \in 1..Len(w) : y[k + 1] = w[k]
        <5>1. Len(w) < 256
          BY ONLY <2>4
        <5> QED BY ONLY <2>4, <4>1, <5>1, LengthFirst
      <4>3. /\ y \in Seq(Nat) /\ Len(y) = 3 /\ y[1] = 2
            /\ \A k \in 1..2 : y[k + 1] = w[k]
        BY ONLY <2>4, <4>2
      <4>4. x = <<46>> \o y
        BY ONLY <4>1 DEF InOctets
      <4>5. PICK f1 : f1 = <<46>>
        OBVIOUS
      <4>6. f1 \in Seq(Nat) /\ Len(f1) = 1 /\ f1[1] = 46
        BY ONLY <4>5
      <4>7. /\ x \in Seq(Nat) /\ Len(x) = Len(f1) + Len(y)
            /\ \A k \in 1..Len(f1) : x[k] = f1[k]
            /\ \A k \in 1..Len(y) : x[Len(f1) + k] = y[k]
        <5>1. x = f1 \o y /\ f1 \in Seq(Nat) /\ y \in Seq(Nat)
          BY ONLY <4>3, <4>4, <4>5, <4>6
        <5> QED BY ONLY <5>1, ConcatFacts
      <4>8. /\ x \in Seq(Nat) /\ Len(x) = 4
            /\ \A k \in 1..1 : x[k] = f1[k]
            /\ \A k \in 1..3 : x[1 + k] = y[k]
        BY ONLY <4>3, <4>6, <4>7
      <4>9. y[2] = 192 /\ y[3] = 192
        BY ONLY <2>3, <4>3
      <4>10. x[1] = 46 /\ x[2] = 2 /\ x[3] = 192 /\ x[4] = 192
        BY ONLY <4>3, <4>6, <4>8, <4>9
      <4>11. c = <<46, 2, 192, 192>>
        BY ONLY <1>3
      <4> QED BY ONLY <4>1, <4>8, <4>10, <4>11
    <3>2. Holds(p, 17, InOctets(46, w)) /\ p \in Seq(Nat)
      BY ONLY <1>12, <3>1
    <3>3. 17 \in Nat \ {0} /\ 46 \in Nat /\ Len(w) < 256 /\ 21 = 17 + 2 + Len(w)
      BY ONLY <2>4
    <3> QED BY ONLY <2>4, <3>2, <3>3 DEF ThereIs
  <2>6. 46 # 47
    OBVIOUS
  <2> QED BY ONLY <2>2, <2>5, <2>6, PassedGiving
<1>15. Value(Elements(p, 17), 47, 0) = v
  <2>1. 0 \in Nat /\ 0 <= Len(v)
    BY ONLY <1>5
  <2> QED BY ONLY <1>5, <1>14, <2>1, ValueGiven
<1>16. DecodeRegistrationRequest(p) = Request(supi)
  <2>1. Len(p) > 2 /\ 3 + p[3] <= Len(p) /\ 3 + p[3] = 16 /\ 4 + p[3] = 17 /\ ~(Len(p) < 2)
    BY ONLY <1>12, <1>13
  <2>2. 9 % 8 = 1 /\ Has(9, 8) = TRUE
    BY ONLY SMT DEF Has
  <2>3. DecodeRegistrationRequest(p) =
          [kind |-> "registration request", type |-> p[1] % 8, followOn |-> Has(p[1], 8),
           supi |-> DecodeSUPIFromMobileIdentity(SubSeq(p, 4, 3 + p[3])),
           slices |-> DecodeNSSAI(Value(Elements(p, 4 + p[3]), 47, 0))]
    BY ONLY <2>1 DEF DecodeRegistrationRequest
  <2> QED BY ONLY <1>2, <1>6, <1>12, <1>13, <1>15, <2>1, <2>2, <2>3, <1>7, BroadbandOctets
          DEF Request
<1>17. AmfReads(nas) = DecodeRegistrationRequest(p)
  <2>1. ~(Len(nas) < 3)
    BY ONLY <1>9
  <2> QED BY ONLY <1>11, <1>12, <2>1 DEF AmfReads, RegistrationRequest, RegistrationComplete,
                                        ULNASTransport
<1> QED BY ONLY <1>4, <1>16, <1>17

\* Octets are numbers.
LEMMA OctetsAreNumbers ==
  ASSUME NEW s \in Seq(0..255)
  PROVE  s \in Seq(Nat)
<1>1. Len(s) \in Nat /\ s \in [1..Len(s) -> 0..255]
  BY LenProperties
<1>2. \A n \in 0..255 : n \in Nat
  OBVIOUS
<1>3. s \in [1..Len(s) -> Nat]
  BY ONLY <1>1, <1>2, Zenon
<1> QED BY ONLY <1>1, <1>3, FunctionSeq

\* A name as the value of an element, or that there is none.
DnnValue(dnn) == IF dnn = <<>> THEN Absent ELSE Prefixed(dnn)

\* The name of a network is read as it was written, or there is none.
LEMMA ReadDNN ==
  ASSUME NEW dnn \in Dnns, NEW v, v = DnnValue(dnn)
  PROVE  /\ v = Absent \/ (v \in Seq(Nat) /\ Len(v) < 256)
         /\ \A front : front \o DnnElement(dnn) = WithOptional(front, 37, v)
         /\ DecodeDNN(v) = dnn
<1>1. dnn \in Seq(Nat) /\ Len(dnn) < 255 /\ Len(dnn) \in Nat
  <2>1. dnn \in Seq(0..255) /\ Len(dnn) < 255
    BY MessageAssumption
  <2>2. dnn \in Seq(Nat)
    BY ONLY <2>1, OctetsAreNumbers
  <2> QED BY ONLY <2>1, <2>2, LenProperties
<1>2. SUFFICES /\ v = Absent \/ (v \in Seq(Nat) /\ Len(v) < 256)
               /\ DnnElement(dnn) = (IF v = Absent THEN <<>> ELSE InOctets(37, v))
               /\ DecodeDNN(v) = dnn
  BY DEF WithOptional
<1>3. CASE dnn = <<>>
  <2>1. v = Absent
    BY ONLY <1>3, v = DnnValue(dnn) DEF DnnValue
  <2>2. DnnElement(dnn) = <<>>
    BY ONLY <1>3 DEF DnnElement
  <2>3. DecodeDNN(v) = <<>>
    BY ONLY <2>1 DEF DecodeDNN
  <2> QED BY ONLY <1>3, <2>1, <2>2, <2>3
<1>4. CASE dnn # <<>>
  <2>1. v = Prefixed(dnn)
    BY ONLY <1>4, v = DnnValue(dnn) DEF DnnValue
  <2>2. Len(dnn) < 256
    BY ONLY <1>1
  <2>3. /\ v \in Seq(Nat) /\ Len(v) = Len(dnn) + 1 /\ v[1] = Len(dnn)
        /\ Prefixed(dnn) \in Seq(Nat)
    BY ONLY <1>1, <2>1, <2>2, LengthFirst
  <2>4. v # Absent
    BY ONLY <2>3, NotAbsent
  <2>5. DnnElement(dnn) = InOctets(37, v)
    BY ONLY <1>4, <2>1 DEF DnnElement, InOctets
  <2>6. SubSeq(v, 2, 1 + Len(dnn)) = dnn
    <3>1. Holds(v, 1, Prefixed(dnn)) /\ 1 \in Nat \ {0} /\ 1 + 1 = 2
      <4>1. Holds(v, 1, v)
        BY ONLY <2>3, HoldsAll
      <4> QED BY ONLY <2>1, <4>1
    <3>2. SubSeq(v, 1 + 1, 1 + Len(dnn)) = dnn
      BY ONLY <1>1, <2>2, <2>3, <3>1, PrefixedHeld
    <3> QED BY ONLY <3>1, <3>2
  <2>7. DecodeDNN(v) = dnn
    <3>1. v # <<>>
      <4>1. Len(v) # 0
        BY ONLY <1>1, <2>3
      <4>2. Len(<<>>) = 0
        OBVIOUS
      <4> QED BY ONLY <4>1, <4>2
    <3>2. ~(v[1] + 1 > Len(v))
      BY ONLY <1>1, <2>3
    <3> QED BY ONLY <2>3, <2>4, <2>6, <3>1, <3>2 DEF DecodeDNN
  <2>8. Len(v) < 256
    BY ONLY <1>1, <2>3
  <2> QED BY ONLY <2>3, <2>4, <2>5, <2>7, <2>8
<1> QED BY ONLY <1>3, <1>4

\* A request for a session is read as it was written.
LEMMA SessionRequestRead ==
  ASSUME NEW dnn \in Dnns, NEW sm, sm = BuildPDUSessionEstablishmentRequest(SessionRequest(dnn))
  PROVE  /\ sm \in Seq(Nat) /\ Len(sm) < 256 * 256
         /\ AmfReadsSession(sm) = SessionRequest(dnn)
<1>1. PICK h, v, f, w : /\ h = <<SM, 1, 1, PDUSessionEstablishmentRequest, 17>>
                        /\ v = DnnValue(dnn) /\ f = h \o DnnElement(dnn) /\ w = <<1, 1>>
  OBVIOUS
<1>2. /\ v = Absent \/ (v \in Seq(Nat) /\ Len(v) < 256)
      /\ \A front : front \o DnnElement(dnn) = WithOptional(front, 37, v)
      /\ DecodeDNN(v) = dnn
  BY ONLY <1>1, dnn \in Dnns, ReadDNN
<1>3. sm = WithElement(f, 34, w)
  <2>1. PICK m : m = SessionRequest(dnn)
    OBVIOUS
  <2>2. m.id = 1 /\ m.dnn = dnn
    BY ONLY <2>1 DEF SessionRequest
  <2>3. BuildPDUSessionEstablishmentRequest(m) =
          ((<<SM, m.id, 1, PDUSessionEstablishmentRequest, 17>> \o DnnElement(m.dnn)) \o <<34>>)
            \o Prefixed(<<1, 1>>)
    BY ONLY SMT DEF BuildPDUSessionEstablishmentRequest
  <2> QED BY ONLY <1>1, <2>1, <2>2, <2>3,
                  sm = BuildPDUSessionEstablishmentRequest(SessionRequest(dnn)) DEF WithElement
<1>4. /\ h \in Seq(Nat) /\ Len(h) = 5 /\ h[2] = 1 /\ h[4] = PDUSessionEstablishmentRequest
      /\ w \in Seq(Nat) /\ Len(w) = 2 /\ Len(w) < 256
  BY ONLY <1>1 DEF SM, PDUSessionEstablishmentRequest
<1>5. /\ f \in Seq(Nat) /\ Len(f) \in Nat /\ Len(f) >= Len(h)
      /\ Len(f) = Len(h) + (IF v = Absent THEN 0 ELSE Len(v) + 2)
      /\ Holds(f, 1, h) /\ OptionalAt(f, Len(h) + 1, 37, v, Len(f) + 1)
  <2>1. f = WithOptional(h, 37, v)
    BY ONLY <1>1, <1>2
  <2>2. 37 \in Nat
    OBVIOUS
  <2>3. h \in Seq(Nat) /\ (v = Absent \/ (v \in Seq(Nat) /\ Len(v) < 256))
    BY ONLY <1>2, <1>4
  <2> QED BY ONLY <2>1, <2>2, <2>3, AppendedOptional
<1>6. /\ sm \in Seq(Nat) /\ Len(sm) = Len(f) + 2 + Len(w)
      /\ Holds(sm, 1, f) /\ OptionalAt(sm, Len(f) + 1, 34, w, Len(sm) + 1)
  <2>1. 34 \in Nat
    OBVIOUS
  <2>2. f \in Seq(Nat) /\ w \in Seq(Nat) /\ Len(w) < 256
    BY ONLY <1>4, <1>5
  <2>3. PICK i : i = 34
    OBVIOUS
  <2>4. i \in Nat /\ sm = WithElement(f, i, w)
    BY ONLY <1>3, <2>1, <2>3
  <2>5. /\ sm \in Seq(Nat) /\ Len(sm) = Len(f) + 2 + Len(w)
        /\ Holds(sm, 1, f) /\ OptionalAt(sm, Len(f) + 1, i, w, Len(sm) + 1)
    BY ONLY <2>2, <2>4, Appended
  <2> QED BY ONLY <2>3, <2>5
<1>7. Len(sm) < 256 * 256 /\ ~(Len(sm) < 5) /\ ~(Len(sm) < 4)
  <2>1. Len(f) < 1000
    <3>1. CASE v = Absent
      BY ONLY <1>4, <1>5, <3>1
    <3>2. CASE v # Absent
      BY ONLY <1>2, <1>4, <1>5, <3>2
    <3> QED BY ONLY <3>1, <3>2
  <2>2. Len(h) = 5 /\ Len(w) = 2 /\ Len(f) \in Nat /\ Len(f) >= Len(h)
    BY ONLY <1>4, <1>5
  <2>3. Len(sm) = Len(f) + 2 + Len(w)
    BY ONLY <1>6
  <2> QED BY ONLY <2>1, <2>2, <2>3
<1>8. sm[2] = 1 /\ sm[4] = PDUSessionEstablishmentRequest
  <2>1. Holds(sm, 1, h) /\ 1 \in Nat \ {0}
    BY ONLY <1>4, <1>5, <1>6, HoldsInFront
  <2>2. 2 \in 1..Len(h) /\ 4 \in 1..Len(h) /\ 1 + 2 - 1 = 2 /\ 1 + 4 - 1 = 4
    BY ONLY <1>4
  <2>3. \A k \in 1..Len(h) : sm[1 + k - 1] = h[k]
    BY ONLY <2>1 DEF Holds
  <2>4. sm[1 + 2 - 1] = h[2] /\ sm[1 + 4 - 1] = h[4]
    BY ONLY <2>2, <2>3
  <2> QED BY ONLY <1>4, <2>2, <2>4
<1>9. Value(Elements(sm, 6), 37, 0) = v
  <2>1. Tells(sm, Len(sm) + 1, 37, Absent)
    BY ONLY <1>6, TellsAtEnd
  <2>2. Tells(sm, Len(f) + 1, 37, Absent)
    <3>1. 34 # 37
      OBVIOUS
    <3> QED BY ONLY <1>6, <2>1, <3>1, TellsPassed
  <2>3. OptionalAt(sm, Len(h) + 1, 37, v, Len(f) + 1)
    BY ONLY <1>5, <1>6, OptionalInFront
  <2>4. Tells(sm, Len(h) + 1, 37, v)
    BY ONLY <2>2, <2>3, TellsHere
  <2>5. 0 \in Nat /\ (v = Absent \/ 0 <= Len(v)) /\ Len(h) + 1 = 6
    BY ONLY <1>2, <1>4, LenProperties
  <2> QED BY ONLY <2>4, <2>5, ValueTold
<1>10. DecodePDUSessionEstablishmentRequest(sm) = SessionRequest(dnn)
  BY ONLY <1>2, <1>7, <1>8, <1>9 DEF DecodePDUSessionEstablishmentRequest, SessionRequest
<1>11. AmfReadsSession(sm) = DecodePDUSessionEstablishmentRequest(sm)
  BY ONLY <1>7, <1>8 DEF AmfReadsSession
<1> QED BY ONLY <1>6, <1>7, <1>10, <1>11

\* The messages with the end of a tunnel.
LEMMA TunnelEndFacts ==
  ASSUME NEW kind, NEW m \in TunnelEnds(kind)
  PROVE  m.kind = kind /\ \E ip \in Addresses, teid \in Teids : m = TunnelEnd(kind, ip, teid)
<1>1. PICK ip \in Addresses, teid \in Teids : m = TunnelEnd(kind, ip, teid)
  BY ONLY m \in TunnelEnds(kind), SMT DEF TunnelEnds
<1>2. TunnelEnd(kind, ip, teid).kind = kind
  BY ONLY SMT DEF TunnelEnd
<1> QED BY ONLY <1>1, <1>2

\* routeNASMessage gets of each NAS message the UE builds what was put in: identity,
\* slices and name, in an SM message in a transport for a session.
THEOREM UplinkNasRead ==
  ASSUME NEW m \in UplinkMessages, m.kind # "downlink tunnel"
  PROVE  AmfReads(UplinkNas(m)) = m
<1>1. \/ \E supi \in Supis : m = Request(supi)
      \/ m = Complete
      \/ \E dnn \in Dnns : m = SessionRequest(dnn)
  <2>1. m \notin TunnelEnds("downlink tunnel")
    BY ONLY m.kind # "downlink tunnel", TunnelEndFacts
  <2> QED BY ONLY <2>1, m \in UplinkMessages DEF UplinkMessages
<1>2. ASSUME NEW supi \in Supis, m = Request(supi) PROVE AmfReads(UplinkNas(m)) = m
  <2>1. m.kind = "registration request"
    BY ONLY <1>2 DEF Request
  <2>2. UplinkNas(m) = BuildRegistrationRequest(m)
    BY ONLY <2>1 DEF UplinkNas
  <2>3. AmfReads(BuildRegistrationRequest(Request(supi))) = Request(supi)
    BY ONLY supi \in Supis, RequestRead
  <2> QED BY ONLY <1>2, <2>2, <2>3
<1>3. CASE m = Complete
  <2>1. UplinkNas(m) = <<MM, 0, RegistrationComplete>>
    BY ONLY <1>3 DEF Complete, UplinkNas, BuildRegistrationComplete
  <2>2. PICK nas : nas = <<MM, 0, RegistrationComplete>>
    OBVIOUS
  <2>3. Len(nas) = 3 /\ nas[3] = RegistrationComplete
    BY ONLY <2>2
  <2>4. ~(Len(nas) < 3)
    BY ONLY <2>3
  <2>5. AmfReads(nas) = Complete
    BY ONLY <2>3, <2>4 DEF Complete, AmfReads, RegistrationRequest, RegistrationComplete,
                           ULNASTransport
  <2> QED BY ONLY <1>3, <2>1, <2>2, <2>5
<1>4. ASSUME NEW dnn \in Dnns, m = SessionRequest(dnn) PROVE AmfReads(UplinkNas(m)) = m
  <2>1. PICK sm : sm = BuildPDUSessionEstablishmentRequest(SessionRequest(dnn))
    OBVIOUS
  <2>2. /\ sm \in Seq(Nat) /\ Len(sm) < 256 * 256
        /\ AmfReadsSession(sm) = SessionRequest(dnn)
    BY ONLY <2>1, dnn \in Dnns, SessionRequestRead
  <2>3. m.kind = "session request" /\ m.id = 1
    BY ONLY <1>4 DEF SessionRequest
  <2>4. PICK nas : nas = Transport(ULNASTransport, 1, sm)
    OBVIOUS
  <2>5. UplinkNas(m) = nas
    BY ONLY <1>4, <2>1, <2>3, <2>4 DEF UplinkNas, BuildULNASTransportMM
  <2>6. nas \in Seq(Nat) /\ Len(nas) >= 3 /\ nas[3] = ULNASTransport /\ Container(nas) = sm
    <3>1. PICK type, id : type = ULNASTransport /\ id = 1
      OBVIOUS
    <3>2. type \in Nat /\ id \in Nat
      BY ONLY <3>1 DEF ULNASTransport
    <3>3. nas = Transport(type, id, sm)
      BY ONLY <2>4, <3>1
    <3>4. nas \in Seq(Nat) /\ Len(nas) >= 3 /\ nas[3] = type /\ Container(nas) = sm
      BY ONLY <2>2, <3>2, <3>3, ReadContainer
    <3> QED BY ONLY <3>1, <3>4
  <2>7. ~(Len(nas) < 3)
    BY ONLY <2>6, LenProperties
  <2>8. AmfReads(nas) = AmfReadsSession(Container(nas))
    BY ONLY <2>6, <2>7 DEF AmfReads, RegistrationRequest, RegistrationComplete, ULNASTransport
  <2> QED BY ONLY <1>4, <2>2, <2>5, <2>6, <2>8
<1> QED BY ONLY <1>1, <1>2, <1>3, <1>4

----------------------------------------------------------------------------
(* Downlink.                                                               *)

\* The slices of an accept, as the value of an element, or that there is none.
SlicesValue(slices) == IF slices = <<>> THEN Absent ELSE EncodeNSSAI(slices)

\* The slices of an accept, with and without any.
LEMMA ReadSlices ==
  ASSUME NEW slices \in Slices, NEW v, v = SlicesValue(slices)
  PROVE  /\ v = Absent \/ (v \in Seq(Nat) /\ Len(v) < 256)
         /\ DecodeNSSAI(v) = slices
         /\ slices = <<>> <=> v = Absent
<1>1. slices \in Seq([sst : 0..255, sd : 1..NotSet]) /\ Len(EncodeNSSAI(slices)) < 256
  <2>1. \A s \in Slices : s \in Seq([sst : 0..255, sd : 1..NotSet]) /\ Len(EncodeNSSAI(s)) < 256
    BY ONLY MessageAssumption, Zenon
  <2> QED BY ONLY <2>1, slices \in Slices, Zenon
<1>2. CASE slices = <<>>
  <2>1. v = Absent
    BY ONLY <1>2, v = SlicesValue(slices) DEF SlicesValue
  <2>2. DecodeNSSAI(v) = <<>>
    BY ONLY <2>1 DEF DecodeNSSAI
  <2> QED BY ONLY <1>2, <2>1, <2>2
<1>3. CASE slices # <<>>
  <2>1. v = EncodeNSSAI(slices)
    BY ONLY <1>3, v = SlicesValue(slices) DEF SlicesValue
  <2>2. EncodeNSSAI(slices) \in Seq(Nat) /\ DecodeNSSAI(EncodeNSSAI(slices)) = slices
    BY ONLY <1>1, <1>3, ReadNSSAI
  <2>3. v # Absent
    BY ONLY <2>1, <2>2, NotAbsent
  <2> QED BY ONLY <1>1, <1>3, <2>1, <2>2, <2>3
<1> QED BY ONLY <1>2, <1>3

\* An accept is read as it was written.
LEMMA AcceptRead ==
  ASSUME NEW c \in AmfConfigs, NEW tmsi \in Tmsis, NEW slices \in Slices
  PROVE  UeReads(BuildRegistrationAccept(Accept(c, tmsi, slices))) = Accept(c, tmsi, slices)
<1>1. PICK h, u, v, t : /\ h = <<MM, 0, RegistrationAccept, 1>> /\ u = EncodeGUTI(Guti(c, tmsi))
                        /\ v = SlicesValue(slices) /\ t = <<45>>
  OBVIOUS
<1>2. PICK i, j, k : i = 119 /\ j = 21 /\ k = 94
  OBVIOUS
<1>3. PICK f1, f2, nas : f1 = WithElement(h, i, u) /\ f2 = WithOptional(f1, j, v)
                         /\ nas = WithElement(f2, k, t)
  OBVIOUS
<1>4. BuildRegistrationAccept(Accept(c, tmsi, slices)) = nas
  <2>1. PICK m : m = Accept(c, tmsi, slices)
    OBVIOUS
  <2>2. m.result = 1 /\ m.guti = Guti(c, tmsi) /\ m.slices = slices
    BY ONLY <2>1 DEF Accept
  <2>3. BuildRegistrationAccept(m) =
          WithElement(WithElement(<<MM, 0, RegistrationAccept, m.result>>, 119, EncodeGUTI(m.guti))
                        \o (IF m.slices = <<>> THEN <<>>
                            ELSE <<21>> \o Prefixed(EncodeNSSAI(m.slices))), 94, <<45>>)
    BY ONLY SMT DEF BuildRegistrationAccept, WithElement
  <2>4. (IF slices = <<>> THEN <<>> ELSE <<21>> \o Prefixed(EncodeNSSAI(slices)))
          = (IF v = Absent THEN <<>> ELSE InOctets(21, v))
    <3>1. slices = <<>> <=> v = Absent
      BY ONLY <1>1, slices \in Slices, ReadSlices
    <3>2. slices # <<>> => v = EncodeNSSAI(slices)
      BY ONLY <1>1 DEF SlicesValue
    <3> QED BY ONLY <3>1, <3>2 DEF InOctets
  <2> QED BY ONLY <1>1, <1>2, <1>3, <2>1, <2>2, <2>3, <2>4 DEF WithOptional
<1>5. /\ h \in Seq(Nat) /\ Len(h) = 4 /\ h[3] = RegistrationAccept /\ h[4] = 1
      /\ t \in Seq(Nat) /\ Len(t) = 1 /\ Len(t) < 256
  BY ONLY <1>1 DEF MM, RegistrationAccept
<1>6. i \in Nat /\ j \in Nat /\ k \in Nat /\ i # j /\ i # k /\ j # k
  BY ONLY <1>2
<1>7. u \in Seq(Nat) /\ Len(u) = 11 /\ Len(u) < 256 /\ DecodeGUTI(u) = Guti(c, tmsi)
  <2>1. /\ DecodeGUTI(EncodeGUTI(Guti(c, tmsi))) = Guti(c, tmsi)
        /\ EncodeGUTI(Guti(c, tmsi)) \in Seq(Nat) /\ Len(EncodeGUTI(Guti(c, tmsi))) = 11
    BY ONLY c \in AmfConfigs, tmsi \in Tmsis, ReadGUTI
  <2> QED BY ONLY <1>1, <2>1
<1>8. (v = Absent \/ (v \in Seq(Nat) /\ Len(v) < 256)) /\ DecodeNSSAI(v) = slices
  BY ONLY <1>1, slices \in Slices, ReadSlices
<1>9. /\ f1 \in Seq(Nat) /\ Len(f1) = Len(h) + 2 + Len(u)
      /\ Holds(f1, 1, h) /\ OptionalAt(f1, Len(h) + 1, i, u, Len(f1) + 1)
  <2>1. h \in Seq(Nat) /\ u \in Seq(Nat) /\ Len(u) < 256 /\ i \in Nat /\ f1 = WithElement(h, i, u)
    BY ONLY <1>3, <1>5, <1>6, <1>7
  <2> QED BY ONLY <2>1, Appended
<1>10. /\ f2 \in Seq(Nat) /\ Len(f2) \in Nat /\ Len(f2) >= Len(f1)
       /\ Holds(f2, 1, f1) /\ OptionalAt(f2, Len(f1) + 1, j, v, Len(f2) + 1)
  BY ONLY <1>3, <1>6, <1>8, <1>9, AppendedOptional
<1>11. /\ nas \in Seq(Nat) /\ Len(nas) = Len(f2) + 2 + Len(t)
       /\ Holds(nas, 1, f2) /\ OptionalAt(nas, Len(f2) + 1, k, t, Len(nas) + 1)
  <2>1. /\ f2 \in Seq(Nat) /\ t \in Seq(Nat) /\ Len(t) < 256 /\ k \in Nat
        /\ nas = WithElement(f2, k, t)
    BY ONLY <1>3, <1>5, <1>6, <1>10
  <2> QED BY ONLY <2>1, Appended
<1>12. Holds(nas, 1, f1) /\ Holds(nas, 1, h)
  <2>1. 1 \in Nat \ {0}
    OBVIOUS
  <2>2. Holds(nas, 1, f1)
    BY ONLY <1>9, <1>10, <1>11, <2>1, HoldsInFront
  <2> QED BY ONLY <1>5, <1>9, <1>11, <2>1, <2>2, HoldsInFront
<1>13. OptionalAt(nas, Len(h) + 1, i, u, Len(f1) + 1)
  BY ONLY <1>9, <1>11, <1>12, OptionalInFront
<1>14. OptionalAt(nas, Len(f1) + 1, j, v, Len(f2) + 1)
  BY ONLY <1>10, <1>11, OptionalInFront
<1>15. PICK p, a, b, d : /\ p = SubSeq(nas, 4, Len(nas)) /\ a = Len(f1) - 2 /\ b = Len(f2) - 2
                         /\ d = Len(nas) - 2
  OBVIOUS
<1>16. /\ Len(f1) = 17 /\ a \in Nat \ {0} /\ b \in Nat \ {0} /\ d \in Nat /\ 2 \in Nat \ {0}
       /\ Len(h) + 1 = 2 + 3 /\ Len(f1) + 1 = a + 3 /\ Len(f2) + 1 = b + 3
       /\ Len(nas) + 1 = d + 3 /\ Len(nas) >= 3
  <2>1. Len(h) = 4 /\ Len(t) = 1 /\ Len(u) = 11 /\ Len(f1) = Len(h) + 2 + Len(u)
    BY ONLY <1>5, <1>7, <1>9
  <2>2. /\ Len(f2) \in Nat /\ Len(f2) >= Len(f1) /\ Len(nas) = Len(f2) + 2 + Len(t)
        /\ a = Len(f1) - 2 /\ b = Len(f2) - 2 /\ d = Len(nas) - 2
    BY ONLY <1>10, <1>11, <1>15
  <2>3. PICK n1, n2, n : n1 = Len(f1) /\ n2 = Len(f2) /\ n = Len(nas)
    OBVIOUS
  <2>4. /\ n1 = 17 /\ n2 \in Nat /\ n2 >= n1 /\ n = n2 + 3
        /\ a = n1 - 2 /\ b = n2 - 2 /\ d = n - 2
    BY ONLY <2>1, <2>2, <2>3
  <2>5. /\ a \in Nat \ {0} /\ b \in Nat \ {0} /\ d \in Nat /\ 2 \in Nat \ {0}
        /\ n1 + 1 = a + 3 /\ n2 + 1 = b + 3 /\ n + 1 = d + 3 /\ n >= 3
    BY ONLY <2>4
  <2>6. Len(h) + 1 = 2 + 3
    BY ONLY <2>1
  <2> QED BY ONLY <2>3, <2>4, <2>5, <2>6
<1>17. /\ p \in Seq(Nat) /\ Len(p) + 1 = d /\ Len(p) >= 1 /\ p[1] = 1
  <2>1. /\ p \in Seq(Nat) /\ Len(p) = Len(nas) - 3
        /\ \A n \in 1..(Len(nas) - 3) : p[n] = nas[n + 3]
    BY ONLY <1>11, <1>15, <1>16, PayloadOf
  <2>2. Len(p) + 1 = d /\ Len(p) >= 1 /\ 1 \in 1..(Len(nas) - 3) /\ 1 + 3 = 4
    BY ONLY <1>10, <1>11, <1>15, <1>16, <2>1, <1>5
  <2>3. \A n \in 1..Len(h) : nas[1 + n - 1] = h[n]
    BY ONLY <1>12 DEF Holds
  <2>4. nas[1 + 4 - 1] = h[4] /\ 1 + 4 - 1 = 4
    BY ONLY <1>5, <2>3
  <2>5. p[1] = nas[1 + 3]
    BY ONLY <2>1, <2>2
  <2> QED BY ONLY <1>5, <2>1, <2>2, <2>4, <2>5
<1>18. /\ OptionalAt(p, 2, i, u, a) /\ OptionalAt(p, a, j, v, b) /\ OptionalAt(p, b, k, t, d)
  <2>1. OptionalAt(nas, 2 + 3, i, u, a + 3) /\ a \in Nat
    BY ONLY <1>13, <1>16
  <2>2. OptionalAt(nas, a + 3, j, v, b + 3) /\ b \in Nat
    BY ONLY <1>14, <1>16
  <2>3. OptionalAt(nas, b + 3, k, t, d + 3)
    BY ONLY <1>11, <1>16
  <2>4. OptionalAt(p, 2, i, u, a)
    BY ONLY <1>11, <1>15, <1>16, <2>1, OptionalBehind
  <2>5. OptionalAt(p, a, j, v, b)
    BY ONLY <1>11, <1>15, <1>16, <2>2, OptionalBehind
  <2>6. OptionalAt(p, b, k, t, d)
    BY ONLY <1>11, <1>15, <1>16, <2>3, OptionalBehind
  <2> QED BY ONLY <2>4, <2>5, <2>6
<1>19. Tells(p, d, i, Absent) /\ Tells(p, d, j, Absent) /\ Tells(p, d, k, Absent)
  BY ONLY <1>17, TellsAtEnd
<1>20. Value(Elements(p, 2), 119, 0) = u
  <2>1. Tells(p, b, i, Absent)
    BY ONLY <1>6, <1>18, <1>19, TellsPassed
  <2>2. Tells(p, a, i, Absent)
    BY ONLY <1>6, <1>18, <2>1, TellsPassed
  <2>3. Tells(p, 2, i, u)
    BY ONLY <1>18, <2>2, TellsHere
  <2>4. 0 \in Nat /\ 0 <= Len(u)
    BY ONLY <1>7
  <2>5. Value(Elements(p, 2), i, 0) = u
    BY ONLY <2>3, <2>4, ValueTold
  <2> QED BY ONLY <1>2, <2>5
<1>21. Value(Elements(p, 2), 21, 0) = v
  <2>1. Tells(p, b, j, Absent)
    BY ONLY <1>6, <1>18, <1>19, TellsPassed
  <2>2. Tells(p, a, j, v)
    BY ONLY <1>18, <2>1, TellsHere
  <2>3. Tells(p, 2, j, v)
    BY ONLY <1>6, <1>18, <2>2, TellsPassed
  <2>4. 0 \in Nat /\ (v = Absent \/ 0 <= Len(v))
    BY ONLY <1>8, LenProperties
  <2>5. Value(Elements(p, 2), j, 0) = v
    BY ONLY <2>3, <2>4, ValueTold
  <2> QED BY ONLY <1>2, <2>5
<1>22. Value(Elements(p, 2), 94, 1) = t
  <2>1. Tells(p, b, k, t)
    BY ONLY <1>18, <1>19, TellsHere
  <2>2. Tells(p, a, k, t)
    BY ONLY <1>6, <1>18, <2>1, TellsPassed
  <2>3. Tells(p, 2, k, t)
    BY ONLY <1>6, <1>18, <2>2, TellsPassed
  <2>4. 1 \in Nat /\ 1 <= Len(t)
    BY ONLY <1>5
  <2>5. Value(Elements(p, 2), k, 1) = t
    BY ONLY <2>3, <2>4, ValueTold
  <2> QED BY ONLY <1>2, <2>5
<1>23. DecodeRegistrationAccept(p) = Accept(c, tmsi, slices)
  <2>1. p # <<>>
    <3>1. Len(<<>>) = 0
      OBVIOUS
    <3> QED BY ONLY <1>17, <3>1
  <2>2. 1 % 8 = 1
    BY ONLY SMT
  <2>3. DecodeRegistrationAccept(p) =
          [kind |-> "registration accept", result |-> p[1] % 8,
           guti |-> DecodeGUTI(Value(Elements(p, 2), 119, 0)),
           slices |-> DecodeNSSAI(Value(Elements(p, 2), 21, 0)),
           t3512 |-> Value(Elements(p, 2), 94, 1)]
    BY ONLY <2>1 DEF DecodeRegistrationAccept
  <2> QED BY ONLY <1>1, <1>7, <1>8, <1>17, <1>20, <1>21, <1>22, <2>2, <2>3 DEF Accept
<1>24. UeReads(nas) = DecodeRegistrationAccept(p)
  <2>1. ~(Len(nas) < 3)
    BY ONLY <1>16
  <2>2. nas[3] = RegistrationAccept
    <3>1. \A n \in 1..Len(h) : nas[1 + n - 1] = h[n]
      BY ONLY <1>12 DEF Holds
    <3>2. nas[1 + 3 - 1] = h[3] /\ 1 + 3 - 1 = 3
      BY ONLY <1>5, <3>1
    <3> QED BY ONLY <1>5, <3>2
  <2> QED BY ONLY <1>15, <2>1, <2>2 DEF UeReads, RegistrationAccept, DLNASTransport
<1> QED BY ONLY <1>4, <1>23, <1>24

\* An address, as the value of an element behind the type of the session, or that
\* there is none.
AddressValue(ip) == IF ip = Absent THEN Absent ELSE <<1>> \o ip

\* An address is read as it was written, or there is none.
LEMMA ReadAddress ==
  ASSUME NEW ip \in Addresses \cup {Absent}, NEW v, v = AddressValue(ip)
  PROVE  /\ v = Absent \/ (v \in Seq(Nat) /\ Len(v) = 5 /\ v[1] = 1)
         /\ ip = Absent <=> v = Absent
         /\ v # Absent => SubSeq(v, 2, 5) = ip /\ v = <<1>> \o ip
<1>1. CASE ip = Absent
  BY ONLY <1>1, v = AddressValue(ip) DEF AddressValue
<1>2. CASE ip # Absent
  <2>1. v = <<1>> \o ip
    BY ONLY <1>2, v = AddressValue(ip) DEF AddressValue
  <2>2. ip \in Seq(0..255) /\ Len(ip) = 4
    <3>1. \A a \in Addresses : a \in Seq(0..255) /\ Len(a) = 4
      BY ONLY MessageAssumption, Zenon
    <3> QED BY ONLY <1>2, <3>1, ip \in Addresses \cup {Absent}
  <2>3. ip \in Seq(Nat)
    BY ONLY <2>2, OctetsAreNumbers
  <2>4. PICK f : f = <<1>>
    OBVIOUS
  <2>5. f \in Seq(Nat) /\ Len(f) = 1 /\ f[1] = 1
    BY ONLY <2>4
  <2>6. v = f \o ip
    BY ONLY <2>1, <2>4
  <2>7. /\ v \in Seq(Nat) /\ Len(v) = Len(f) + Len(ip)
        /\ Holds(v, 1, f) /\ Holds(v, Len(f) + 1, ip)
    BY ONLY <2>3, <2>5, <2>6, AppendedPiece
  <2>8. Len(v) = 5 /\ Len(f) + 1 = 2 /\ 2 + Len(ip) - 1 = 5 /\ 2 \in Nat \ {0}
    BY ONLY <2>2, <2>5, <2>7
  <2>9. v[1] = 1
    <3>1. \A k \in 1..Len(f) : v[1 + k - 1] = f[k]
      BY ONLY <2>7 DEF Holds
    <3>2. v[1 + 1 - 1] = f[1] /\ 1 + 1 - 1 = 1
      BY ONLY <2>5, <3>1
    <3> QED BY ONLY <2>5, <3>2
  <2>10. SubSeq(v, 2, 5) = ip
    <3>1. SubSeq(v, 2, 2 + Len(ip) - 1) = ip
      BY ONLY <2>3, <2>7, <2>8, HoldsPart
    <3> QED BY ONLY <2>8, <3>1
  <2>11. v # Absent
    BY ONLY <2>7, NotAbsent
  <2> QED BY ONLY <1>2, <2>1, <2>7, <2>8, <2>9, <2>10, <2>11
<1> QED BY ONLY <1>1, <1>2

\* The address the UE takes of the elements.
LEMMA AddressTold ==
  ASSUME NEW data, NEW o, NEW v, Tells(data, o, 41, v),
         v = Absent \/ (v \in Seq(Nat) /\ Len(v) = 5 /\ v[1] = 1),
         NEW s, s = Elements(data, o),
         NEW found, found = {k \in DOMAIN s : s[k].iei = 41 /\ Len(s[k].value) >= 5
                                                /\ s[k].value[1] = 1}
  PROVE  (IF found = {} THEN Absent ELSE SubSeq(s[Max(found)].value, 2, 5))
           = (IF v = Absent THEN Absent ELSE SubSeq(v, 2, 5))
<1>1. CASE v = Absent
  <2>1. Lacks(data, o, 41)
    BY ONLY <1>1, Tells(data, o, 41, v) DEF Tells
  <2>2. s \in Seq(Element) /\ \A k \in 1..Len(s) : s[k].iei # 41
    BY ONLY <2>1, s = Elements(data, o) DEF Lacks
  <2>3. DOMAIN s = 1..Len(s)
    BY ONLY <2>2, LenProperties
  <2>4. found = {}
    <3>1. ASSUME NEW k \in found PROVE FALSE
      <4>1. k \in DOMAIN s /\ s[k].iei = 41
        BY ONLY k \in found, found = {n \in DOMAIN s : s[n].iei = 41 /\ Len(s[n].value) >= 5
                                                /\ s[n].value[1] = 1}
      <4> QED BY ONLY <2>2, <2>3, <4>1
    <3> QED BY ONLY <3>1
  <2> QED BY ONLY <1>1, <2>4
<1>2. CASE v # Absent
  <2>1. v \in Seq(Nat) /\ Len(v) = 5 /\ v[1] = 1 /\ Gives(data, o, 41, v)
    BY ONLY <1>2, Tells(data, o, 41, v),
            v = Absent \/ (v \in Seq(Nat) /\ Len(v) = 5 /\ v[1] = 1) DEF Tells
  <2>2. PICK k \in 1..Len(s) : At(s, 41, v, k)
    BY ONLY <2>1, s = Elements(data, o) DEF Gives
  <2>3. s \in Seq(Element)
    BY ONLY <2>1, s = Elements(data, o) DEF Gives
  <2>4. DOMAIN s = 1..Len(s) /\ Len(s) \in Nat
    BY ONLY <2>3, LenProperties
  <2>5. s[k].iei = 41 /\ s[k].value = v /\ \A j \in 1..Len(s) : s[j].iei = 41 => j = k
    BY ONLY <2>2 DEF At
  <2>6. \A n : n \in found <=> (n \in DOMAIN s /\ s[n].iei = 41 /\ Len(s[n].value) >= 5
                                  /\ s[n].value[1] = 1)
    BY ONLY found = {n \in DOMAIN s : s[n].iei = 41 /\ Len(s[n].value) >= 5
                                                /\ s[n].value[1] = 1}
  <2>7. k \in found
    <3>1. PICK w : w = s[k].value
      OBVIOUS
    <3>2. Len(w) >= 5 /\ w[1] = 1
      <4>1. w = v
        BY ONLY <2>5, <3>1
      <4>2. Len(v) = 5 /\ v[1] = 1
        BY ONLY <2>1
      <4>3. w[1] = 1
        BY ONLY <4>1, <4>2
      <4>4. Len(w) = 5
        BY ONLY <4>1, <4>2
      <4> QED BY ONLY <4>3, <4>4
    <3>3. Len(s[k].value) >= 5 /\ s[k].value[1] = 1
      BY ONLY <3>1, <3>2
    <3> QED BY ONLY <2>4, <2>5, <2>6, <3>3
  <2>8. \A n \in found : n = k
    BY ONLY <2>4, <2>5, <2>6
  <2>9. found = {k}
    BY ONLY <2>7, <2>8
  <2>10. Max(found) = k
    BY ONLY <2>4, <2>9, k \in 1..Len(s), MaxOfOne
  <2> QED BY ONLY <1>2, <2>5, <2>7, <2>10
<1> QED BY ONLY <1>1, <1>2

\* The UE reads the address of an accept.
LEMMA AddressRead ==
  ASSUME NEW data, NEW o, NEW ip \in Addresses \cup {Absent}, NEW i, i = 41,
         NEW v, v = AddressValue(ip), Tells(data, o, i, v), NEW s, s = Elements(data, o)
  PROVE  Address(s) = ip
<1>1. /\ v = Absent \/ (v \in Seq(Nat) /\ Len(v) = 5 /\ v[1] = 1)
      /\ ip = Absent <=> v = Absent
      /\ v # Absent => SubSeq(v, 2, 5) = ip
  BY ONLY ip \in Addresses \cup {Absent}, v = AddressValue(ip), ReadAddress
<1>2. Tells(data, o, 41, v)
  BY ONLY Tells(data, o, i, v), i = 41
<1>3. PICK found : found = {k \in DOMAIN s : s[k].iei = 41 /\ Len(s[k].value) >= 5
                                                /\ s[k].value[1] = 1}
  OBVIOUS
<1>4. (IF found = {} THEN Absent ELSE SubSeq(s[Max(found)].value, 2, 5))
        = (IF v = Absent THEN Absent ELSE SubSeq(v, 2, 5))
  <2>1. v = Absent \/ (v \in Seq(Nat) /\ Len(v) = 5 /\ v[1] = 1)
    BY ONLY <1>1
  <2> QED BY ONLY <1>2, <1>3, <2>1, s = Elements(data, o), AddressTold
<1>5. Address(s) = (IF found = {} THEN Absent ELSE SubSeq(s[Max(found)].value, 2, 5))
  BY ONLY <1>3 DEF Address
<1> QED BY ONLY <1>1, <1>4, <1>5

\* A tunnel's identifier, as the value of an element, or that there is none.
TeidValue(teid) == IF teid = 0 THEN Absent ELSE BigEndian(teid, 4)

\* A tunnel's identifier is read as it was written.
LEMMA ReadTeid ==
  ASSUME NEW teid \in Teids
  PROVE  /\ BigEndian(teid, 4) \in Seq(Nat) /\ Len(BigEndian(teid, 4)) = 4
         /\ Number(BigEndian(teid, 4)) = teid
<1>1. teid \in Numbers32 /\ teid \in Nat
  BY ONLY MessageAssumption, teid \in Teids DEF Numbers32
<1>2. PICK s : s = BigEndian(teid, 4)
  OBVIOUS
<1>3. s \in Seq(Nat) /\ Len(s) = 4
  BY ONLY <1>1, <1>2, FourBytesSeq
<1>4. \A i \in 1..4 : s[i] = BigEndian(teid, 4)[i]
  BY ONLY <1>2
<1>5. Number(s) = teid
  BY ONLY <1>1, <1>3, <1>4, ReadFour
<1> QED BY ONLY <1>2, <1>3, <1>5

\* And in its element, which is left out for 0.
LEMMA TeidValueRead ==
  ASSUME NEW teid \in Teids, NEW v, v = TeidValue(teid)
  PROVE  /\ v = Absent \/ (v \in Seq(Nat) /\ Len(v) = 4)
         /\ (IF v = Absent THEN 0 ELSE Number(SubSeq(v, 1, 4))) = teid
<1>1. CASE teid = 0
  BY ONLY <1>1, v = TeidValue(teid) DEF TeidValue
<1>2. CASE teid # 0
  <2>1. v = BigEndian(teid, 4)
    BY ONLY <1>2, v = TeidValue(teid) DEF TeidValue
  <2>2. v \in Seq(Nat) /\ Len(v) = 4 /\ Number(v) = teid
    BY ONLY <2>1, teid \in Teids, ReadTeid
  <2>3. v # Absent
    BY ONLY <2>2, NotAbsent
  <2>4. SubSeq(v, 1, Len(v)) = v
    BY ONLY <2>2, SubSeqFull
  <2> QED BY ONLY <2>2, <2>3, <2>4
<1> QED BY ONLY <1>1, <1>2

\* AppendDownlinkTEID appends that element.
LEMMA AppendedTeid ==
  ASSUME NEW msg \in Seq(Nat), NEW teid \in Teids, NEW sm, sm = AppendDownlinkTEID(msg, teid),
         NEW v, v = TeidValue(teid), NEW i, i = 120
  PROVE  /\ sm \in Seq(Nat) /\ Len(sm) \in Nat /\ Len(sm) >= Len(msg) /\ Len(sm) <= Len(msg) + 6
         /\ Holds(sm, 1, msg) /\ OptionalAt(sm, Len(msg) + 1, i, v, Len(sm) + 1)
<1>1. Len(msg) \in Nat
  BY LenProperties
<1>2. CASE teid = 0
  <2>1. sm = msg
    BY ONLY <1>2, sm = AppendDownlinkTEID(msg, teid) DEF AppendDownlinkTEID
  <2>2. v = Absent
    BY ONLY <1>2, v = TeidValue(teid) DEF TeidValue
  <2>3. Holds(sm, 1, msg)
    BY ONLY <2>1, msg \in Seq(Nat), HoldsAll
  <2>4. OptionalAt(sm, Len(msg) + 1, i, v, Len(sm) + 1)
    BY ONLY <2>1, <2>2 DEF OptionalAt
  <2> QED BY ONLY <1>1, <2>1, <2>3, <2>4, msg \in Seq(Nat)
<1>3. CASE teid # 0
  <2>1. v = BigEndian(teid, 4)
    BY ONLY <1>3, v = TeidValue(teid) DEF TeidValue
  <2>2. v \in Seq(Nat) /\ Len(v) = 4 /\ Len(v) < 256
    <3>1. v \in Seq(Nat) /\ Len(v) = 4
      BY ONLY <2>1, teid \in Teids, ReadTeid
    <3> QED BY ONLY <3>1
  <2>3. sm = WithElement(msg, i, v)
    BY ONLY <1>3, <2>1, i = 120, sm = AppendDownlinkTEID(msg, teid)
       DEF AppendDownlinkTEID, WithElement
  <2>4. i \in Nat
    BY ONLY i = 120
  <2>5. /\ sm \in Seq(Nat) /\ Len(sm) = Len(msg) + 2 + Len(v)
        /\ Holds(sm, 1, msg) /\ OptionalAt(sm, Len(msg) + 1, i, v, Len(sm) + 1)
    <3>1. v \in Seq(Nat) /\ Len(v) < 256
      BY ONLY <2>2
    <3>2. PICK n : n = i
      OBVIOUS
    <3>3. n \in Nat /\ sm = WithElement(msg, n, v)
      BY ONLY <2>3, <2>4, <3>2
    <3>4. /\ sm \in Seq(Nat) /\ Len(sm) = Len(msg) + 2 + Len(v)
          /\ Holds(sm, 1, msg) /\ OptionalAt(sm, Len(msg) + 1, n, v, Len(sm) + 1)
      BY ONLY <3>1, <3>3, msg \in Seq(Nat), Appended
    <3> QED BY ONLY <3>2, <3>4
  <2>6. Len(sm) \in Nat /\ Len(sm) >= Len(msg) /\ Len(sm) <= Len(msg) + 6
    BY ONLY <1>1, <2>2, <2>5
  <2> QED BY ONLY <2>5, <2>6
<1> QED BY ONLY <1>2, <1>3

\* What is in front of the elements of an accept for a session.
SessionFront ==
  Four(<<SM, 1, 1, PDUSessionEstablishmentAccept, 1>>, BigEndian(Len(DefaultQoSRules), 2),
       DefaultQoSRules, SessionAMBR)

\* It has the rules and the rates at the places the UE looks for them.
LEMMA FrontFacts ==
  /\ SessionFront \in Seq(Nat) /\ Len(SessionFront) = 23
  /\ \A data \in Seq(Nat) : Holds(data, 1, SessionFront) =>
       /\ data[2] = 1 /\ data[4] = PDUSessionEstablishmentAccept
       /\ Number(SubSeq(data, 6, 7)) = 9 /\ data[17] = 6
<1>1. PICK h, l, r, a : /\ h = <<SM, 1, 1, PDUSessionEstablishmentAccept, 1>>
                        /\ l = BigEndian(9, 2) /\ r = DefaultQoSRules /\ a = SessionAMBR
  OBVIOUS
<1>2. h \in Seq(Nat) /\ Len(h) = 5 /\ h[2] = 1 /\ h[4] = PDUSessionEstablishmentAccept
  BY ONLY <1>1 DEF SM, PDUSessionEstablishmentAccept
<1>3. r \in Seq(Nat) /\ Len(r) = 9
  BY ONLY <1>1 DEF DefaultQoSRules
<1>4. a \in Seq(Nat) /\ Len(a) = 7 /\ a[1] = 6
  BY ONLY <1>1 DEF SessionAMBR
<1>5. l \in Seq(Nat) /\ Len(l) = 2 /\ Number(l) = 9
  <2>1. 9 \in Nat /\ 9 \in Numbers16
    BY SMT DEF Numbers16
  <2>2. l \in Seq(Nat) /\ Len(l) = 2
    BY ONLY <1>1, <2>1, TwoBytes
  <2>3. \A i \in 1..2 : l[i] = BigEndian(9, 2)[i]
    BY ONLY <1>1
  <2> QED BY ONLY <2>1, <2>2, <2>3, ReadTwo
<1>6. SessionFront = Four(h, l, r, a)
  <2>1. Len(DefaultQoSRules) = 9
    BY ONLY <1>1, <1>3
  <2> QED BY ONLY <1>1, <2>1 DEF SessionFront
<1>7. PICK f : f = SessionFront
  OBVIOUS
<1>8. h \in Seq(Nat) /\ l \in Seq(Nat) /\ r \in Seq(Nat) /\ a \in Seq(Nat)
  BY ONLY <1>2, <1>3, <1>4, <1>5
<1>9. f \in Seq(Nat) /\ Len(f) = 23
  <2>1. /\ Four(h, l, r, a) \in Seq(Nat)
        /\ Len(Four(h, l, r, a)) = Len(h) + Len(l) + Len(r) + Len(a)
    BY ONLY <1>8, FourLengths
  <2>2. Len(h) + Len(l) + Len(r) + Len(a) = 23
    BY ONLY <1>2, <1>3, <1>4, <1>5
  <2> QED BY ONLY <1>6, <1>7, <2>1, <2>2
<1>10. ASSUME NEW data \in Seq(Nat), Holds(data, 1, f)
       PROVE  /\ data[2] = 1 /\ data[4] = PDUSessionEstablishmentAccept
              /\ Number(SubSeq(data, 6, 7)) = 9 /\ data[17] = 6
  <2>1. Holds(data, 1, Four(h, l, r, a)) /\ 1 \in Nat \ {0}
    BY ONLY <1>6, <1>7, <1>10
  <2>2. /\ Holds(data, 1, h) /\ Holds(data, 1 + Len(h), l)
        /\ Holds(data, 1 + Len(h) + Len(l) + Len(r), a)
    BY ONLY <1>8, <2>1, data \in Seq(Nat), FourParts
  <2>3. 1 + Len(h) = 6 /\ 1 + Len(h) + Len(l) + Len(r) = 17
    BY ONLY <1>2, <1>3, <1>5
  <2>4. data[2] = 1 /\ data[4] = PDUSessionEstablishmentAccept
    <3>1. \A k \in 1..Len(h) : data[1 + k - 1] = h[k]
      BY ONLY <2>2 DEF Holds
    <3>2. 2 \in 1..Len(h) /\ 4 \in 1..Len(h) /\ 1 + 2 - 1 = 2 /\ 1 + 4 - 1 = 4
      BY ONLY <1>2
    <3>3. data[1 + 2 - 1] = h[2] /\ data[1 + 4 - 1] = h[4]
      BY ONLY <3>1, <3>2
    <3> QED BY ONLY <1>2, <3>2, <3>3
  <2>5. data[17] = 6
    <3>1. \A k \in 1..Len(a) : data[17 + k - 1] = a[k]
      BY ONLY <2>2, <2>3 DEF Holds
    <3>2. 1 \in 1..Len(a) /\ 17 + 1 - 1 = 17
      BY ONLY <1>4
    <3>3. data[17 + 1 - 1] = a[1]
      BY ONLY <3>1, <3>2
    <3> QED BY ONLY <1>4, <3>2, <3>3
  <2>6. SubSeq(data, 6, 7) = l
    <3>1. Holds(data, 6, l) /\ 6 \in Nat \ {0}
      BY ONLY <2>2, <2>3
    <3>2. SubSeq(data, 6, 6 + Len(l) - 1) = l
      BY ONLY <1>5, <3>1, data \in Seq(Nat), HoldsPart
    <3>3. 6 + Len(l) - 1 = 7
      BY ONLY <1>5
    <3> QED BY ONLY <3>2, <3>3
  <2> QED BY ONLY <1>5, <2>4, <2>5, <2>6
<1> QED BY ONLY <1>7, <1>9, <1>10

\* An accept for a session is read as it was written.
LEMMA SessionAcceptRead ==
  ASSUME NEW ip \in Addresses \cup {Absent}, NEW dnn \in Dnns, NEW teid \in Teids, NEW sm,
         sm = AppendDownlinkTEID(
                BuildPDUSessionEstablishmentAccept(SessionAccept(ip, dnn, teid)), teid)
  PROVE  /\ sm \in Seq(Nat) /\ Len(sm) < 256 * 256
         /\ UeReadsSession(sm) = SessionAccept(ip, dnn, teid)
<1>1. PICK front, u, v, w : /\ front = SessionFront /\ u = AddressValue(ip)
                            /\ v = DnnValue(dnn) /\ w = TeidValue(teid)
  OBVIOUS
<1>2. PICK i, j, k : i = 41 /\ j = 37 /\ k = 120
  OBVIOUS
<1>3. PICK f1, f2 : f1 = WithOptional(front, i, u) /\ f2 = WithOptional(f1, j, v)
  OBVIOUS
<1>4. /\ u = Absent \/ (u \in Seq(Nat) /\ Len(u) = 5 /\ u[1] = 1)
      /\ ip = Absent <=> u = Absent
      /\ u # Absent => SubSeq(u, 2, 5) = ip /\ u = <<1>> \o ip
  BY ONLY <1>1, ip \in Addresses \cup {Absent}, ReadAddress
<1>5. /\ v = Absent \/ (v \in Seq(Nat) /\ Len(v) < 256)
      /\ \A x : x \o DnnElement(dnn) = WithOptional(x, 37, v)
      /\ DecodeDNN(v) = dnn
  BY ONLY <1>1, dnn \in Dnns, ReadDNN
<1>6. /\ w = Absent \/ (w \in Seq(Nat) /\ Len(w) = 4)
      /\ (IF w = Absent THEN 0 ELSE Number(SubSeq(w, 1, 4))) = teid
  BY ONLY <1>1, teid \in Teids, TeidValueRead
<1>7. sm = AppendDownlinkTEID(f2, teid)
  <2>1. PICK m : m = SessionAccept(ip, dnn, teid)
    OBVIOUS
  <2>2. m.id = 1 /\ m.ip = ip /\ m.dnn = dnn
    BY ONLY <2>1 DEF SessionAccept
  <2>3. BuildPDUSessionEstablishmentAccept(m) =
          (Four(<<SM, m.id, 1, PDUSessionEstablishmentAccept, 1>>,
                BigEndian(Len(DefaultQoSRules), 2), DefaultQoSRules, SessionAMBR)
             \o (IF m.ip = Absent THEN <<>> ELSE <<41>> \o Prefixed(<<1>> \o m.ip)))
            \o DnnElement(m.dnn)
    BY ONLY SMT DEF BuildPDUSessionEstablishmentAccept, Four
  <2>4. (IF ip = Absent THEN <<>> ELSE <<41>> \o Prefixed(<<1>> \o ip))
          = (IF u = Absent THEN <<>> ELSE InOctets(41, u))
    BY ONLY <1>4 DEF InOctets
  <2>5. BuildPDUSessionEstablishmentAccept(m) = f1 \o DnnElement(dnn)
    BY ONLY <1>1, <1>2, <1>3, <2>2, <2>3, <2>4 DEF SessionFront, WithOptional
  <2>6. f1 \o DnnElement(dnn) = f2
    BY ONLY <1>2, <1>3, <1>5
  <2> QED BY ONLY <2>1, <2>5, <2>6,
            sm = AppendDownlinkTEID(
                   BuildPDUSessionEstablishmentAccept(SessionAccept(ip, dnn, teid)), teid)
<1>8. i \in Nat /\ j \in Nat /\ k \in Nat /\ i # j /\ i # k /\ j # k
  BY ONLY <1>2
<1>9. front \in Seq(Nat) /\ Len(front) = 23
  BY ONLY <1>1, FrontFacts
<1>10. /\ f1 \in Seq(Nat) /\ Len(f1) \in Nat /\ Len(f1) >= Len(front) /\ Len(f1) < 1000
       /\ Holds(f1, 1, front) /\ OptionalAt(f1, Len(front) + 1, i, u, Len(f1) + 1)
  <2>1. u = Absent \/ (u \in Seq(Nat) /\ Len(u) < 256)
    BY ONLY <1>4
  <2>2. /\ f1 \in Seq(Nat) /\ Len(f1) \in Nat /\ Len(f1) >= Len(front)
        /\ Len(f1) = Len(front) + (IF u = Absent THEN 0 ELSE Len(u) + 2)
        /\ Holds(f1, 1, front) /\ OptionalAt(f1, Len(front) + 1, i, u, Len(f1) + 1)
    <3>1. front \in Seq(Nat) /\ i \in Nat /\ f1 = WithOptional(front, i, u)
      BY ONLY <1>3, <1>8, <1>9
    <3> QED BY ONLY <2>1, <3>1, AppendedOptional
  <2>3. Len(f1) < 1000
    BY ONLY <1>9, <2>1, <2>2
  <2> QED BY ONLY <2>2, <2>3
<1>11. /\ f2 \in Seq(Nat) /\ Len(f2) \in Nat /\ Len(f2) >= Len(f1) /\ Len(f2) < 2000
       /\ Holds(f2, 1, f1) /\ OptionalAt(f2, Len(f1) + 1, j, v, Len(f2) + 1)
  <2>1. v = Absent \/ (v \in Seq(Nat) /\ Len(v) < 256)
    BY ONLY <1>5
  <2>2. /\ f2 \in Seq(Nat) /\ Len(f2) \in Nat /\ Len(f2) >= Len(f1)
        /\ Len(f2) = Len(f1) + (IF v = Absent THEN 0 ELSE Len(v) + 2)
        /\ Holds(f2, 1, f1) /\ OptionalAt(f2, Len(f1) + 1, j, v, Len(f2) + 1)
    BY ONLY <1>3, <1>8, <1>10, <2>1, AppendedOptional
  <2>3. Len(f2) < 2000
    BY ONLY <1>10, <2>1, <2>2
  <2> QED BY ONLY <2>2, <2>3
<1>12. /\ sm \in Seq(Nat) /\ Len(sm) \in Nat /\ Len(sm) >= Len(f2) /\ Len(sm) <= Len(f2) + 6
       /\ Holds(sm, 1, f2) /\ OptionalAt(sm, Len(f2) + 1, k, w, Len(sm) + 1)
  <2>1. f2 \in Seq(Nat) /\ sm = AppendDownlinkTEID(f2, teid) /\ w = TeidValue(teid) /\ k = 120
    BY ONLY <1>1, <1>2, <1>7, <1>11
  <2> QED BY ONLY <2>1, teid \in Teids, AppendedTeid
<1>13. Holds(sm, 1, f1) /\ Holds(sm, 1, front)
  <2>1. 1 \in Nat \ {0}
    OBVIOUS
  <2>2. Holds(sm, 1, f1)
    BY ONLY <1>10, <1>11, <1>12, <2>1, HoldsInFront
  <2> QED BY ONLY <1>9, <1>10, <1>12, <2>1, <2>2, HoldsInFront
<1>14. /\ OptionalAt(sm, Len(front) + 1, i, u, Len(f1) + 1)
       /\ OptionalAt(sm, Len(f1) + 1, j, v, Len(f2) + 1)
  <2>1. OptionalAt(sm, Len(front) + 1, i, u, Len(f1) + 1)
    BY ONLY <1>10, <1>12, <1>13, OptionalInFront
  <2>2. OptionalAt(sm, Len(f1) + 1, j, v, Len(f2) + 1)
    BY ONLY <1>11, <1>12, OptionalInFront
  <2> QED BY ONLY <2>1, <2>2
<1>15. PICK o, a, b, d : o = Len(front) + 1 /\ a = Len(f1) + 1 /\ b = Len(f2) + 1 /\ d = Len(sm) + 1
  OBVIOUS
<1>16. /\ OptionalAt(sm, o, i, u, a) /\ OptionalAt(sm, a, j, v, b) /\ OptionalAt(sm, b, k, w, d)
       /\ o = 24
  BY ONLY <1>9, <1>12, <1>14, <1>15
<1>17. Tells(sm, d, i, Absent) /\ Tells(sm, d, j, Absent) /\ Tells(sm, d, k, Absent)
  BY ONLY <1>12, <1>15, TellsAtEnd
<1>18. Tells(sm, o, i, u)
  <2>1. Tells(sm, b, i, Absent)
    BY ONLY <1>8, <1>16, <1>17, TellsPassed
  <2>2. Tells(sm, a, i, Absent)
    BY ONLY <1>8, <1>16, <2>1, TellsPassed
  <2> QED BY ONLY <1>16, <2>2, TellsHere
<1>19. Value(Elements(sm, 24), 37, 0) = v
  <2>1. Tells(sm, b, j, Absent)
    BY ONLY <1>8, <1>16, <1>17, TellsPassed
  <2>2. Tells(sm, a, j, v)
    BY ONLY <1>16, <2>1, TellsHere
  <2>3. Tells(sm, o, j, v)
    BY ONLY <1>8, <1>16, <2>2, TellsPassed
  <2>4. 0 \in Nat /\ (v = Absent \/ 0 <= Len(v))
    BY ONLY <1>5, LenProperties
  <2>5. Value(Elements(sm, o), j, 0) = v
    BY ONLY <2>3, <2>4, ValueTold
  <2> QED BY ONLY <1>2, <1>16, <2>5
<1>20. Value(Elements(sm, 24), 120, 4) = w
  <2>1. Tells(sm, b, k, w)
    BY ONLY <1>16, <1>17, TellsHere
  <2>2. Tells(sm, a, k, w)
    BY ONLY <1>8, <1>16, <2>1, TellsPassed
  <2>3. Tells(sm, o, k, w)
    BY ONLY <1>8, <1>16, <2>2, TellsPassed
  <2>4. 4 \in Nat /\ (w = Absent \/ 4 <= Len(w))
    <3>1. w = Absent \/ Len(w) = 4
      BY ONLY <1>6
    <3> QED BY ONLY <3>1
  <2>5. Value(Elements(sm, o), k, 4) = w
    BY ONLY <2>3, <2>4, ValueTold
  <2> QED BY ONLY <1>2, <1>16, <2>5
<1>21. PICK s : s = Elements(sm, 24)
  OBVIOUS
<1>22. Address(s) = ip
  <2>1. PICK x : x = 24
    OBVIOUS
  <2>2. /\ Tells(sm, x, i, u) /\ s = Elements(sm, x) /\ i = 41 /\ u = AddressValue(ip)
    BY ONLY <1>1, <1>2, <1>16, <1>18, <1>21, <2>1
  <2> QED BY ONLY <2>2, ip \in Addresses \cup {Absent}, AddressRead
<1>23. DecodePDUSessionEstablishmentAccept(sm) = SessionAccept(ip, dnn, teid)
  <2>1. /\ sm[2] = 1 /\ Number(SubSeq(sm, 6, 7)) = 9 /\ sm[17] = 6
    BY ONLY <1>1, <1>12, <1>13, FrontFacts
  <2>2. Len(sm) >= 23
    BY ONLY <1>9, <1>10, <1>11, <1>12
  <2>3. 8 + 9 = 17 /\ ~(Len(sm) < 5) /\ ~(Len(sm) < 7 \/ 17 > Len(sm)) /\ 17 + 1 + 6 = 24
    BY ONLY <1>12, <2>2
  <2>4. DecodePDUSessionEstablishmentAccept(sm) =
          [kind |-> "session accept", id |-> sm[2],
           ip |-> Address(s),
           dnn |-> DecodeDNN(Value(s, 37, 0)),
           dlTeid |-> IF Value(s, 120, 4) = Absent THEN 0
                      ELSE Number(SubSeq(Value(s, 120, 4), 1, 4))]
    <3>1. PICK n : n = Number(SubSeq(sm, 6, 7))
      OBVIOUS
    <3>2. n = 9 /\ 8 + n = 17 /\ sm[8 + n] = 6 /\ 8 + n + 1 + sm[8 + n] = 24
      BY ONLY <2>1, <3>1
    <3>3. ~(Len(sm) < 7 \/ 8 + n > Len(sm))
      BY ONLY <2>3, <3>2
    <3>4. (IF Len(sm) < 7 \/ 8 + n > Len(sm) THEN <<>>
           ELSE Elements(sm, 8 + n + 1 + sm[8 + n])) = s
      BY ONLY <1>21, <3>2, <3>3
    <3>5. (IF Len(sm) < 7 \/ 8 + Number(SubSeq(sm, 6, 7)) > Len(sm) THEN <<>>
           ELSE Elements(sm, 8 + Number(SubSeq(sm, 6, 7)) + 1
                               + sm[8 + Number(SubSeq(sm, 6, 7))])) = s
      BY ONLY <3>1, <3>4
    <3>6. ~(Len(sm) < 5)
      BY ONLY <2>3
    <3> QED BY ONLY <3>5, <3>6, Zenon DEF DecodePDUSessionEstablishmentAccept
  <2> QED BY ONLY <1>5, <1>6, <1>19, <1>20, <1>21, <1>22, <2>1, <2>4 DEF SessionAccept
<1>24. UeReadsSession(sm) = DecodePDUSessionEstablishmentAccept(sm)
  <2>1. sm[4] = PDUSessionEstablishmentAccept
    BY ONLY <1>1, <1>12, <1>13, FrontFacts
  <2>2. ~(Len(sm) < 4)
    BY ONLY <1>9, <1>10, <1>11, <1>12
  <2> QED BY ONLY <2>1, <2>2
          DEF UeReadsSession, PDUSessionEstablishmentAccept, PDUSessionEstablishmentReject
<1>25. Len(sm) < 256 * 256
  BY ONLY <1>11, <1>12
<1> QED BY ONLY <1>12, <1>23, <1>24, <1>25

\* The accepts of a registration.
LEMMA AcceptsAre ==
  ASSUME NEW c, NEW m \in Accepts(c)
  PROVE  \E tmsi \in Tmsis, slices \in Slices : m = Accept(c, tmsi, slices)
BY ONLY m \in Accepts(c), SMT DEF Accepts

\* The accepts of a session.
LEMMA SessionAcceptsAre ==
  ASSUME NEW m \in SessionAccepts
  PROVE  \E ip \in Addresses \cup {Absent}, dnn \in Dnns, teid \in Teids :
           m = SessionAccept(ip, dnn, teid)
<1>1. \E ip \in Addresses \cup {Absent}, dnn \in Dnns \ {<<>>}, teid \in Teids :
        m = SessionAccept(ip, dnn, teid)
  BY ONLY m \in SessionAccepts, SMT DEF SessionAccepts
<1> QED BY ONLY <1>1

\* The reject of a session.
LEMMA SessionRejectRead ==
  ASSUME NEW sm, sm = BuildPDUSessionEstablishmentReject([id |-> 1, cause |-> 26])
  PROVE  sm \in Seq(Nat) /\ Len(sm) < 256 * 256 /\ UeReadsSession(sm) = SessionReject
<1>1. sm = <<SM, 1, 1, PDUSessionEstablishmentReject, 26>>
  BY ONLY sm = BuildPDUSessionEstablishmentReject([id |-> 1, cause |-> 26]), SMT
     DEF BuildPDUSessionEstablishmentReject
<1>2. SM \in Nat /\ PDUSessionEstablishmentReject \in Nat
  BY SMT DEF SM, PDUSessionEstablishmentReject
<1>3. /\ sm \in Seq(Nat) /\ Len(sm) = 5
      /\ sm[4] = PDUSessionEstablishmentReject /\ sm[5] = 26
  BY ONLY <1>1, <1>2
<1>4. ~(Len(sm) < 4) /\ Len(sm) > 4 /\ Len(sm) < 256 * 256
  BY ONLY <1>3
<1>5. PDUSessionEstablishmentReject # PDUSessionEstablishmentAccept
  BY ONLY SMT DEF PDUSessionEstablishmentReject, PDUSessionEstablishmentAccept
<1>6. UeReadsSession(sm) = [kind |-> "session reject", cause |-> sm[5]]
  BY ONLY <1>3, <1>4, <1>5 DEF UeReadsSession
<1> QED BY ONLY <1>3, <1>4, <1>6 DEF SessionReject

\* A session message in its transport, at the UE.
LEMMA DownlinkSession ==
  ASSUME NEW sm \in Seq(Nat), Len(sm) < 256 * 256,
         NEW nas, nas = BuildDLNASTransportMM(1, sm)
  PROVE  UeReads(nas) = UeReadsSession(sm)
<1>1. PICK type, id : type = DLNASTransport /\ id = 1
  OBVIOUS
<1>2. type \in Nat /\ id \in Nat
  BY ONLY <1>1 DEF DLNASTransport
<1>3. nas = Transport(type, id, sm)
  BY ONLY <1>1, nas = BuildDLNASTransportMM(1, sm) DEF BuildDLNASTransportMM
<1>4. nas \in Seq(Nat) /\ Len(nas) >= 3 /\ nas[3] = type /\ Container(nas) = sm
  BY ONLY <1>2, <1>3, sm \in Seq(Nat), Len(sm) < 256 * 256, ReadContainer
<1>5. ~(Len(nas) < 3)
  BY ONLY <1>4, LenProperties
<1>6. nas[3] = DLNASTransport
  BY ONLY <1>1, <1>4
<1>7. UeReads(nas) = UeReadsSession(Container(nas))
  BY ONLY <1>5, <1>6 DEF UeReads, RegistrationAccept, DLNASTransport
<1> QED BY ONLY <1>4, <1>7

\* handleNAS of the UE gets of each message of the AMF what was put in, whichever of
\* the optional elements are there and whatever octets their values have.
THEOREM DownlinkNasRead ==
  ASSUME NEW c \in AmfConfigs, NEW m \in DownlinkMessages(c), m.kind # "uplink tunnel"
  PROVE  UeReads(DownlinkNas(m)) = m
<1>1. \/ \E tmsi \in Tmsis, slices \in Slices : m = Accept(c, tmsi, slices)
      \/ \E ip \in Addresses \cup {Absent}, dnn \in Dnns, teid \in Teids :
           m = SessionAccept(ip, dnn, teid)
      \/ m = SessionReject
  <2>1. m \notin TunnelEnds("uplink tunnel")
    BY ONLY m.kind # "uplink tunnel", TunnelEndFacts
  <2>2. m \in Accepts(c) \/ m \in SessionAccepts \/ m = SessionReject
    BY ONLY <2>1, m \in DownlinkMessages(c) DEF DownlinkMessages
  <2> QED BY ONLY <2>2, AcceptsAre, SessionAcceptsAre
<1>2. ASSUME NEW tmsi \in Tmsis, NEW slices \in Slices, m = Accept(c, tmsi, slices)
      PROVE  UeReads(DownlinkNas(m)) = m
  <2>1. m.kind = "registration accept"
    BY ONLY <1>2 DEF Accept
  <2>2. DownlinkNas(m) = BuildRegistrationAccept(m)
    BY ONLY <2>1 DEF DownlinkNas
  <2>3. UeReads(BuildRegistrationAccept(Accept(c, tmsi, slices))) = Accept(c, tmsi, slices)
    BY ONLY c \in AmfConfigs, tmsi \in Tmsis, slices \in Slices, AcceptRead
  <2> QED BY ONLY <1>2, <2>2, <2>3
<1>3. ASSUME NEW ip \in Addresses \cup {Absent}, NEW dnn \in Dnns, NEW teid \in Teids,
             m = SessionAccept(ip, dnn, teid)
      PROVE  UeReads(DownlinkNas(m)) = m
  <2>1. m.kind = "session accept" /\ m.id = 1 /\ m.dlTeid = teid
    BY ONLY <1>3 DEF SessionAccept
  <2>2. PICK sm : sm = AppendDownlinkTEID(BuildPDUSessionEstablishmentAccept(
                         SessionAccept(ip, dnn, teid)), teid)
    OBVIOUS
  <2>3. sm \in Seq(Nat) /\ Len(sm) < 256 * 256 /\ UeReadsSession(sm) = SessionAccept(ip, dnn, teid)
    BY ONLY <2>2, ip \in Addresses \cup {Absent}, dnn \in Dnns, teid \in Teids, SessionAcceptRead
  <2>4. DownlinkNas(m) = BuildDLNASTransportMM(1, sm)
    BY ONLY <1>3, <2>1, <2>2 DEF DownlinkNas
  <2>5. UeReads(DownlinkNas(m)) = UeReadsSession(sm)
    BY ONLY <2>3, <2>4, DownlinkSession
  <2> QED BY ONLY <1>3, <2>3, <2>5
<1>4. CASE m = SessionReject
  <2>1. m.kind = "session reject" /\ m.cause = 26
    BY ONLY <1>4 DEF SessionReject
  <2>2. PICK sm : sm = BuildPDUSessionEstablishmentReject([id |-> 1, cause |-> 26])
    OBVIOUS
  <2>3. sm \in Seq(Nat) /\ Len(sm) < 256 * 256 /\ UeReadsSession(sm) = SessionReject
    BY ONLY <2>2, SessionRejectRead
  <2>4. DownlinkNas(m) = BuildDLNASTransportMM(1, sm)
    BY ONLY <2>1, <2>2 DEF DownlinkNas
  <2>5. UeReads(DownlinkNas(m)) = UeReadsSession(sm)
    BY ONLY <2>3, <2>4, DownlinkSession
  <2> QED BY ONLY <1>4, <2>3, <2>5
<1> QED BY ONLY <1>1, <1>2, <1>3, <1>4

----------------------------------------------------------------------------
(* Over NGAP.                                                              *)

\* The end of a tunnel is read as it was written.
LEMMA ReadTunnel ==
  ASSUME NEW ip \in Addresses, NEW teid \in Teids, NEW id, NEW sessions,
         sessions = <<[id |-> id, transfer |-> Tunnel(ip, teid)]>>
  PROVE  FTEID(sessions).ip = ip /\ FTEID(sessions).teid = teid
<1>1. ip \in Seq(0..255) /\ Len(ip) = 4
  <2>1. \A a \in Addresses : a \in Seq(0..255) /\ Len(a) = 4
    BY ONLY MessageAssumption, Zenon
  <2> QED BY ONLY <2>1, ip \in Addresses
<1>2. SubSeq(ip, 1, 4) = ip
  <2>1. SubSeq(ip, 1, Len(ip)) = ip
    BY ONLY <1>1, OctetsAreNumbers, SubSeqFull
  <2> QED BY ONLY <1>1, <2>1
<1>3. Number(BigEndian(teid, 4)) = teid
  BY ONLY teid \in Teids, ReadTeid
<1>4. PICK t : t = Tunnel(ip, teid)
  OBVIOUS
<1>5. t.address = ip /\ t.teid = BigEndian(teid, 4)
  BY ONLY <1>4 DEF Tunnel
<1>6. sessions[1].transfer = t
  BY ONLY <1>4, sessions = <<[id |-> id, transfer |-> Tunnel(ip, teid)]>>
<1>7. /\ FTEID(sessions).ip = SubSeq(sessions[1].transfer.address, 1, 4)
      /\ FTEID(sessions).teid = Number(sessions[1].transfer.teid)
  BY ONLY SMT DEF FTEID
<1> QED BY ONLY <1>2, <1>3, <1>5, <1>6, <1>7

\* A message of a UE in an association is read by the AMF as it was said.
LEMMA UplinkRead ==
  ASSUME NEW g \in Gnbs, NEW m \in UplinkMessages
  PROVE  /\ UplinkPDU(g, m).procedure # "NGSetup"
         /\ AmfRead(UplinkPDU(g, m)) = Read(UplinkId(m), m)
<1>1. CASE m.kind = "downlink tunnel"
  <2>1. PICK ip \in Addresses, teid \in Teids : m = TunnelEnd("downlink tunnel", ip, teid)
    <3>1. m \in TunnelEnds("downlink tunnel")
      <4>1. \A supi : Request(supi).kind # "downlink tunnel"
        BY ONLY SMT DEF Request
      <4>2. Complete.kind # "downlink tunnel"
        BY ONLY SMT DEF Complete
      <4>3. \A dnn : SessionRequest(dnn).kind # "downlink tunnel"
        BY ONLY SMT DEF SessionRequest
      <4> QED BY ONLY <1>1, <4>1, <4>2, <4>3, m \in UplinkMessages DEF UplinkMessages
    <3> QED BY ONLY <3>1, TunnelEndFacts
  <2>2. m.ip = ip /\ m.teid = teid
    BY ONLY <2>1 DEF TunnelEnd
  <2>3. PICK pdu : pdu = BuildPDUSessionResourceSetupResponse(AmfId, RanId, ip, teid)
    OBVIOUS
  <2>4. UplinkPDU(g, m) = pdu
    BY ONLY <1>1, <2>2, <2>3 DEF UplinkPDU
  <2>5. /\ pdu.procedure = "PDUSessionResourceSetup" /\ pdu.present = Successful
        /\ pdu.ies.amf = AmfId
        /\ pdu.ies.sessions = <<[id |-> 1, transfer |-> Tunnel(ip, teid)]>>
    BY ONLY <2>3 DEF BuildPDUSessionResourceSetupResponse, PDU
  <2>6. HandlerKey(pdu) \in AmfHandlers
    BY ONLY <2>5 DEF HandlerKey, AmfHandlers
  <2>7. AmfRead(pdu) = TunnelRead("downlink tunnel", AmfId, pdu)
    BY ONLY <2>5, <2>6 DEF AmfRead
  <2>8. PICK s : s = pdu.ies.sessions
    OBVIOUS
  <2>9. FTEID(s).ip = ip /\ FTEID(s).teid = teid
    BY ONLY <2>5, <2>8, ip \in Addresses, teid \in Teids, ReadTunnel
  <2>10. TunnelRead("downlink tunnel", AmfId, pdu) = Read(AmfId, m)
    BY ONLY <2>1, <2>8, <2>9 DEF TunnelRead
  <2>11. UplinkId(m) = AmfId
    BY ONLY <1>1 DEF UplinkId
  <2> QED BY ONLY <2>4, <2>5, <2>7, <2>10, <2>11
<1>2. CASE m.kind = "registration request"
  <2>1. AmfReads(UplinkNas(m)) = m
    BY ONLY <1>2, m \in UplinkMessages, UplinkNasRead
  <2>2. PICK pdu : pdu = InitialUEMessage(RanId, UplinkNas(m), GnbConfig[g])
    OBVIOUS
  <2>3. UplinkPDU(g, m) = pdu
    BY ONLY <1>2, <2>2 DEF UplinkPDU
  <2>4. /\ pdu.procedure = "InitialUEMessage" /\ pdu.present = Initiating
        /\ pdu.ies.ran = RanId /\ pdu.ies.nas = UplinkNas(m)
    BY ONLY <2>2 DEF InitialUEMessage, PDU
  <2>5. HandlerKey(pdu) \in AmfHandlers
    BY ONLY <2>4 DEF HandlerKey, AmfHandlers
  <2>6. AmfRead(pdu) = Read(RanId, AmfReads(UplinkNas(m)))
    BY ONLY <2>4, <2>5 DEF AmfRead
  <2>7. UplinkId(m) = RanId
    BY ONLY <1>2 DEF UplinkId
  <2> QED BY ONLY <2>1, <2>3, <2>4, <2>6, <2>7
<1>3. CASE m.kind # "downlink tunnel" /\ m.kind # "registration request"
  <2>1. AmfReads(UplinkNas(m)) = m
    BY ONLY <1>3, m \in UplinkMessages, UplinkNasRead
  <2>2. PICK pdu : pdu = UplinkNASTransport(AmfId, RanId, UplinkNas(m))
    OBVIOUS
  <2>3. UplinkPDU(g, m) = pdu
    BY ONLY <1>3, <2>2 DEF UplinkPDU
  <2>4. /\ pdu.procedure = "UplinkNASTransport" /\ pdu.present = Initiating
        /\ pdu.ies.amf = AmfId /\ pdu.ies.nas = UplinkNas(m)
    BY ONLY <2>2 DEF UplinkNASTransport, PDU
  <2>5. HandlerKey(pdu) \in AmfHandlers
    BY ONLY <2>4 DEF HandlerKey, AmfHandlers
  <2>6. AmfRead(pdu) = Read(AmfId, AmfReads(UplinkNas(m)))
    BY ONLY <2>4, <2>5 DEF AmfRead
  <2>7. UplinkId(m) = AmfId
    BY ONLY <1>3 DEF UplinkId
  <2> QED BY ONLY <2>1, <2>3, <2>4, <2>6, <2>7
<1> QED BY ONLY <1>1, <1>2, <1>3

\* And one of the AMF at the other end.
LEMMA DownlinkRead ==
  ASSUME NEW c \in AmfConfigs, NEW m \in DownlinkMessages(c)
  PROVE  GnbRead(DownlinkPDU(m)) = Read(RanId, m)
<1>1. CASE m.kind = "uplink tunnel"
  <2>1. PICK ip \in Addresses, teid \in Teids : m = TunnelEnd("uplink tunnel", ip, teid)
    <3>1. m \in TunnelEnds("uplink tunnel")
      <4>1. \A tmsi, slices : Accept(c, tmsi, slices).kind # "uplink tunnel"
        BY ONLY SMT DEF Accept
      <4>2. \A ip, dnn, teid : SessionAccept(ip, dnn, teid).kind # "uplink tunnel"
        BY ONLY SMT DEF SessionAccept
      <4>3. SessionReject.kind # "uplink tunnel"
        BY ONLY SMT DEF SessionReject
      <4>4. m \notin Accepts(c)
        <5>1. ASSUME m \in Accepts(c) PROVE FALSE
          <6>1. PICK tmsi \in Tmsis, slices \in Slices : m = Accept(c, tmsi, slices)
            BY ONLY <5>1, AcceptsAre
          <6> QED BY ONLY <1>1, <4>1, <6>1
        <5> QED BY ONLY <5>1
      <4>5. m \notin SessionAccepts
        <5>1. ASSUME m \in SessionAccepts PROVE FALSE
          <6>1. PICK ip \in Addresses \cup {Absent}, dnn \in Dnns, teid \in Teids :
                  m = SessionAccept(ip, dnn, teid)
            BY ONLY <5>1, SessionAcceptsAre
          <6> QED BY ONLY <1>1, <4>2, <6>1
        <5> QED BY ONLY <5>1
      <4>6. m # SessionReject
        BY ONLY <1>1, <4>3
      <4> QED BY ONLY <4>4, <4>5, <4>6, m \in DownlinkMessages(c) DEF DownlinkMessages
    <3> QED BY ONLY <3>1, TunnelEndFacts
  <2>2. m.ip = ip /\ m.teid = teid
    BY ONLY <2>1 DEF TunnelEnd
  <2>3. PICK pdu : pdu = BuildPDUSessionResourceSetupRequest(AmfId, RanId, 1, ip, teid)
    OBVIOUS
  <2>4. DownlinkPDU(m) = pdu
    BY ONLY <1>1, <2>2, <2>3 DEF DownlinkPDU
  <2>5. /\ pdu.procedure = "PDUSessionResourceSetup" /\ pdu.present = Initiating
        /\ pdu.ies.ran = RanId
        /\ pdu.ies.sessions = <<[id |-> 1, transfer |-> Tunnel(ip, teid)]>>
    BY ONLY <2>3 DEF BuildPDUSessionResourceSetupRequest, PDU
  <2>6. HandlerKey(pdu) \in GnbHandlers
    BY ONLY <2>5 DEF HandlerKey, GnbHandlers
  <2>7. GnbRead(pdu) = TunnelRead("uplink tunnel", RanId, pdu)
    BY ONLY <2>5, <2>6 DEF GnbRead
  <2>8. PICK s : s = pdu.ies.sessions
    OBVIOUS
  <2>9. FTEID(s).ip = ip /\ FTEID(s).teid = teid
    BY ONLY <2>5, <2>8, ip \in Addresses, teid \in Teids, ReadTunnel
  <2>10. TunnelRead("uplink tunnel", RanId, pdu) = Read(RanId, m)
    BY ONLY <2>1, <2>8, <2>9 DEF TunnelRead
  <2> QED BY ONLY <2>4, <2>7, <2>10
<1>2. CASE m.kind # "uplink tunnel"
  <2>1. UeReads(DownlinkNas(m)) = m
    BY ONLY <1>2, c \in AmfConfigs, m \in DownlinkMessages(c), DownlinkNasRead
  <2>2. PICK pdu : pdu = DownlinkNASTransport(AmfId, RanId, DownlinkNas(m))
    OBVIOUS
  <2>3. DownlinkPDU(m) = pdu
    BY ONLY <1>2, <2>2 DEF DownlinkPDU
  <2>4. /\ pdu.procedure = "DownlinkNASTransport" /\ pdu.present = Initiating
        /\ pdu.ies.ran = RanId /\ pdu.ies.nas = DownlinkNas(m)
    BY ONLY <2>2 DEF DownlinkNASTransport, PDU
  <2>5. HandlerKey(pdu) \in GnbHandlers
    BY ONLY <2>4 DEF HandlerKey, GnbHandlers
  <2>6. GnbRead(pdu) = Read(RanId, UeReads(DownlinkNas(m)))
    BY ONLY <2>4, <2>5 DEF GnbRead
  <2> QED BY ONLY <2>1, <2>3, <2>6
<1> QED BY ONLY <1>1, <1>2

----------------------------------------------------------------------------
(* Messages under way.                                                     *)

\* What is on the association of a gNB that serves UEs is what was said.
UnderWay(g) ==
  /\ toAmf[g] # <<>> =>
       \E m \in UplinkMessages : toAmf[g] = <<UplinkPDU(g, m)>> /\ said = Read(UplinkId(m), m)
  /\ toGnb[g] # <<>> =>
       \E m \in DownlinkMessages(config) : toGnb[g] = <<DownlinkPDU(m)>> /\ said = Read(RanId, m)

Said == AsSent /\ \A g \in Gnbs : phase[g] = "up" => UnderWay(g)

\* A step that says and hears nothing, and that leaves what is under way or loses it.
LEMMA UnderWayKept ==
  ASSUME Said, UNCHANGED <<said, heard, config>>,
         \A g \in Gnbs : phase'[g] = "up" =>
           /\ toAmf'[g] = <<>> \/ (phase[g] = "up" /\ toAmf'[g] = toAmf[g])
           /\ toGnb'[g] = <<>> \/ (phase[g] = "up" /\ toGnb'[g] = toGnb[g])
  PROVE  Said'
<1>1. AsSent'
  BY DEF Said, AsSent
<1>2. ASSUME NEW g \in Gnbs, phase'[g] = "up" PROVE UnderWay(g)'
  BY <1>2 DEF Said, UnderWay
<1> QED BY <1>1, <1>2 DEF Said

\* Steps of a gNB in the set-up say nothing.
LEMMA GnbStepSays ==
  ASSUME IInv, Said, NEW g \in Gnbs, Start(g) \/ GnbStep(g) \/ HandleNGSetupResponse(g)
  PROVE  Said'
<1> USE DEF vars, gnbVars, amfVars, assocVars, ueVars
<1>1. UNCHANGED <<said, heard, config>>
  BY DEF Start, GnbStep, Connect, ConnectFails, SendNGSetupRequest, SetupDone, GiveUp,
         HandleNGSetupResponse
<1>2. CASE Start(g) \/ Connect(g) \/ ConnectFails(g) \/ SendNGSetupRequest(g)
  <2>1. \A h \in Gnbs : phase'[h] = "up" =>
          phase[h] = "up" /\ toAmf'[h] = toAmf[h] /\ toGnb'[h] = toGnb[h]
    BY <1>2 DEF IInv, Typed, Start, Connect, ConnectFails, SendNGSetupRequest, Send
  <2> QED BY <1>1, <2>1, UnderWayKept
<1>3. CASE SetupDone(g)
  <2>1. open[g] => toAmf[g] = <<>> /\ toGnb[g] = <<>>
    BY <1>3 DEF IInv, GnbOK, Associated, Exchange, SetupDone
  <2>2. ~open[g] => toAmf[g] = <<>> /\ toGnb[g] = <<>>
    BY DEF IInv, GnbOK
  <2>3. UNCHANGED <<toAmf, toGnb>> /\ \A h \in Gnbs : h # g => phase'[h] = phase[h]
    BY <1>3 DEF IInv, Typed, SetupDone
  <2> QED BY <1>1, <2>1, <2>2, <2>3, UnderWayKept
<1>4. CASE GiveUp(g)
  <2>1. \A h \in Gnbs : h # g =>
          phase'[h] = phase[h] /\ toAmf'[h] = toAmf[h] /\ toGnb'[h] = toGnb[h]
    BY <1>4, ClosedFacts DEF IInv, Typed, GiveUp
  <2>2. phase'[g] # "up"
    BY <1>4 DEF IInv, Typed, GiveUp
  <2> QED BY <1>1, <2>1, <2>2, UnderWayKept
<1>5. CASE HandleNGSetupResponse(g)
  <2>1. phase[g] = "waiting" /\ UNCHANGED phase
    BY <1>5, ResponseFacts DEF HandleNGSetupResponse
  <2>2. \A h \in Gnbs : h # g => toAmf'[h] = toAmf[h] /\ toGnb'[h] = toGnb[h]
    BY <1>5 DEF IInv, Typed, HandleNGSetupResponse, Receive
  <2> QED BY <1>1, <2>1, <2>2, UnderWayKept
<1> QED BY <1>2, <1>3, <1>4, <1>5 DEF GnbStep

\* Nor do those of the AMF, and no message outlives its association.
LEMMA AmfStepSays ==
  ASSUME IInv, Said, AmfStart \/ AmfCrash \/ \E g \in Gnbs : AmfStep(g) \/ Break(g)
  PROVE  Said'
<1> USE DEF vars, gnbVars, amfVars, assocVars, ueVars
<1>1. UNCHANGED <<said, heard, config, phase>>
  BY DEF AmfStart, AmfCrash, AmfStep, HandleNGSetupRequest, SendNGSetupResponse, Break
<1>2. CASE AmfStart
  BY <1>1, <1>2, UnderWayKept DEF AmfStart
<1>3. CASE AmfCrash
  BY <1>1, <1>3, ClosedFacts, UnderWayKept DEF AmfCrash
<1>4. ASSUME NEW g \in Gnbs, HandleNGSetupRequest(g) PROVE Said'
  <2>1. phase[g] = "waiting"
    BY <1>4, RequestFacts
  <2>2. \A h \in Gnbs : h # g => toAmf'[h] = toAmf[h] /\ toGnb'[h] = toGnb[h]
    BY <1>4 DEF IInv, Typed, HandleNGSetupRequest, Receive
  <2> QED BY <1>1, <2>1, <2>2, UnderWayKept
<1>5. ASSUME NEW g \in Gnbs, SendNGSetupResponse(g) PROVE Said'
  <2>1. \A h \in Gnbs : h # g => toAmf'[h] = toAmf[h] /\ toGnb'[h] = toGnb[h]
    BY <1>5 DEF IInv, Typed, SendNGSetupResponse, Send
  <2>2. CASE open[g]
    <3>1. phase[g] # "up"
      BY <1>5, <2>2 DEF IInv, GnbOK, Associated, SendNGSetupResponse
    <3> QED BY <1>1, <2>1, <3>1, UnderWayKept
  <2>3. CASE ~open[g]
    <3>1. UNCHANGED <<toAmf, toGnb>>
      BY <1>5, <2>3 DEF SendNGSetupResponse
    <3> QED BY <1>1, <3>1, UnderWayKept
  <2> QED BY <2>2, <2>3
<1>6. ASSUME NEW g \in Gnbs, Break(g) PROVE Said'
  <2>1. /\ toAmf'[g] = <<>> /\ toGnb'[g] = <<>>
        /\ \A h \in Gnbs : h # g => toAmf'[h] = toAmf[h] /\ toGnb'[h] = toGnb[h]
    BY <1>6, ClosedFacts DEF Break
  <2> QED BY <1>1, <2>1, UnderWayKept
<1> QED BY <1>2, <1>3, <1>4, <1>5, <1>6 DEF AmfStep

\* Nothing is under way when a message is said.
LEMMA SayingFacts ==
  ASSUME IInv, Said, said = None
  PROVE  heard = None /\ \A g \in Gnbs : phase[g] = "up" => toAmf[g] = <<>> /\ toGnb[g] = <<>>
<1>1. heard = None
  BY DEF Said, AsSent
<1>2. ASSUME NEW g \in Gnbs, phase[g] = "up" PROVE toAmf[g] = <<>> /\ toGnb[g] = <<>>
  <2>1. UnderWay(g) /\ config \in AmfConfigs
    BY <1>2 DEF IInv, Typed, Said
  <2> QED BY <2>1, NoneAssumption DEF UnderWay
<1> QED BY <1>1, <1>2

\* A message of a UE is said.
LEMMA SendUplinkSays ==
  ASSUME IInv, Said, NEW g \in Gnbs, SendUplink(g)
  PROVE  Said'
<1> USE DEF vars, gnbVars, amfVars, assocVars, ueVars
<1>1. PICK m \in UplinkMessages :
        Send(toAmf, g, UplinkPDU(g, m)) /\ said' = Read(UplinkId(m), m)
  BY DEF SendUplink
<1>2. /\ phase[g] = "up" /\ said = None /\ UNCHANGED <<phase, toGnb, heard, config>>
  BY DEF SendUplink
<1>3. heard = None /\ \A h \in Gnbs : phase[h] = "up" => toAmf[h] = <<>> /\ toGnb[h] = <<>>
  BY <1>2, SayingFacts
<1>4. AsSent'
  BY <1>2, <1>3 DEF AsSent
<1>5. toAmf'[g] = <<UplinkPDU(g, m)>> /\ \A h \in Gnbs : h # g => toAmf'[h] = toAmf[h]
  BY <1>1, <1>2, <1>3, OneMessage DEF IInv, Typed, Send
<1>6. ASSUME NEW h \in Gnbs, phase'[h] = "up" PROVE UnderWay(h)'
  BY <1>1, <1>2, <1>3, <1>5, <1>6 DEF UnderWay
<1> QED BY <1>4, <1>6 DEF Said

\* A message of the AMF is said.
LEMMA SendDownlinkSays ==
  ASSUME IInv, Said, NEW g \in Gnbs, SendDownlink(g)
  PROVE  Said'
<1> USE DEF vars, gnbVars, amfVars, assocVars, ueVars
<1>1. PICK m \in DownlinkMessages(config) :
        Send(toGnb, g, DownlinkPDU(m)) /\ said' = Read(RanId, m)
  BY DEF SendDownlink
<1>2. /\ phase[g] = "up" /\ said = None /\ UNCHANGED <<phase, toAmf, heard, config>>
  BY DEF SendDownlink
<1>3. heard = None /\ \A h \in Gnbs : phase[h] = "up" => toAmf[h] = <<>> /\ toGnb[h] = <<>>
  BY <1>2, SayingFacts
<1>4. AsSent'
  BY <1>2, <1>3 DEF AsSent
<1>5. toGnb'[g] = <<DownlinkPDU(m)>> /\ \A h \in Gnbs : h # g => toGnb'[h] = toGnb[h]
  BY <1>1, <1>2, <1>3, OneMessage DEF IInv, Typed, Send
<1>6. ASSUME NEW h \in Gnbs, phase'[h] = "up" PROVE UnderWay(h)'
  BY <1>1, <1>2, <1>3, <1>5, <1>6 DEF UnderWay
<1> QED BY <1>4, <1>6 DEF Said

\* A gNB that serves UEs is known to the AMF, which reads what was said.
LEMMA ReceiveUplinkSays ==
  ASSUME IInv, Said, NEW g \in Gnbs, ReceiveUplink(g)
  PROVE  Said'
<1> USE DEF vars, gnbVars, amfVars, assocVars, ueVars
<1>1. /\ toAmf[g] # <<>> /\ HandlerKey(Head(toAmf[g])) # <<"NGSetup", Initiating>>
      /\ Receive(toAmf, g) /\ UNCHANGED <<phase, toGnb, said, config>>
      /\ heard' = IF rans[g] = None /\ Head(toAmf[g]).procedure # "PDUSessionResourceSetup"
                  THEN Dropped ELSE AmfRead(Head(toAmf[g]))
  BY DEF ReceiveUplink, NextForAmf
<1>2. GnbOK(g) /\ open[g] /\ Associated(g) /\ phase[g] # "connected"
  BY <1>1 DEF IInv, GnbOK, Associated
<1>3. phase[g] # "waiting"
  BY <1>1, <1>2, Keys, OneMessage DEF Associated, Exchange
<1>4. phase[g] = "up" /\ rans[g] # None
  BY <1>2, <1>3, RanFacts DEF Associated
<1>5. PICK m \in UplinkMessages : toAmf[g] = <<UplinkPDU(g, m)>> /\ said = Read(UplinkId(m), m)
  BY <1>1, <1>4 DEF Said, UnderWay
<1>6. heard' = said
  BY <1>1, <1>4, <1>5, UplinkRead, OneMessage
<1>7. AsSent'
  BY <1>1, <1>6 DEF AsSent
<1>8. toAmf'[g] = <<>> /\ \A h \in Gnbs : h # g => toAmf'[h] = toAmf[h]
  BY <1>1, <1>5, OneMessage DEF IInv, Typed, Receive
<1>9. ASSUME NEW h \in Gnbs, phase'[h] = "up" PROVE UnderWay(h)'
  BY <1>1, <1>8, <1>9 DEF Said, UnderWay
<1> QED BY <1>7, <1>9 DEF Said

\* The UE reads what was said.
LEMMA ReceiveDownlinkSays ==
  ASSUME IInv, Said, NEW g \in Gnbs, ReceiveDownlink(g)
  PROVE  Said'
<1> USE DEF vars, gnbVars, amfVars, assocVars, ueVars
<1>1. /\ toGnb[g] # <<>> /\ HandlerKey(Head(toGnb[g])) # <<"NGSetup", Successful>>
      /\ Receive(toGnb, g) /\ UNCHANGED <<phase, toAmf, said, config>>
      /\ heard' = GnbRead(Head(toGnb[g]))
  BY DEF ReceiveDownlink
<1>2. GnbOK(g) /\ open[g] /\ Associated(g) /\ phase[g] # "connected" /\ config \in AmfConfigs
  BY <1>1 DEF IInv, Typed, GnbOK, Associated
<1>3. phase[g] # "waiting"
  BY <1>1, <1>2, Keys, OneMessage DEF Associated, Exchange
<1>4. phase[g] = "up"
  BY <1>2, <1>3 DEF Associated
<1>5. PICK m \in DownlinkMessages(config) :
        toGnb[g] = <<DownlinkPDU(m)>> /\ said = Read(RanId, m)
  BY <1>1, <1>4 DEF Said, UnderWay
<1>6. heard' = said
  BY <1>1, <1>2, <1>5, DownlinkRead, OneMessage
<1>7. AsSent'
  BY <1>1, <1>6 DEF AsSent
<1>8. toGnb'[g] = <<>> /\ \A h \in Gnbs : h # g => toGnb'[h] = toGnb[h]
  BY <1>1, <1>5, OneMessage DEF IInv, Typed, Receive
<1>9. ASSUME NEW h \in Gnbs, phase'[h] = "up" PROVE UnderWay(h)'
  BY <1>1, <1>8, <1>9 DEF Said, UnderWay
<1> QED BY <1>7, <1>9 DEF Said

\* What a receiver reads is what was sent, under the id it knows the UE by, for all
\* gNBs, identities, names, slices, addresses and numbers, and whatever crashed,
\* broke or was given up before.
THEOREM ReadAsSent == Spec => []AsSent
<1>1. Init => Said
  BY DEF Init, Said, AsSent, UnderWay
<1>2. IInv /\ Said /\ [Next]_vars => Said'
  <2> SUFFICES ASSUME IInv, Said, [Next]_vars PROVE Said'
    OBVIOUS
  <2>1. CASE AmfStart \/ AmfCrash \/ \E g \in Gnbs : AmfStep(g) \/ Break(g)
    BY <2>1, AmfStepSays
  <2>2. ASSUME NEW g \in Gnbs, Start(g) \/ GnbStep(g) \/ HandleNGSetupResponse(g) PROVE Said'
    BY <2>2, GnbStepSays
  <2>3. ASSUME NEW g \in Gnbs, UeStep(g) PROVE Said'
    BY <2>3, SendUplinkSays, SendDownlinkSays, ReceiveUplinkSays, ReceiveDownlinkSays DEF UeStep
  <2>4. CASE UNCHANGED vars
    BY <2>4, UnderWayKept DEF vars
  <2> QED BY <2>1, <2>2, <2>3, <2>4 DEF Next
<1>3. Said => AsSent
  BY DEF Said
<1> QED BY <1>1, <1>2, <1>3, Invariance, PTL DEF Spec
============================================================================
