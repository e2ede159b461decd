-------------------------- MODULE GtpuCodecProofs --------------------------
(***************************************************************************)
(* Proofs about GtpuCodec: what is encoded is decoded again.               *)
(*                                                                         *)
(* A number is read byte by byte with a recursive function, of which only  *)
(* the values at two to four bytes are needed: the function is given       *)
(* outright for them, which shows that its equation has a solution.        *)
(***************************************************************************)
EXTENDS GtpuCodec, TLAPS, SequenceTheorems

\* Values of two and of four bytes.
Numbers16 == {n \in Nat : n < 256 * 256}
Numbers32 == {n \in Nat : n \div (256 * 256) < 256 * 256}

\* Packets with cells of S as payload.
Packets(S) ==
  [ext : BOOLEAN, seqFlag : BOOLEAN, npduFlag : BOOLEAN, type : 0..255,
   teid : Numbers32, seq : Numbers16, npdu : 0..255, next : 0..255, payload : Seq(S)]

Optional(p) == IF Extended(p) THEN 4 ELSE 0

\* The length of what follows the first eight bytes fits its field.
Fits(p) == Len(p.payload) + 4 < 256 * 256

\* The bytes of p, field by field.
HasLayout(data, p) ==
  /\ Len(data) = 8 + Optional(p) + Len(p.payload)
  /\ data[1] = 48 + Bit(p.ext, 4) + Bit(p.seqFlag, 2) + Bit(p.npduFlag, 1)
  /\ data[2] = p.type
  /\ \A i \in 1..2 : data[2 + i] = BigEndian(TotalLength(p), 2)[i]
  /\ \A i \in 1..4 : data[4 + i] = BigEndian(p.teid, 4)[i]
  /\ Extended(p) => /\ \A i \in 1..2 : data[8 + i] = BigEndian(p.seq, 2)[i]
                    /\ data[11] = p.npdu /\ data[12] = p.next
  /\ \A i \in 1..Len(p.payload) : data[8 + Optional(p) + i] = p.payload[i]

----------------------------------------------------------------------------
(* Numbers and their bytes.                                                *)

\* A function on 1..n is a sequence.
LEMMA FunctionSeq ==
  ASSUME NEW S, NEW n \in Nat, NEW f \in [1..n -> S]
  PROVE  f \in Seq(S) /\ Len(f) = n
<1>1. f \in Seq(S)
  BY SeqDef
<1> QED BY <1>1, LenProperties

\* The bytes of a number.
LEMMA TwoBytes ==
  ASSUME NEW n \in Nat
  PROVE  /\ BigEndian(n, 2) \in Seq(Nat) /\ Len(BigEndian(n, 2)) = 2
         /\ BigEndian(n, 2)[1] = (n \div 256) % 256
         /\ BigEndian(n, 2)[2] = n % 256
<1>1. 256 ^ (2 - 1) = 256 /\ 256 ^ (2 - 2) = 1 /\ n \div 1 = n
  BY SMT
<1>2. BigEndian(n, 2)[1] = (n \div 256) % 256 /\ BigEndian(n, 2)[2] = n % 256
  BY SMT, <1>1 DEF BigEndian
<1>3. (n \div 256) % 256 \in Nat /\ n % 256 \in Nat
  BY SMT
<1>4. \A i \in 1..2 : BigEndian(n, 2)[i] \in Nat
  BY SMT, <1>2, <1>3
<1>5. BigEndian(n, 2) \in [1..2 -> Nat]
  BY <1>4 DEF BigEndian
<1>6. BigEndian(n, 2) \in Seq(Nat) /\ Len(BigEndian(n, 2)) = 2
  BY <1>5, FunctionSeq
<1> QED BY <1>2, <1>6

LEMMA FourBytes ==
  ASSUME NEW n \in Nat
  PROVE  /\ BigEndian(n, 4)[1] = (n \div (256 * 256 * 256)) % 256
         /\ BigEndian(n, 4)[2] = (n \div (256 * 256)) % 256
         /\ BigEndian(n, 4)[3] = (n \div 256) % 256
         /\ BigEndian(n, 4)[4] = n % 256
<1>1. /\ 256 ^ (4 - 1) = 256 * 256 * 256 /\ 256 ^ (4 - 2) = 256 * 256
      /\ 256 ^ (4 - 3) = 256 /\ 256 ^ (4 - 4) = 1 /\ n \div 1 = n
  BY SMT
<1> QED BY SMT, <1>1 DEF BigEndian

LEMMA FourBytesSeq ==
  ASSUME NEW n \in Nat
  PROVE  BigEndian(n, 4) \in Seq(Nat) /\ Len(BigEndian(n, 4)) = 4
<1>1. /\ (n \div (256 * 256 * 256)) % 256 \in Nat /\ (n \div (256 * 256)) % 256 \in Nat
      /\ (n \div 256) % 256 \in Nat /\ n % 256 \in Nat
  BY SMT
<1>4. /\ BigEndian(n, 4)[1] = (n \div (256 * 256 * 256)) % 256
      /\ BigEndian(n, 4)[2] = (n \div (256 * 256)) % 256
      /\ BigEndian(n, 4)[3] = (n \div 256) % 256
      /\ BigEndian(n, 4)[4] = n % 256
  BY ZenonT(60), FourBytes
<1>2. \A i \in 1..4 : BigEndian(n, 4)[i] \in Nat
  BY SMT, <1>1, <1>4
<1>3. BigEndian(n, 4) \in [1..4 -> Nat]
  BY <1>2 DEF BigEndian
<1> QED BY <1>3, FunctionSeq

\* They make up the number.
LEMMA TwoBytesSum ==
  ASSUME NEW n \in Numbers16
  PROVE  256 * ((n \div 256) % 256) + (n % 256) = n
BY SMT DEF Numbers16

LEMMA FourBytesSum ==
  ASSUME NEW n \in Numbers32
  PROVE  256 * (256 * (256 * ((n \div (256 * 256 * 256)) % 256) + ((n \div (256 * 256)) % 256))
                  + ((n \div 256) % 256)) + (n % 256) = n
<1>1. n \in Nat /\ n \div (256 * 256) < 256 * 256
  BY DEF Numbers32
<1>2. PICK a : a = n \div 256
  OBVIOUS
<1>3. PICK b : b = a \div 256
  OBVIOUS
<1>4. PICK c : c = b \div 256
  OBVIOUS
<1>5. a \in Nat /\ n = 256 * a + (n % 256)
  BY SMT, <1>1, <1>2
<1>6. b \in Nat /\ a = 256 * b + (a % 256)
  BY SMT, <1>3, <1>5
<1>7. b = n \div (256 * 256)
  BY SMT, <1>1, <1>2, <1>3
<1>8. c \in 0..255 /\ b = 256 * c + (b % 256) /\ c % 256 = c
  BY SMT, <1>1, <1>4, <1>6, <1>7
<1>9. c = n \div (256 * 256 * 256)
  BY SMT, <1>1, <1>4, <1>7
<1> QED BY SMT, <1>1, <1>2, <1>5, <1>6, <1>7, <1>8, <1>9

\* The function that reads two to four bytes has the value its equation gives it.
LEMMA Reader ==
  ASSUME NEW s, Len(s) \in 2..4, \A i \in 1..Len(s) : s[i] \in Nat
  PROVE  \E u : /\ Number(s) = u[Len(s)]
                /\ \A i \in 0..Len(s) : u[i] = IF i = 0 THEN 0 ELSE 256 * u[i - 1] + s[i]
<1> DEFINE F(f) == [i \in 0..Len(s) |-> IF i = 0 THEN 0 ELSE 256 * f[i - 1] + s[i]]
<1>1. \E f : f = F(f)
  <2>1. PICK v : v = [i \in 0..4 |->
                        IF i = 0 THEN 0 ELSE IF i = 1 THEN s[1]
                        ELSE IF i = 2 THEN 256 * s[1] + s[2]
                        ELSE IF i = 3 THEN 256 * (256 * s[1] + s[2]) + s[3]
                        ELSE 256 * (256 * (256 * s[1] + s[2]) + s[3]) + s[4]]
    OBVIOUS
  <2>2. /\ v[0] = 0 /\ v[1] = s[1] /\ v[2] = 256 * v[1] + s[2] /\ v[3] = 256 * v[2] + s[3]
        /\ v[4] = 256 * v[3] + s[4]
    BY <2>1
  <2>3. PICK g : g = [i \in 0..Len(s) |-> v[i]]
    OBVIOUS
  <2>4. ASSUME NEW i \in 0..Len(s)
        PROVE  g[i] = IF i = 0 THEN 0 ELSE 256 * g[i - 1] + s[i]
    <3>1. i = 0 \/ i - 1 \in 0..Len(s)
      OBVIOUS
    <3>2. g[i] = v[i] /\ (i # 0 => g[i - 1] = v[i - 1])
      BY <2>3, <3>1
    <3>3. CASE i = 0
      BY <3>2, <3>3, <2>2
    <3>4. CASE i = 1
      <4>1. s[1] \in Nat /\ v[i - 1] = 0
        BY <3>4, <2>2
      <4> QED BY <4>1, <3>2, <3>4, <2>2
    <3>5. CASE i \in {2, 3, 4}
      <4>1. v[i] = 256 * v[i - 1] + s[i]
        BY <3>5, <2>2
      <4> QED BY <4>1, <3>2, <3>5
    <3> QED BY <3>3, <3>4, <3>5
  <2>5. g = F(g)
    BY <2>3, <2>4
  <2> QED BY <2>5
<1>2. PICK u : u = CHOOSE f : f = F(f)
  OBVIOUS
<1>3. u = F(u)
  BY <1>1, <1>2
<1>4. Number(s) = u[Len(s)]
  BY <1>2 DEF Number
<1>5. ASSUME NEW i \in 0..Len(s) PROVE u[i] = IF i = 0 THEN 0 ELSE 256 * u[i - 1] + s[i]
  <2> HIDE DEF F
  <2> QED BY <1>3 DEF F
<1> QED BY ONLY <1>4, <1>5

\* What two and four bytes are read as.
LEMMA NumberTwo ==
  ASSUME NEW s, Len(s) = 2, \A i \in 1..2 : s[i] \in Nat
  PROVE  Number(s) = 256 * s[1] + s[2]
<1>1. Len(s) \in 2..4 /\ \A i \in 1..Len(s) : s[i] \in Nat
  OBVIOUS
<1>2. PICK u : /\ Number(s) = u[Len(s)]
               /\ \A i \in 0..Len(s) : u[i] = IF i = 0 THEN 0 ELSE 256 * u[i - 1] + s[i]
  BY ONLY <1>1, Reader
<1>3. u[0] = 0 /\ u[1] = 256 * u[0] + s[1] /\ u[2] = 256 * u[1] + s[2]
  BY <1>2
<1>4. u[1] = s[1]
  BY <1>3
<1> QED BY <1>2, <1>3, <1>4

LEMMA NumberFour ==
  ASSUME NEW s, Len(s) = 4, \A i \in 1..4 : s[i] \in Nat
  PROVE  Number(s) = 256 * (256 * (256 * s[1] + s[2]) + s[3]) + s[4]
<1>1. Len(s) \in 2..4 /\ \A i \in 1..Len(s) : s[i] \in Nat
  OBVIOUS
<1>2. PICK u : /\ Number(s) = u[Len(s)]
               /\ \A i \in 0..Len(s) : u[i] = IF i = 0 THEN 0 ELSE 256 * u[i - 1] + s[i]
  BY ONLY <1>1, Reader
<1>3. /\ u[0] = 0 /\ u[1] = 256 * u[0] + s[1] /\ u[2] = 256 * u[1] + s[2]
      /\ u[3] = 256 * u[2] + s[3] /\ u[4] = 256 * u[3] + s[4]
  BY <1>2
<1>4. u[1] = s[1]
  BY <1>3
<1> QED BY <1>2, <1>3, <1>4

\* So the bytes of a number are read as the number.
LEMMA ReadTwo ==
  ASSUME NEW n \in Numbers16, NEW s, Len(s) = 2, \A i \in 1..2 : s[i] = BigEndian(n, 2)[i]
  PROVE  Number(s) = n
<1>1. n \in Nat
  BY DEF Numbers16
<1>2. s[1] = BigEndian(n, 2)[1] /\ s[2] = BigEndian(n, 2)[2]
  OBVIOUS
<1>3. s[1] = (n \div 256) % 256 /\ s[2] = n % 256
  BY <1>1, <1>2, TwoBytes
<1>4. \A i \in 1..2 : s[i] \in Nat
  BY SMT, <1>1, <1>3
<1>5. Number(s) = 256 * s[1] + s[2]
  BY <1>4, NumberTwo
<1> QED BY <1>3, <1>5, TwoBytesSum

LEMMA ReadFour ==
  ASSUME NEW n \in Numbers32, NEW s, Len(s) = 4, \A i \in 1..4 : s[i] = BigEndian(n, 4)[i]
  PROVE  Number(s) = n
<1>1. n \in Nat
  BY DEF Numbers32
<1>2. /\ s[1] = BigEndian(n, 4)[1] /\ s[2] = BigEndian(n, 4)[2]
      /\ s[3] = BigEndian(n, 4)[3] /\ s[4] = BigEndian(n, 4)[4]
  OBVIOUS
<1>3. /\ BigEndian(n, 4)[1] = (n \div (256 * 256 * 256)) % 256
      /\ BigEndian(n, 4)[2] = (n \div (256 * 256)) % 256
      /\ BigEndian(n, 4)[3] = (n \div 256) % 256
      /\ BigEndian(n, 4)[4] = n % 256
  BY ONLY <1>1, FourBytes
<1>4. \A i \in 1..4 : s[i] \in Nat
  <2>1. \A i \in 1..4 : BigEndian(n, 4)[i] \in Nat
    <3>1. BigEndian(n, 4) \in Seq(Nat) /\ Len(BigEndian(n, 4)) = 4
      BY ONLY <1>1, FourBytesSeq
    <3> QED BY <3>1, ElementOfSeq
  <2> QED BY <2>1
<1>5. Number(s) = 256 * (256 * (256 * s[1] + s[2]) + s[3]) + s[4]
  BY ONLY <1>4, Len(s) = 4, NumberFour
<1>6. 256 * (256 * (256 * ((n \div (256 * 256 * 256)) % 256) + ((n \div (256 * 256)) % 256))
              + ((n \div 256) % 256)) + (n % 256) = n
  BY FourBytesSum
<1> QED BY ONLY <1>2, <1>3, <1>5, <1>6

----------------------------------------------------------------------------
(* Packets.                                                                *)

\* Where the cells of a concatenation come from.
LEMMA ConcatFacts ==
  ASSUME NEW S, NEW s \in Seq(S), NEW t \in Seq(S)
  PROVE  /\ s \o t \in Seq(S) /\ Len(s \o t) = Len(s) + Len(t)
         /\ \A i \in 1..Len(s) : (s \o t)[i] = s[i]
         /\ \A i \in 1..Len(t) : (s \o t)[Len(s) + i] = t[i]
<1>1. Len(s) \in Nat /\ Len(t) \in Nat
  BY LenProperties
<1>2. /\ s \o t \in Seq(S) /\ Len(s \o t) = Len(s) + Len(t)
      /\ \A i \in 1..(Len(s) + Len(t)) :
           (s \o t)[i] = IF i <= Len(s) THEN s[i] ELSE t[i - Len(s)]
  BY ConcatProperties
<1>3. \A i \in 1..Len(s) : (s \o t)[i] = s[i]
  BY <1>1, <1>2
<1>4. ASSUME NEW i \in 1..Len(t) PROVE (s \o t)[Len(s) + i] = t[i]
  <2>1. /\ Len(s) + i \in 1..(Len(s) + Len(t)) /\ ~(Len(s) + i <= Len(s))
        /\ Len(s) + i - Len(s) = i
    BY <1>1
  <2> QED BY <2>1, <1>2
<1> QED BY <1>2, <1>3, <1>4

\* A part of a sequence.
LEMMA SubSeqFacts ==
  ASSUME NEW S, NEW s \in Seq(S), NEW a \in 1..(Len(s) + 1), NEW b \in (a - 1)..Len(s)
  PROVE  /\ SubSeq(s, a, b) \in Seq(S) /\ Len(SubSeq(s, a, b)) = b - a + 1
         /\ \A i \in 1..(b - a + 1) : SubSeq(s, a, b)[i] = s[a + i - 1]
<1>1. Len(s) \in Nat /\ b - a + 1 \in Nat /\ \A i \in 1..Len(s) : s[i] \in S
  BY LenProperties, ElementOfSeq
<1>2. SubSeq(s, a, b) = [i \in 1..(b - a + 1) |-> s[a + i - 1]]
  OBVIOUS
<1>3. \A i \in 1..(b - a + 1) : a + i - 1 \in 1..Len(s)
  BY <1>1
<1>4. SubSeq(s, a, b) \in [1..(b - a + 1) -> S]
  BY <1>1, <1>2, <1>3
<1> QED BY <1>1, <1>2, <1>4, FunctionSeq

\* The flags of the first byte.
LEMMA FlagFacts ==
  ASSUME NEW p, p.ext \in BOOLEAN, p.seqFlag \in BOOLEAN, p.npduFlag \in BOOLEAN,
         NEW f, f = 48 + Bit(p.ext, 4) + Bit(p.seqFlag, 2) + Bit(p.npduFlag, 1)
  PROVE  /\ f \in Nat /\ f \div 32 = 1
         /\ Has(f, 4) = p.ext /\ Has(f, 2) = p.seqFlag /\ Has(f, 1) = p.npduFlag
BY SMT DEF Bit, Has

\* The length field tells the size of the packet when 16 bits can.
LEMMA LengthFacts ==
  ASSUME NEW S, NEW p \in Packets(S), Fits(p)
  PROVE  TotalLength(p) \in Numbers16 /\ TotalLength(p) = Len(p.payload) + Optional(p)
<1>1. PICK k, m : k = Len(p.payload) /\ m = Optional(p)
  OBVIOUS
<1>2. k \in Nat /\ k + 4 < 256 * 256
  <2>1. p.payload \in Seq(S)
    BY DEF Packets
  <2> QED BY <2>1, <1>1, LenProperties DEF Fits
<1>3. m \in {0, 4}
  BY <1>1 DEF Optional
<1>4. 2 ^ 16 = 256 * 256
  BY SMT
<1>5. TotalLength(p) = (k + m) % (256 * 256)
  BY <1>1, <1>4 DEF TotalLength, Optional
<1>6. k + m \in Nat /\ k + m < 256 * 256
  BY ONLY <1>2, <1>3, SMT
<1>7. (k + m) % (256 * 256) = k + m
  BY ONLY <1>6, SMT
<1> QED BY <1>1, <1>5, <1>6, <1>7 DEF Numbers16

\* The bytes of a packet, field by field.
LEMMA Layout ==
  ASSUME NEW S, NEW p \in Packets(S), Fits(p)
  PROVE  Encode(p) \in Seq(Nat \cup S) /\ HasLayout(Encode(p), p)
<1>a. PICK d : d = p.payload
  OBVIOUS
<1>b. PICK k : k = Len(d)
  OBVIOUS
<1>c. PICK m : m = Optional(p)
  OBVIOUS
<1>d. PICK data : data = Encode(p)
  OBVIOUS
<1>21. m \in {0, 4}
  BY <1>c DEF Optional
<1>e. d \in Seq(S) /\ k \in Nat
  <2>1. d \in Seq(S)
    BY <1>a DEF Packets
  <2> QED BY <2>1, <1>b, LenProperties
<1>1. /\ p.ext \in BOOLEAN /\ p.seqFlag \in BOOLEAN /\ p.npduFlag \in BOOLEAN
      /\ p.type \in Nat /\ p.teid \in Nat /\ p.seq \in Nat /\ p.npdu \in Nat /\ p.next \in Nat
  <2>1. /\ p.ext \in BOOLEAN /\ p.seqFlag \in BOOLEAN /\ p.npduFlag \in BOOLEAN
        /\ p.type \in 0..255 /\ p.teid \in Numbers32 /\ p.seq \in Numbers16
        /\ p.npdu \in 0..255 /\ p.next \in 0..255
    BY DEF Packets
  <2>2. p.teid \in Nat /\ p.seq \in Nat
    BY <2>1 DEF Numbers16, Numbers32
  <2>3. p.type \in Nat /\ p.npdu \in Nat /\ p.next \in Nat
    <3>1. 0..255 \subseteq Nat
      OBVIOUS
    <3> QED BY <2>1, <3>1
  <2> QED BY <2>1, <2>2, <2>3
<1>2. PICK T : T = Nat \cup S
  OBVIOUS
<1>3. \A s : s \in Seq(Nat) \/ s \in Seq(S) => s \in Seq(T)
  BY <1>2, SeqDef
<1>4. PICK f : f = 48 + Bit(p.ext, 4) + Bit(p.seqFlag, 2) + Bit(p.npduFlag, 1)
  OBVIOUS
<1>5. PICK h : h = <<f, p.type>>
  OBVIOUS
<1>6. f \in Nat /\ h \in Seq(T) /\ Len(h) = 2 /\ h[1] = f /\ h[2] = p.type
  <2>1. f \in Nat
    BY <1>1, <1>4, FlagFacts
  <2> QED BY <2>1, <1>1, <1>2, <1>5
<1>7. PICK l : l = BigEndian(TotalLength(p), 2)
  OBVIOUS
<1>8. l \in Seq(T) /\ Len(l) = 2
  <2>1. TotalLength(p) \in Numbers16
    BY LengthFacts
  <2>2. TotalLength(p) \in Nat
    BY <2>1 DEF Numbers16
  <2> QED BY <2>2, <1>3, <1>7, TwoBytes
<1>9. PICK t : t = BigEndian(p.teid, 4)
  OBVIOUS
<1>10. t \in Seq(T) /\ Len(t) = 4
  BY <1>1, <1>3, <1>9, FourBytesSeq
<1>11. PICK q : q = BigEndian(p.seq, 2)
  OBVIOUS
<1>12. q \in Seq(T) /\ Len(q) = 2
  BY <1>1, <1>3, <1>11, TwoBytes
<1>13. PICK o : o = IF Extended(p) THEN q \o <<p.npdu, p.next>> ELSE <<>>
  OBVIOUS
<1>14. /\ o \in Seq(T) /\ Len(o) = m
       /\ Extended(p) => o[1] = q[1] /\ o[2] = q[2] /\ o[3] = p.npdu /\ o[4] = p.next
  <2>1. PICK w : w = <<p.npdu, p.next>>
    OBVIOUS
  <2>2. w \in Seq(T) /\ Len(w) = 2 /\ w[1] = p.npdu /\ w[2] = p.next
    BY <2>1, <1>1, <1>2
  <2>3. /\ q \o w \in Seq(T) /\ Len(q \o w) = 4
        /\ \A i \in 1..2 : (q \o w)[i] = q[i]
        /\ \A i \in 1..2 : (q \o w)[2 + i] = w[i]
    <3>0. q \in Seq(T) /\ w \in Seq(T)
      BY <2>2, <1>12
    <3>1. /\ q \o w \in Seq(T) /\ Len(q \o w) = Len(q) + Len(w)
          /\ \A i \in 1..Len(q) : (q \o w)[i] = q[i]
          /\ \A i \in 1..Len(w) : (q \o w)[Len(q) + i] = w[i]
      BY ONLY <3>0, ConcatFacts, SMT
    <3> QED BY ONLY <3>1, <2>2, <1>12
  <2>4. (q \o w)[1] = q[1] /\ (q \o w)[2] = q[2] /\ (q \o w)[2 + 1] = w[1] /\ (q \o w)[2 + 2] = w[2]
    BY <2>3
  <2>5. CASE Extended(p)
    BY <2>1, <2>2, <2>3, <2>4, <2>5, <1>c, <1>13 DEF Optional
  <2>6. CASE ~Extended(p)
    BY <2>6, <1>c, <1>13, EmptySeq DEF Optional
  <2> QED BY <2>5, <2>6
<1>15. data = h \o l \o t \o o \o d
  BY <1>a, <1>d, <1>4, <1>5, <1>7, <1>9, <1>11, <1>13 DEF Encode
<1>16. /\ data \in Seq(T) /\ Len(data) = 8 + m + k
       /\ data[1] = h[1] /\ data[2] = h[2]
       /\ \A i \in 1..2 : data[2 + i] = l[i]
       /\ \A i \in 1..4 : data[4 + i] = t[i]
       /\ \A i \in 1..m : data[8 + i] = o[i]
       /\ \A i \in 1..k : data[8 + m + i] = d[i]
  <2>0. h \in Seq(T) /\ l \in Seq(T) /\ t \in Seq(T) /\ o \in Seq(T) /\ d \in Seq(T)
    BY <1>1, <1>e, <1>3, <1>6, <1>8, <1>10, <1>14
  <2>13. Len(h) = 2 /\ Len(l) = 2 /\ Len(t) = 4 /\ Len(o) = m /\ Len(d) = k
    BY <1>b, <1>6, <1>8, <1>10, <1>14
  <2>1. PICK a : a = h \o l
    OBVIOUS
  <2>2. PICK b : b = a \o t
    OBVIOUS
  <2>3. PICK c : c = b \o o
    OBVIOUS
  <2>4. data = c \o d
    BY <1>15, <2>1, <2>2, <2>3
  <2>5. /\ a \in Seq(T) /\ Len(a) = 4 /\ \A i \in 1..2 : a[i] = h[i]
        /\ \A i \in 1..2 : a[2 + i] = l[i]
    <3>1. /\ h \o l \in Seq(T) /\ Len(h \o l) = Len(h) + Len(l)
          /\ \A i \in 1..Len(h) : (h \o l)[i] = h[i]
          /\ \A i \in 1..Len(l) : (h \o l)[Len(h) + i] = l[i]
      BY ONLY <2>0, ConcatFacts, SMT
    <3> QED BY ONLY <3>1, <2>1, <2>13
  <2>6. /\ b \in Seq(T) /\ Len(b) = 8 /\ \A i \in 1..4 : b[i] = a[i]
        /\ \A i \in 1..4 : b[4 + i] = t[i]
    <3>0. a \in Seq(T)
      BY <2>5
    <3>1. /\ a \o t \in Seq(T) /\ Len(a \o t) = Len(a) + Len(t)
          /\ \A i \in 1..Len(a) : (a \o t)[i] = a[i]
          /\ \A i \in 1..Len(t) : (a \o t)[Len(a) + i] = t[i]
      BY ONLY <3>0, <2>0, ConcatFacts, SMT
    <3> QED BY ONLY <3>1, <2>2, <2>5, <2>13
  <2>7. /\ c \in Seq(T) /\ Len(c) = 8 + m /\ \A i \in 1..8 : c[i] = b[i]
        /\ \A i \in 1..m : c[8 + i] = o[i]
    <3>0. b \in Seq(T)
      BY <2>6
    <3>1. /\ b \o o \in Seq(T) /\ Len(b \o o) = Len(b) + Len(o)
          /\ \A i \in 1..Len(b) : (b \o o)[i] = b[i]
          /\ \A i \in 1..Len(o) : (b \o o)[Len(b) + i] = o[i]
      BY ONLY <3>0, <2>0, ConcatFacts, SMT
    <3> QED BY ONLY <3>1, <2>3, <2>6, <2>13
  <2>8. /\ data \in Seq(T) /\ Len(data) = 8 + m + k
        /\ \A i \in 1..(8 + m) : data[i] = c[i]
        /\ \A i \in 1..k : data[8 + m + i] = d[i]
    <3>0. c \in Seq(T)
      BY <2>7
    <3>1. /\ c \o d \in Seq(T) /\ Len(c \o d) = Len(c) + Len(d)
          /\ \A i \in 1..Len(c) : (c \o d)[i] = c[i]
          /\ \A i \in 1..Len(d) : (c \o d)[Len(c) + i] = d[i]
      BY ONLY <3>0, <2>0, ConcatFacts, SMT
    <3> QED BY ONLY <3>1, <2>4, <2>7, <2>13, <1>21, <1>e
  <2>9. \A i \in 1..8 : data[i] = b[i]
    BY ONLY <2>7, <2>8, <1>21
  <2>10. \A i \in 1..m : data[8 + i] = o[i]
    BY ONLY <2>7, <2>8, <1>21
  <2>11. \A i \in 1..4 : data[i] = a[i] /\ data[4 + i] = t[i]
    BY <2>6, <2>9
  <2>12. data[1] = h[1] /\ data[2] = h[2] /\ \A i \in 1..2 : data[2 + i] = l[i]
    BY <2>5, <2>11
  <2> QED BY <2>8, <2>10, <2>11, <2>12
<1>17. ASSUME Extended(p)
       PROVE  (\A i \in 1..2 : data[8 + i] = q[i]) /\ data[11] = p.npdu /\ data[12] = p.next
  <2>1. data[8 + 1] = o[1] /\ data[8 + 2] = o[2] /\ data[8 + 3] = o[3] /\ data[8 + 4] = o[4]
    BY <1>c, <1>16, <1>17 DEF Optional
  <2> QED BY <2>1, <1>14, <1>17
<1>18. /\ data[1] = 48 + Bit(p.ext, 4) + Bit(p.seqFlag, 2) + Bit(p.npduFlag, 1)
       /\ data[2] = p.type
       /\ \A i \in 1..2 : data[2 + i] = BigEndian(TotalLength(p), 2)[i]
       /\ \A i \in 1..4 : data[4 + i] = BigEndian(p.teid, 4)[i]
  BY <1>4, <1>6, <1>7, <1>9, <1>16
<1>19. Extended(p) => /\ \A i \in 1..2 : data[8 + i] = BigEndian(p.seq, 2)[i]
                      /\ data[11] = p.npdu /\ data[12] = p.next
  BY <1>11, <1>17
<1>20. Encode(p) \in Seq(Nat \cup S)
  BY <1>2, <1>d, <1>16
<1> QED BY <1>a, <1>b, <1>c, <1>d, <1>16, <1>18, <1>19, <1>20 DEF HasLayout

\* What is sent is what is received: the header's fields, the payload, and of the
\* optional ones those the flags announce, for every packet whose length fits the
\* field it is told in.
THEOREM DecodeUndoesEncode ==
  ASSUME NEW S, NEW p \in Packets(S), Fits(p)
  PROVE  Decode(Encode(p)) =
           [outcome |-> "packet", ext |-> p.ext, seqFlag |-> p.seqFlag,
            npduFlag |-> p.npduFlag, type |-> p.type, teid |-> p.teid,
            seq |-> IF Extended(p) THEN p.seq ELSE 0,
            npdu |-> IF Extended(p) THEN p.npdu ELSE 0,
            next |-> IF Extended(p) THEN p.next ELSE 0, payload |-> p.payload]
<1>1. /\ p.ext \in BOOLEAN /\ p.seqFlag \in BOOLEAN /\ p.npduFlag \in BOOLEAN
      /\ p.teid \in Numbers32 /\ p.teid \in Nat /\ p.seq \in Numbers16 /\ p.seq \in Nat
      /\ p.payload \in Seq(S)
  <2>1. /\ p.ext \in BOOLEAN /\ p.seqFlag \in BOOLEAN /\ p.npduFlag \in BOOLEAN
        /\ p.teid \in Numbers32 /\ p.seq \in Numbers16 /\ p.payload \in Seq(S)
    BY DEF Packets
  <2> QED BY <2>1 DEF Numbers16, Numbers32
<1>d. PICK d : d = p.payload
  OBVIOUS
<1>k. PICK k : k = Len(d)
  OBVIOUS
<1>l. k \in Nat /\ d \in Seq(S)
  BY <1>1, <1>d, <1>k, LenProperties
<1>2. PICK data : data = Encode(p)
  OBVIOUS
<1>3. PICK m : m = Optional(p)
  OBVIOUS
<1>4. m \in {0, 4}
  BY <1>3 DEF Optional
<1>5. /\ data \in Seq(Nat \cup S) /\ Len(data) = 8 + m + k
      /\ data[1] = 48 + Bit(p.ext, 4) + Bit(p.seqFlag, 2) + Bit(p.npduFlag, 1)
      /\ data[2] = p.type
      /\ \A i \in 1..2 : data[2 + i] = BigEndian(TotalLength(p), 2)[i]
      /\ \A i \in 1..4 : data[4 + i] = BigEndian(p.teid, 4)[i]
      /\ Extended(p) => /\ \A i \in 1..2 : data[8 + i] = BigEndian(p.seq, 2)[i]
                        /\ data[11] = p.npdu /\ data[12] = p.next
      /\ \A i \in 1..k : data[8 + m + i] = d[i]
  <2>1. data \in Seq(Nat \cup S) /\ HasLayout(data, p)
    BY <1>2, Layout
  <2> QED BY <2>1, <1>3, <1>d, <1>k DEF HasLayout
<1>6. /\ data[1] \div 32 = 1 /\ Has(data[1], 4) = p.ext /\ Has(data[1], 2) = p.seqFlag
      /\ Has(data[1], 1) = p.npduFlag
  BY <1>1, <1>5, FlagFacts
<1>12. TotalLength(p) \in Numbers16 /\ TotalLength(p) = k + m
  BY <1>3, <1>d, <1>k, LengthFacts
<1>7. Number(SubSeq(data, 3, 4)) = TotalLength(p)
  <2>1. PICK s : s = SubSeq(data, 3, 4)
    OBVIOUS
  <2>2. 3 \in 1..(Len(data) + 1) /\ 4 \in (3 - 1)..Len(data)
    BY <1>l, <1>4, <1>5
  <2>3. Len(s) = 2 /\ \A i \in 1..2 : s[i] = data[2 + i]
    BY <2>1, <2>2, <1>5, SubSeqFacts
  <2>4. \A i \in 1..2 : s[i] = BigEndian(TotalLength(p), 2)[i]
    BY <2>3, <1>5
  <2> QED BY <2>1, <2>3, <2>4, <1>12, ReadTwo
<1>8. Number(SubSeq(data, 5, 8)) = p.teid
  <2>1. PICK s : s = SubSeq(data, 5, 8)
    OBVIOUS
  <2>2. 5 \in 1..(Len(data) + 1) /\ 8 \in (5 - 1)..Len(data)
    BY <1>l, <1>4, <1>5
  <2>3. Len(s) = 4 /\ \A i \in 1..4 : s[i] = data[4 + i]
    BY <2>1, <2>2, <1>5, SubSeqFacts
  <2>4. \A i \in 1..4 : s[i] = BigEndian(p.teid, 4)[i]
    BY <2>3, <1>5
  <2> QED BY <2>1, <2>3, <2>4, <1>1, ReadFour
<1>9. Number(<<0, 0>>) = 0
  <2>1. PICK s : s = <<0, 0>>
    OBVIOUS
  <2>2. Len(s) = 2 /\ s[1] = 0 /\ s[2] = 0 /\ \A i \in 1..2 : s[i] \in Nat
    BY <2>1
  <2>3. Number(s) = 256 * s[1] + s[2]
    BY <2>2, NumberTwo
  <2> QED BY <2>1, <2>2, <2>3
<1>10. ASSUME Extended(p) PROVE Number(<<data[9], data[10]>>) = p.seq
  <2>1. PICK s : s = <<data[9], data[10]>>
    OBVIOUS
  <2>2. data[8 + 1] = BigEndian(p.seq, 2)[1] /\ data[8 + 2] = BigEndian(p.seq, 2)[2]
    BY <1>5, <1>10
  <2>3. Len(s) = 2 /\ \A i \in 1..2 : s[i] = BigEndian(p.seq, 2)[i]
    BY <2>1, <2>2
  <2> QED BY <2>1, <2>3, <1>1, ReadTwo
<1>11. SubSeq(data, 8 + m + 1, 8 + m + k) = d
  <2>1. PICK s : s = SubSeq(data, 8 + m + 1, 8 + m + k)
    OBVIOUS
  <2>2. PICK a, b : a = 8 + m + 1 /\ b = 8 + m + k
    OBVIOUS
  <2>3. a \in 1..(Len(data) + 1) /\ b \in (a - 1)..Len(data) /\ b - a + 1 = k
    BY <2>2, <1>l, <1>4, <1>5
  <2>4. s \in Seq(Nat \cup S) /\ Len(s) = k /\ \A i \in 1..k : s[i] = data[a + i - 1]
    <3>1. data \in Seq(Nat \cup S)
      BY <1>5
    <3>2. /\ SubSeq(data, a, b) \in Seq(Nat \cup S) /\ Len(SubSeq(data, a, b)) = b - a + 1
          /\ \A i \in 1..(b - a + 1) : SubSeq(data, a, b)[i] = data[a + i - 1]
      BY ONLY <2>3, <3>1, SubSeqFacts, SMT
    <3>3. s = SubSeq(data, a, b)
      BY <2>1, <2>2
    <3> QED BY ONLY <3>2, <3>3, <2>3
  <2>5. \A i \in 1..k : a + i - 1 = 8 + m + i
    BY <2>2, <1>l, <1>4
  <2>6. \A i \in 1..k : s[i] = d[i]
    BY <2>4, <2>5, <1>5
  <2>7. d \in Seq(Nat \cup S)
    BY <1>l, SeqDef
  <2> QED BY <2>1, <2>4, <2>6, <2>7, <1>k, SeqEqual
<1>13. PICK r : r = [ext |-> Has(data[1], 4), seqFlag |-> Has(data[1], 2),
                     npduFlag |-> Has(data[1], 1)]
  OBVIOUS
<1>14. Extended(r) <=> Extended(p)
  BY <1>6, <1>13 DEF Extended
<1>15. PICK offset : offset = IF Extended(r) THEN ExtHeaderLen ELSE MinHeaderLen
  OBVIOUS
<1>16. offset = 8 + m
  BY <1>3, <1>14, <1>15 DEF ExtHeaderLen, MinHeaderLen, Optional
<1>17. PICK expected : expected = Number(SubSeq(data, 3, 4)) - (offset - MinHeaderLen)
  OBVIOUS
<1>18. expected = k
  BY <1>l, <1>4, <1>7, <1>12, <1>16, <1>17 DEF MinHeaderLen
<1>19. /\ ~(Len(data) < MinHeaderLen \/ data[1] \div 32 # 1)
       /\ ~(Len(data) < offset \/ offset + expected > Len(data)) /\ ~(expected < 0)
  BY <1>l, <1>4, <1>5, <1>6, <1>16, <1>18 DEF MinHeaderLen
<1>20. Decode(data) =
         [outcome |-> "packet", ext |-> r.ext, seqFlag |-> r.seqFlag, npduFlag |-> r.npduFlag,
          type |-> data[2], teid |-> Number(SubSeq(data, 5, 8)),
          seq |-> Number(<<IF Extended(r) THEN data[9] ELSE 0, IF Extended(r) THEN data[10] ELSE 0>>),
          npdu |-> IF Extended(r) THEN data[11] ELSE 0,
          next |-> IF Extended(r) THEN data[12] ELSE 0,
          payload |-> SubSeq(data, offset + 1, offset + expected)]
  BY ONLY <1>13, <1>15, <1>17, <1>19 DEF Decode
<1>21. r.ext = p.ext /\ r.seqFlag = p.seqFlag /\ r.npduFlag = p.npduFlag
  BY <1>6, <1>13
<1>22. /\ SubSeq(data, offset + 1, offset + expected) = p.payload
       /\ data[2] = p.type
  BY <1>d, <1>5, <1>11, <1>16, <1>18
<1>23. CASE Extended(p)
  BY <1>2, <1>5, <1>8, <1>10, <1>14, <1>20, <1>21, <1>22, <1>23
<1>24. CASE ~Extended(p)
  BY <1>2, <1>8, <1>9, <1>14, <1>20, <1>21, <1>22, <1>24
<1> QED BY <1>23, <1>24
============================================================================
