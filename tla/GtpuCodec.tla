----------------------------- MODULE GtpuCodec -----------------------------
(***************************************************************************)
(* GTP-U packets and their bytes.  A payload is a sequence of cells the    *)
(* codec does not look at.  A decoder's outcome is a packet, an error, or  *)
(* a panic: make([]byte, n) with a negative n.                             *)
(***************************************************************************)
EXTENDS Octets

MinHeaderLen == 8
ExtHeaderLen == 12

GPDU == 255

Extended(p) == p.ext \/ p.seqFlag \/ p.npduFlag

\* The length field counts what follows the first eight bytes, in 16 bits.
TotalLength(p) == (Len(p.payload) + IF Extended(p) THEN 4 ELSE 0) % (2 ^ 16)

Encode(p) ==
  LET flags == 48 + Bit(p.ext, 4) + Bit(p.seqFlag, 2) + Bit(p.npduFlag, 1)
      optional == IF Extended(p) THEN BigEndian(p.seq, 2) \o <<p.npdu, p.next>> ELSE <<>>
  IN <<flags, p.type>> \o BigEndian(TotalLength(p), 2) \o BigEndian(p.teid, 4)
       \o optional \o p.payload

Error    == [outcome |-> "error"]
Panicked == [outcome |-> "panic"]

\* What is beyond the length the header states is cut off.
Decode(data) ==
  IF Len(data) < MinHeaderLen \/ data[1] \div 32 # 1
  THEN Error
  ELSE LET p == [ext |-> Has(data[1], 4), seqFlag |-> Has(data[1], 2),
                 npduFlag |-> Has(data[1], 1)]
           offset == IF Extended(p) THEN ExtHeaderLen ELSE MinHeaderLen
           expected == Number(SubSeq(data, 3, 4)) - (offset - MinHeaderLen)
           Field(i) == IF Extended(p) THEN data[i] ELSE 0
       IN IF Len(data) < offset \/ offset + expected > Len(data)
          THEN Error
          ELSE IF expected < 0
          THEN Panicked
          ELSE [outcome |-> "packet", ext |-> p.ext, seqFlag |-> p.seqFlag,
                npduFlag |-> p.npduFlag, type |-> data[2],
                teid |-> Number(SubSeq(data, 5, 8)),
                seq |-> Number(<<Field(9), Field(10)>>),
                npdu |-> Field(11), next |-> Field(12),
                payload |-> SubSeq(data, offset + 1, offset + expected)]

NewGPDU(teid, inner) ==
  [ext |-> FALSE, seqFlag |-> FALSE, npduFlag |-> FALSE, type |-> GPDU,
   teid |-> teid, seq |-> 0, npdu |-> 0, next |-> 0, payload |-> inner]
============================================================================
