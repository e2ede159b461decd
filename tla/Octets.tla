------------------------------- MODULE Octets -------------------------------
(***************************************************************************)
(* Bytes and what the codecs build them from.  A text is a sequence of     *)
(* codes, a number printed in decimal a sequence of digits.                *)
(***************************************************************************)
EXTENDS Integers, Sequences

\* n in k bytes, the most significant first, and back.
BigEndian(n, k) == [i \in 1..k |-> (n \div (256 ^ (k - i))) % 256]

Number(bytes) ==
  LET upTo[i \in 0..Len(bytes)] == IF i = 0 THEN 0 ELSE 256 * upTo[i - 1] + bytes[i]
  IN upTo[Len(bytes)]

Bit(set, weight) == IF set THEN weight ELSE 0

Has(flags, weight) == (flags \div weight) % 2 = 1

\* A value after its length in one byte.
Prefixed(value) == <<Len(value) % 256>> \o value

Filler == 15

\* A PLMN of five or six digits in three bytes; the MNC of two digits is filled
\* up in front.
EncodePLMN(plmn) ==
  LET d == IF Len(plmn) = 5 THEN SubSeq(plmn, 1, 3) \o <<Filler>> \o SubSeq(plmn, 4, 5)
           ELSE plmn
  IN <<16 * d[2] + d[1], 16 * d[4] + d[3], 16 * d[6] + d[5]>>

DecodePLMN(b) ==
  LET mnc3 == b[2] \div 16
  IN <<b[1] % 16, b[1] \div 16, b[2] % 16>>
     \o (IF mnc3 = Filler THEN <<>> ELSE <<mnc3>>)
     \o <<b[3] % 16, b[3] \div 16>>
============================================================================
