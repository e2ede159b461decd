--------------------------- MODULE N2AttachProofs ---------------------------
(***************************************************************************)
(* Proofs about N2Attach: its types, and that the AMF and the gNB never    *)
(* mix up the UEs, the connections and the tunnels they speak of.          *)
(*                                                                         *)
(* The invariant says what every message under way may be, read at the     *)
(* queue it is in (AmfMessageOK, GnbMessageOK and, per connection,         *)
(* ConnOK), and what the gNB's loop holds between two messages             *)
(* (TunnelsOK).  OnePlace follows a connection from its first message to   *)
(* its session request: one message at a time stands for it, on one queue. *)
(* That makes the contexts of a gNB unique, and bounds the sessions by the *)
(* connections there can be.                                               *)
(*                                                                         *)
(* The last part has one UE per gNB.  Then SessionInv, on top of the       *)
(* invariant, follows the one session a gNB's first connection gets from   *)
(* the SMF to the UE: wherever it is spoken of, it is the one the AMF has  *)
(* in the gNB's one context.  Most steps are calm: they bring no session   *)
(* further than it was, and CalmKeeps is all there is to say of them.      *)
(***************************************************************************)
EXTENDS N2Attach, TLAPS, FiniteSetTheorems, SequenceTheorems

Has(s, M) == \E m \in Range(s) : m \in M

AtMostOne(s, M) == \A i, j \in DOMAIN s : s[i] \in M /\ s[j] \in M => i = j

\* Context k of the AMF belongs to gNB g.
KnownId(g, k) == k \in DOMAIN contexts /\ contexts[k].gnb = g

Known(g, r) == \E k \in DOMAIN contexts : contexts[k].gnb = g /\ contexts[k].ran = r

UeOK(u) ==
  LET c == conns[Home[u]][ue[u].ran] IN
  /\ ue[u].phase = "off" => ue[u] = UeOff
  /\ ue[u].phase # "off" => ue[u].ran \in RanIds /\ c # None /\ c.ue = u /\ c.open

\* What a UE sends on its connection, at first and when it is accepted.
FirstUp(u) == <<[nas |-> "regRequest", supi |-> u]>>
CompleteUp == <<[nas |-> "regComplete"], [nas |-> "pduRequest"]>>
RequestUp  == <<[nas |-> "pduRequest"]>>
LaterUps   == {<<>>, CompleteUp, RequestUp}

\* What connection r of g may have sent ...
UplinkOK(g, r) ==
  LET c == conns[g][r] IN
  c # None =>
    /\ r <= nextRan[g]
    /\ Home[c.ue] = g
    /\ c.open => ue[c.ue].phase # "off" /\ ue[c.ue].ran = r
    /\ c.amf # 0 => KnownId(g, c.amf)
    /\ c.first => c.up = FirstUp(c.ue)
    /\ ~c.first => c.up \in LaterUps
    /\ ~c.first /\ c.up # <<>> => c.amf # 0 /\ Known(g, r)

\* ... and what it may yet get.
DownlinkOK(g, r) ==
  LET c == conns[g][r] IN
  c # None =>
    \A m \in Range(c.down) :
      /\ m.nas = "regAccept" =>
           c.amf # 0 /\ KnownId(g, m.guti) /\ contexts[m.guti].ran = r
      /\ m.nas = "pduAccept" /\ m.dl # 0 => m.dl \in tunnels[g] \cup broken[g]

AmfMessageOK(g, m) ==
  /\ m.type = "initialUE" =>
       /\ m.ran <= nextRan[g]
       /\ m.pdu.nas = "regRequest" /\ Home[m.pdu.supi] = g
       /\ conns[g][m.ran] # None => conns[g][m.ran].ue = m.pdu.supi
  /\ m.type = "uplinkNAS" =>
       m.pdu.nas \in {"regComplete", "pduRequest"} /\ KnownId(g, m.amf) /\ Known(g, m.ran)
  /\ m.type = "setupResponse" => KnownId(g, m.amf) /\ m.dl < nextDl[g]

GnbMessageOK(g, m) ==
  /\ m.type = "setupRequest" => KnownId(g, m.amf) /\ nextDl[g] <= m.ul /\ m.ul <= Len(smf)
  /\ m.type = "downlinkNAS" =>
       /\ m.pdu.nas = "regAccept" =>
            m.pdu.guti = m.amf /\ KnownId(g, m.amf) /\ contexts[m.amf].ran = m.ran
       /\ m.pdu.nas = "regReject" => m.amf = 0 /\ m.ran <= nextRan[g] /\ ~Known(g, m.ran)
       /\ m.pdu.nas \in {"pduAccept", "pduReject"} => KnownId(g, m.amf)
       /\ m.pdu.nas = "pduAccept" => m.pdu.dl < nextDl[g]

ContextOK(k) ==
  LET c == contexts[k] IN
  /\ Home[c.supi] = c.gnb
  /\ c.ran <= nextRan[c.gnb]
  /\ conns[c.gnb][c.ran] # None => conns[c.gnb][c.ran].ue = c.supi

----------------------------------------------------------------------------
(* A connection on its way to its session request.                         *)

Initials(r) == {m \in UplinkNgap : m.type = "initialUE" /\ m.ran = r}

Requests(r) == {m \in UplinkNgap : m.type = "uplinkNAS" /\ m.ran = r /\ m.pdu.nas = "pduRequest"}

Answers(r) == {m \in DownlinkNgap : m.type = "downlinkNAS" /\ m.ran = r
                                      /\ m.pdu.nas \in {"regAccept", "regReject"}}

Accepts == {m \in DownlinkNas : m.nas = "regAccept"}

Places == {"fresh", "first", "initial", "answered", "accepted", "wants", "requested"}

\* Where connection r of g stands, with what it is seen by.
IsAt(g, r, place) ==
  \/ place = "fresh" /\ r > nextRan[g]
  \/ place = "first" /\ conns[g][r] # None /\ conns[g][r].first
  \/ place = "initial" /\ Has(toAmf[g], Initials(r))
  \/ place = "answered" /\ Has(toGnb[g], Answers(r))
  \/ place = "accepted" /\ conns[g][r] # None /\ Has(conns[g][r].down, Accepts)
  \/ place = "wants" /\ conns[g][r] # None /\ ~conns[g][r].first /\ conns[g][r].up # <<>>
  \/ place = "requested" /\ Has(toAmf[g], Requests(r))

\* It stands in one place at a time ...
OnePlace(g, r) ==
  /\ \A x, y \in Places : IsAt(g, r, x) /\ IsAt(g, r, y) => x = y
  /\ \A x \in {"fresh", "first", "initial"} : IsAt(g, r, x) => ~Known(g, r)

\* ... and in one message there.
OneMessage(g, r) ==
  /\ AtMostOne(toAmf[g], Initials(r))
  /\ AtMostOne(toAmf[g], Requests(r))
  /\ AtMostOne(toGnb[g], Answers(r))
  /\ conns[g][r] # None => AtMostOne(conns[g][r].down, Accepts)

\* Connections whose session request, if any, the AMF has read.
Spent == {p \in Gnbs \X RanIds : \A x \in Places : ~IsAt(p[1], p[2], x)}

----------------------------------------------------------------------------
(* Tunnels.                                                                *)

\* Resource setups reach a gNB in the order of their sessions.
Ordered(q) ==
  \A i, j \in DOMAIN q :
    i < j /\ q[i].type = "setupRequest" /\ q[j].type = "setupRequest" => q[i].ul < q[j].ul

SetupsInOrder(g) == Ordered(toGnb[g])

\* The TEIDs given out are open or broken, but for the one the loop is busy with.
TunnelsOK(g) ==
  /\ nextDl[g] <= Len(smf) + 1
  /\ \A d \in tunnels[g] : d < nextDl[g]
  /\ \A d \in Sessions :
       d < nextDl[g] => d \in tunnels[g] \cup broken[g] \/ (loop[g].pc = "open" /\ d = loop[g].dl)
  /\ loop[g].pc # "read" =>
       /\ loop[g].ran \in RanIds /\ loop[g].ul \in Sessions /\ loop[g].dl \in Sessions
       /\ loop[g].dl < nextDl[g]
       /\ \A n \in Sessions : peer[n] # None /\ peer[n].gnb = g => peer[n].dl # loop[g].dl
  /\ loop[g].pc = "notify" => loop[g].dl \in tunnels[g]

MessagesOK ==
  \A g \in Gnbs :
    /\ \A m \in Range(toAmf[g]) : AmfMessageOK(g, m)
    /\ \A m \in Range(toGnb[g]) : GnbMessageOK(g, m)

ConnsOK == \A g \in Gnbs, r \in RanIds : UplinkOK(g, r) /\ DownlinkOK(g, r)

PlacesOK == \A g \in Gnbs, r \in RanIds : OnePlace(g, r) /\ OneMessage(g, r)

SessionsOK == \A g \in Gnbs : SetupsInOrder(g) /\ TunnelsOK(g)

IInv ==
  /\ TypeOK
  /\ \A u \in UEs : UeOK(u)
  /\ \A k \in DOMAIN contexts : ContextOK(k)
  /\ ConnsOK /\ MessagesOK /\ PlacesOK /\ SessionsOK
  /\ Len(smf) <= Cardinality(Spent)
  /\ RegisteredAsSelf /\ ContextsApart /\ TunnelBeforeAccept /\ PeersApart

----------------------------------------------------------------------------
(* Queues.                                                                 *)

LEMMA TailFacts ==
  ASSUME NEW S, NEW s \in Seq(S), s # <<>>
  PROVE  /\ Tail(s) \in Seq(S)
         /\ Head(s) \in S
         /\ Head(s) \in Range(s)
         /\ Range(Tail(s)) \subseteq Range(s)
         /\ \A M : Has(Tail(s), M) => Has(s, M)
         /\ \A M : AtMostOne(s, M) =>
              AtMostOne(Tail(s), M) /\ (Head(s) \in M => ~Has(Tail(s), M))
<1>1. /\ Tail(s) \in Seq(S) /\ Head(s) \in S /\ Head(s) = s[1]
      /\ Len(Tail(s)) = Len(s) - 1
      /\ \A i \in 1..Len(Tail(s)) : Tail(s)[i] = s[i + 1]
  BY HeadTailProperties
<1>2. DOMAIN s = 1..Len(s) /\ DOMAIN Tail(s) = 1..Len(Tail(s)) /\ Len(s) \in Nat \ {0}
  BY <1>1, LenProperties, EmptySeq
<1>3. 1 \in DOMAIN s /\ \A i \in DOMAIN Tail(s) : i + 1 \in DOMAIN s /\ Tail(s)[i] = s[i + 1]
  BY <1>1, <1>2
<1>4. Head(s) \in Range(s) /\ Range(Tail(s)) \subseteq Range(s)
  BY <1>1, <1>3 DEF Range
<1>5. ASSUME NEW M, AtMostOne(s, M)
      PROVE  AtMostOne(Tail(s), M) /\ (Head(s) \in M => ~Has(Tail(s), M))
  <2>1. AtMostOne(Tail(s), M)
    BY <1>2, <1>3, <1>5 DEF AtMostOne
  <2>2. ASSUME Head(s) \in M, NEW i \in DOMAIN Tail(s), Tail(s)[i] \in M
        PROVE  FALSE
    BY <1>1, <1>2, <1>3, <1>5, <2>2 DEF AtMostOne
  <2> QED BY <2>1, <2>2 DEF Has, Range
<1> QED BY <1>1, <1>4, <1>5 DEF Has

LEMMA AppendFacts ==
  ASSUME NEW S, NEW s \in Seq(S), NEW e \in S
  PROVE  /\ Append(s, e) \in Seq(S)
         /\ Range(Append(s, e)) = Range(s) \cup {e}
         /\ \A M : Has(Append(s, e), M) <=> Has(s, M) \/ e \in M
         /\ \A M : AtMostOne(s, M) /\ ~(Has(s, M) /\ e \in M) => AtMostOne(Append(s, e), M)
<1> DEFINE t == Append(s, e)
<1>1. /\ t \in Seq(S) /\ Len(t) = Len(s) + 1 /\ t[Len(s) + 1] = e
      /\ \A i \in 1..Len(s) : t[i] = s[i]
  BY AppendProperties
<1>2. DOMAIN s = 1..Len(s) /\ DOMAIN t = 1..Len(t) /\ Len(s) \in Nat
  BY <1>1, LenProperties
<1> HIDE DEF t
<1>3. /\ DOMAIN t = DOMAIN s \cup {Len(s) + 1}
      /\ \A i \in DOMAIN s : t[i] = s[i]
      /\ t[Len(s) + 1] = e
  BY <1>1, <1>2
<1>4. Range(t) = Range(s) \cup {e}
  BY <1>3 DEF Range
<1>5. \A M : AtMostOne(s, M) /\ ~(Has(s, M) /\ e \in M) => AtMostOne(t, M)
  BY <1>3 DEF Has, AtMostOne, Range
<1> QED BY <1>1, <1>4, <1>5 DEF Has, t

\* AmfTurn sends no message or one.
LEMMA OutFacts ==
  ASSUME NEW S, NEW s \in Seq(S), NEW e \in S
  PROVE  s \o <<>> = s /\ s \o <<e>> = Append(s, e)
BY AppendIsConcat, ConcatEmptySeq

LEMMA EmptyFacts == Range(<<>>) = {} /\ \A M : ~Has(<<>>, M) /\ AtMostOne(<<>>, M)
BY DEF Range, Has, AtMostOne

----------------------------------------------------------------------------
(* Bounds.                                                                 *)

LEMMA Bounds == MaxIds \in Nat /\ MaxRan \in Nat \ {0} /\ SessionRanId \in RanIds
BY N2Assumption, FS_CardinalityType DEF MaxIds, RanIds, SessionRanId

LEMMA PairsFinite ==
  IsFiniteSet(Gnbs \X RanIds) /\ Cardinality(Gnbs \X RanIds) = MaxIds
<1>1. IsFiniteSet(RanIds) /\ Cardinality(RanIds) = MaxRan
  BY N2Assumption, FS_Interval DEF RanIds
<1> QED BY <1>1, N2Assumption, FS_Product DEF MaxIds

LEMMA SpentCounts ==
  ASSUME Spent \subseteq Spent'
  PROVE  /\ Cardinality(Spent) \in Nat /\ Cardinality(Spent') \in Nat
         /\ Cardinality(Spent) <= Cardinality(Spent') /\ Cardinality(Spent') <= MaxIds
         /\ \A p \in Spent' : p \notin Spent => Cardinality(Spent) + 1 <= Cardinality(Spent')
<1>1. Spent \subseteq Gnbs \X RanIds /\ Spent' \subseteq Gnbs \X RanIds
  BY DEF Spent
<1>2. IsFiniteSet(Spent') /\ Cardinality(Spent') <= MaxIds
  BY <1>1, PairsFinite, FS_Subset
<1>3. IsFiniteSet(Spent) /\ Cardinality(Spent) <= Cardinality(Spent')
  BY <1>2, FS_Subset
<1>4. Cardinality(Spent) \in Nat /\ Cardinality(Spent') \in Nat
  BY <1>2, <1>3, FS_CardinalityType
<1>5. ASSUME NEW p \in Spent', p \notin Spent
      PROVE  Cardinality(Spent) + 1 <= Cardinality(Spent')
  <2>1. Cardinality(Spent \cup {p}) = Cardinality(Spent) + 1
    BY <1>3, <1>5, FS_AddElement
  <2>2. Cardinality(Spent \cup {p}) <= Cardinality(Spent')
    BY <1>2, <1>5, FS_Subset
  <2> QED BY <2>1, <2>2
<1> QED BY <1>2, <1>3, <1>4, <1>5

\* The SMF's sessions are no more than the connections spent.
LEMMA SmfCounted ==
  ASSUME IInv
  PROVE  Len(smf) \in Nat /\ Len(smf) <= MaxIds /\ Len(smf) <= Cardinality(Spent)
<1>1. smf \in Seq(UEs) /\ Len(smf) <= MaxIds /\ Len(smf) <= Cardinality(Spent)
  BY DEF IInv, TypeOK
<1> QED BY ONLY <1>1, LenProperties

LEMMA StillCounted ==
  ASSUME IInv, smf' = smf, Spent \subseteq Spent'
  PROVE  Len(smf') <= Cardinality(Spent')
<1>1. Len(smf) \in Nat /\ Len(smf) <= Cardinality(Spent)
  BY SmfCounted
<1>2. /\ Cardinality(Spent) \in Nat /\ Cardinality(Spent') \in Nat
      /\ Cardinality(Spent) <= Cardinality(Spent')
  BY ONLY Spent \subseteq Spent', SpentCounts
<1>3. Len(smf') = Len(smf)
  OBVIOUS
<1> QED BY ONLY <1>1, <1>2, <1>3

\* There is room for the context of a connection that has none.
LEMMA RoomForContext ==
  ASSUME TypeOK, ContextsApart, NEW g \in Gnbs, NEW r \in RanIds, ~Known(g, r)
  PROVE  Len(contexts) < MaxIds
<1> DEFINE T == (Gnbs \X RanIds) \ {<<g, r>>}
           f == [k \in 1..Len(contexts) |-> <<contexts[k].gnb, contexts[k].ran>>]
<1>1. DOMAIN contexts = 1..Len(contexts) /\ Len(contexts) \in Nat
  BY LenProperties DEF TypeOK
<1>2. \A k \in 1..Len(contexts) : contexts[k] \in Context
  BY ElementOfSeq DEF TypeOK
<1>3. \A k \in 1..Len(contexts) : contexts[k].gnb \in Gnbs /\ contexts[k].ran \in RanIds
  BY <1>2 DEF Context
<1>4. \A k \in 1..Len(contexts) : f[k] \in T
  BY <1>1, <1>3 DEF Known
<1>5. f \in [1..Len(contexts) -> T]
  BY <1>4
<1>6. \A j, k \in 1..Len(contexts) : f[j] = f[k] => j = k
  BY <1>1 DEF ContextsApart
<1>7. f \in Injection(1..Len(contexts), T)
  BY <1>5, <1>6 DEF Injection, IsInjective
<1>8. IsFiniteSet(T) /\ Cardinality(T) = MaxIds - 1
  <2>1. PICK P, p : P = Gnbs \X RanIds /\ p = <<g, r>>
    OBVIOUS
  <2>2. p \in P /\ IsFiniteSet(P) /\ Cardinality(P) = MaxIds
    BY <2>1, PairsFinite
  <2>3. IsFiniteSet(P \ {p}) /\ Cardinality(P \ {p}) = Cardinality(P) - 1
    BY ONLY <2>2, FS_RemoveElement
  <2> QED BY <2>1, <2>2, <2>3
<1>9. Cardinality(1..Len(contexts)) = Len(contexts)
  <2>1. ASSUME NEW n \in Nat PROVE Cardinality(1..n) = n
    BY ONLY n \in Nat, FS_Interval
  <2> QED BY <1>1, <2>1
<1> HIDE DEF T, f
<1>10. Len(contexts) <= Cardinality(T)
  BY <1>7, <1>8, <1>9, FS_Injection
<1> QED BY <1>1, <1>8, <1>10, Bounds

----------------------------------------------------------------------------
(* Places.                                                                 *)

LEMMA PlacesKept ==
  ASSUME PlacesOK,
         \A g \in Gnbs, r \in RanIds, x \in Places : IsAt(g, r, x)' => IsAt(g, r, x),
         \A g \in Gnbs, r \in RanIds : Known(g, r)' => Known(g, r)
  PROVE  /\ \A g \in Gnbs, r \in RanIds : OnePlace(g, r)'
         /\ Spent \subseteq Spent'
<1>1. {"fresh", "first", "initial"} \subseteq Places
  BY DEF Places
<1>2. \A g \in Gnbs, r \in RanIds : OnePlace(g, r)'
  BY <1>1 DEF PlacesOK, OnePlace
<1>3. \A p \in Gnbs \X RanIds : p[1] \in Gnbs /\ p[2] \in RanIds
  OBVIOUS
<1> QED BY <1>2, <1>3 DEF Spent

\* Connection r of g goes on from one place to another.
LEMMA PlacesMoved ==
  ASSUME PlacesOK, NEW g \in Gnbs, NEW r \in RanIds, NEW from \in Places, NEW to \in Places,
         IsAt(g, r, from), ~IsAt(g, r, from)',
         \A h \in Gnbs, s \in RanIds, x \in Places :
           IsAt(h, s, x)' => IsAt(h, s, x) \/ (h = g /\ s = r /\ x = to),
         \A h \in Gnbs, s \in RanIds :
           Known(h, s)' => Known(h, s) \/ (h = g /\ s = r),
         to \in {"fresh", "first", "initial"} => ~Known(g, r)'
  PROVE  /\ \A h \in Gnbs, s \in RanIds : OnePlace(h, s)'
         /\ Spent \subseteq Spent'
<1>1. {"fresh", "first", "initial"} \subseteq Places
  BY DEF Places
<1>2. \A x \in Places : IsAt(g, r, x)' => x = to
  BY DEF PlacesOK, OnePlace
<1>3. ASSUME NEW h \in Gnbs, NEW s \in RanIds PROVE OnePlace(h, s)'
  <2>1. CASE h = g /\ s = r
    BY <1>1, <1>2, <2>1 DEF OnePlace
  <2>2. CASE ~(h = g /\ s = r)
    BY <1>1, <2>2 DEF PlacesOK, OnePlace
  <2> QED BY <2>1, <2>2
<1>4. \A p \in Gnbs \X RanIds : p[1] \in Gnbs /\ p[2] \in RanIds
  OBVIOUS
<1>5. Spent \subseteq Spent'
  BY <1>4 DEF Spent
<1> QED BY <1>3, <1>5

----------------------------------------------------------------------------
(* Types.                                                                  *)

LEMMA UplinkNasFields ==
  ASSUME NEW m \in UplinkNas
  PROVE  /\ m.nas \in {"regRequest", "regComplete", "pduRequest"}
         /\ m.nas = "regRequest" => m.supi \in UEs
BY DEF UplinkNas

LEMMA DownlinkNasFields ==
  ASSUME NEW m \in DownlinkNas
  PROVE  /\ m.nas \in {"regAccept", "pduAccept", "regReject", "pduReject"}
         /\ m.nas = "regAccept" => m.guti \in Sessions
         /\ m.nas = "pduAccept" => m.ip \in Sessions /\ m.dl \in 0..MaxIds
BY DEF DownlinkNas

LEMMA UplinkFields ==
  ASSUME NEW m \in UplinkNgap
  PROVE  /\ m.type \in {"initialUE", "uplinkNAS", "setupResponse"}
         /\ m.type = "initialUE" => m.ran \in RanIds /\ m.pdu \in UplinkNas
         /\ m.type = "uplinkNAS" => m.amf \in 0..MaxIds /\ m.ran \in RanIds /\ m.pdu \in UplinkNas
         /\ m.type = "setupResponse" => m.amf \in Sessions /\ m.dl \in Sessions
BY DEF UplinkNgap

LEMMA DownlinkFields ==
  ASSUME NEW m \in DownlinkNgap
  PROVE  /\ m.type \in {"downlinkNAS", "setupRequest"}
         /\ m.ran \in RanIds
         /\ m.type = "downlinkNAS" => m.amf \in 0..MaxIds /\ m.pdu \in DownlinkNas
         /\ m.type = "setupRequest" => m.amf \in Sessions /\ m.ul \in Sessions
BY DEF DownlinkNgap

LEMMA MessagesMade ==
  ASSUME NEW r \in RanIds, NEW k \in 0..MaxIds, NEW n \in Sessions, NEW l \in Sessions
  PROVE  /\ \A pdu \in UplinkNas :
              /\ [type |-> "initialUE", ran |-> r, pdu |-> pdu] \in UplinkNgap
              /\ [type |-> "uplinkNAS", amf |-> k, ran |-> r, pdu |-> pdu] \in UplinkNgap
         /\ [type |-> "setupResponse", amf |-> n, dl |-> l] \in UplinkNgap
         /\ \A pdu \in DownlinkNas : DownlinkNAS(k, r, pdu) \in DownlinkNgap
         /\ [type |-> "setupRequest", amf |-> n, ran |-> r, ul |-> l] \in DownlinkNgap
         /\ [nas |-> "regAccept", guti |-> n] \in DownlinkNas
         /\ [nas |-> "pduAccept", ip |-> n, dl |-> l] \in DownlinkNas
         /\ [nas |-> "regReject"] \in DownlinkNas /\ [nas |-> "pduReject"] \in DownlinkNas
<1>1. \A pdu \in UplinkNas :
        /\ [type |-> "initialUE", ran |-> r, pdu |-> pdu] \in UplinkNgap
        /\ [type |-> "uplinkNAS", amf |-> k, ran |-> r, pdu |-> pdu] \in UplinkNgap
  BY DEF UplinkNgap
<1>2. [type |-> "setupResponse", amf |-> n, dl |-> l] \in UplinkNgap
  BY DEF UplinkNgap
<1>3. \A pdu \in DownlinkNas : DownlinkNAS(k, r, pdu) \in DownlinkNgap
  BY DEF DownlinkNgap, DownlinkNAS
<1>4. [type |-> "setupRequest", amf |-> n, ran |-> r, ul |-> l] \in DownlinkNgap
  BY DEF DownlinkNgap
<1>5. /\ [nas |-> "regAccept", guti |-> n] \in DownlinkNas
      /\ [nas |-> "pduAccept", ip |-> n, dl |-> l] \in DownlinkNas
      /\ [nas |-> "regReject"] \in DownlinkNas /\ [nas |-> "pduReject"] \in DownlinkNas
  <2>1. l \in 0..MaxIds
    BY Bounds DEF Sessions
  <2> QED BY <2>1 DEF DownlinkNas
<1> QED BY <1>1, <1>2, <1>3, <1>4, <1>5

LEMMA ContextTyped ==
  ASSUME TypeOK, NEW k \in DOMAIN contexts
  PROVE  contexts[k] \in Context /\ k \in Sessions /\ DOMAIN contexts = 1..Len(contexts)
<1>1. DOMAIN contexts = 1..Len(contexts) /\ Len(contexts) \in Nat /\ Len(contexts) <= MaxIds
  BY LenProperties DEF TypeOK
<1> QED BY <1>1, ElementOfSeq, Bounds DEF TypeOK, Sessions

\* One connection changes.
ConnBecomes(g, r, d) == conns' = [conns EXCEPT ![g][r] = d]

LEMMA ConnSet ==
  ASSUME TypeOK, NEW g \in Gnbs, NEW r \in RanIds, NEW d \in Connection \cup {None},
         ConnBecomes(g, r, d)
  PROVE  /\ conns' \in [Gnbs -> [RanIds -> Connection \cup {None}]]
         /\ conns'[g][r] = d
         /\ \A h \in Gnbs, s \in RanIds : ~(h = g /\ s = r) => conns'[h][s] = conns[h][s]
BY DEF TypeOK, ConnBecomes

LEMMA AmfQueueSet ==
  ASSUME TypeOK, NEW g \in Gnbs, NEW q \in Seq(UplinkNgap), toAmf' = [toAmf EXCEPT ![g] = q]
  PROVE  /\ toAmf' \in [Gnbs -> Seq(UplinkNgap)]
         /\ toAmf'[g] = q
         /\ \A h \in Gnbs : h # g => toAmf'[h] = toAmf[h]
BY DEF TypeOK

LEMMA GnbQueueSet ==
  ASSUME TypeOK, NEW g \in Gnbs, NEW q \in Seq(DownlinkNgap), toGnb' = [toGnb EXCEPT ![g] = q]
  PROVE  /\ toGnb' \in [Gnbs -> Seq(DownlinkNgap)]
         /\ toGnb'[g] = q
         /\ \A h \in Gnbs : h # g => toGnb'[h] = toGnb[h]
BY DEF TypeOK

----------------------------------------------------------------------------
(* The gNB's loop between two messages.                                    *)

LEMMA LoopFrame ==
  ASSUME IInv, UNCHANGED <<ue, nextRan, conns, nextDl, toAmf, toGnb, contexts, smf>>,
         \A g \in Gnbs : tunnels[g] \subseteq tunnels'[g] /\ broken[g] \subseteq broken'[g],
         TypeOK', \A g \in Gnbs : TunnelsOK(g)', PeersApart'
  PROVE  IInv' /\ Spent \subseteq Spent'
<1>1. \A u \in UEs : UeOK(u)'
  BY DEF IInv, UeOK
<1>2. \A k \in DOMAIN contexts' : ContextOK(k)'
  BY DEF IInv, ContextOK
<1>3. \A g \in Gnbs, r \in RanIds : UplinkOK(g, r)'
  BY DEF IInv, ConnsOK, UplinkOK, KnownId, Known
<1>4. \A g \in Gnbs, r \in RanIds : DownlinkOK(g, r)'
  BY DEF IInv, ConnsOK, DownlinkOK, KnownId
<1>5. MessagesOK'
  BY DEF IInv, MessagesOK, AmfMessageOK, GnbMessageOK, KnownId, Known
<1>6. PlacesOK' /\ Len(smf') <= Cardinality(Spent') /\ Spent \subseteq Spent'
  <2>1. \A g, r, x : IsAt(g, r, x)' <=> IsAt(g, r, x)
    BY DEF IsAt
  <2>2. \A g, r : (Known(g, r)' <=> Known(g, r)) /\ (OneMessage(g, r)' <=> OneMessage(g, r))
    BY DEF Known, OneMessage
  <2>3. Spent' = Spent
    BY <2>1 DEF Spent
  <2> QED BY <2>1, <2>2, <2>3 DEF IInv, PlacesOK, OnePlace
<1>7. SessionsOK'
  BY DEF IInv, SessionsOK, SetupsInOrder
<1>8. RegisteredAsSelf' /\ ContextsApart'
  BY DEF IInv, RegisteredAsSelf, ContextsApart
<1>9. TunnelBeforeAccept'
  BY N2Assumption DEF IInv, TunnelBeforeAccept
<1> QED BY <1>1, <1>2, <1>3, <1>4, <1>5, <1>6, <1>7, <1>8, <1>9 DEF IInv, ConnsOK

LEMMA OpenTunnelKeeps ==
  ASSUME IInv, NEW g \in Gnbs, GnbOpenTunnel(g)
  PROVE  IInv' /\ Spent \subseteq Spent'
<1> USE Bounds
<1>1. PICK s : s = loop[g]
  OBVIOUS
<1>2. /\ s.pc = "open"
      /\ tunnels' = [tunnels EXCEPT ![g] = @ \cup {s.dl}]
      /\ ueSessions' = [ueSessions EXCEPT ![g][s.ran] = [ul |-> s.ul, dl |-> s.dl]]
      /\ loop' = [loop EXCEPT ![g].pc = "notify"]
      /\ UNCHANGED <<ue, nextRan, conns, nextDl, broken, silent, toAmf, toGnb, contexts, smf, peer>>
  BY <1>1 DEF GnbOpenTunnel, ueVars, n2, amfVars
<1>3. /\ s.ran \in RanIds /\ s.ul \in Sessions /\ s.dl \in Sessions /\ s.dl < nextDl[g]
      /\ \A n \in Sessions : peer[n] # None /\ peer[n].gnb = g => peer[n].dl # s.dl
  BY <1>1, <1>2 DEF IInv, SessionsOK, TunnelsOK
<1>4. TypeOK'
  <2>1. tunnels' \in [Gnbs -> SUBSET Sessions]
    BY <1>2, <1>3 DEF IInv, TypeOK
  <2>2. ueSessions' \in [Gnbs -> [RanIds -> [ul : Sessions, dl : Sessions] \cup {None}]]
    BY <1>2, <1>3 DEF IInv, TypeOK
  <2>3. loop' \in [Gnbs -> [pc : {"read", "open", "notify"}, ran : 0..MaxRan,
                            ul : 0..MaxIds, dl : 0..MaxIds]]
    <3>1. /\ loop \in [Gnbs -> [pc : {"read", "open", "notify"}, ran : 0..MaxRan,
                               ul : 0..MaxIds, dl : 0..MaxIds]]
          /\ "notify" \in {"read", "open", "notify"}
      BY DEF IInv, TypeOK
    <3> QED BY <1>2, <3>1
  <2> QED BY <1>2, <2>1, <2>2, <2>3 DEF IInv, TypeOK
<1>5. \A h \in Gnbs : TunnelsOK(h)'
  <2>1. TunnelsOK(g)'
    BY <1>1, <1>2, <1>3 DEF IInv, TypeOK, SessionsOK, TunnelsOK
  <2>2. ASSUME NEW h \in Gnbs, h # g PROVE TunnelsOK(h)'
    BY <1>2, <2>2 DEF IInv, TypeOK, SessionsOK, TunnelsOK
  <2> QED BY <2>1, <2>2
<1>6. \A h \in Gnbs : tunnels[h] \subseteq tunnels'[h] /\ broken[h] \subseteq broken'[h]
  BY <1>2 DEF IInv, TypeOK
<1>7. PeersApart'
  BY <1>2, <1>6 DEF IInv, TypeOK, PeersApart
<1> QED BY <1>2, <1>4, <1>5, <1>6, <1>7, LoopFrame

LEMMA OpenFailsKeeps ==
  ASSUME IInv, NEW g \in Gnbs, GnbOpenFails(g)
  PROVE  IInv' /\ Spent \subseteq Spent'
<1> USE Bounds
<1>1. /\ loop[g].pc = "open"
      /\ broken' = [broken EXCEPT ![g] = @ \cup {loop[g].dl}]
      /\ loop' = [loop EXCEPT ![g] = Reading]
      /\ UNCHANGED <<ue, nextRan, conns, nextDl, tunnels, ueSessions, silent, toAmf, toGnb,
                     contexts, smf, peer>>
  BY DEF GnbOpenFails, ueVars, n2, amfVars
<1>2. loop[g].dl \in Sessions
  BY <1>1 DEF IInv, SessionsOK, TunnelsOK
<1>3. TypeOK'
  <2>1. broken' \in [Gnbs -> SUBSET Sessions]
    BY <1>1, <1>2 DEF IInv, TypeOK
  <2>2. loop' \in [Gnbs -> [pc : {"read", "open", "notify"}, ran : 0..MaxRan,
                            ul : 0..MaxIds, dl : 0..MaxIds]]
    BY <1>1 DEF IInv, TypeOK, Reading
  <2> QED BY <1>1, <2>1, <2>2 DEF IInv, TypeOK
<1>4. \A h \in Gnbs : TunnelsOK(h)'
  <2>1. TunnelsOK(g)'
    BY <1>1, <1>2 DEF IInv, TypeOK, SessionsOK, TunnelsOK, Reading
  <2>2. ASSUME NEW h \in Gnbs, h # g PROVE TunnelsOK(h)'
    BY <1>1, <2>2 DEF IInv, TypeOK, SessionsOK, TunnelsOK
  <2> QED BY <2>1, <2>2
<1>5. \A h \in Gnbs : tunnels[h] \subseteq tunnels'[h] /\ broken[h] \subseteq broken'[h]
  BY <1>1 DEF IInv, TypeOK
<1>6. PeersApart'
  BY <1>1 DEF IInv, PeersApart
<1> QED BY <1>1, <1>3, <1>4, <1>5, <1>6, LoopFrame

LEMMA NotifyUpfKeeps ==
  ASSUME IInv, NEW g \in Gnbs, GnbNotifyUpf(g)
  PROVE  IInv' /\ Spent \subseteq Spent'
<1> USE Bounds
<1>1. PICK s : s = loop[g]
  OBVIOUS
<1>2. /\ s.pc = "notify"
      /\ loop' = [loop EXCEPT ![g] = Reading]
      /\ peer' = [peer EXCEPT ![s.ul] = [gnb |-> g, dl |-> s.dl]] \/ peer' = peer
      /\ UNCHANGED <<ue, nextRan, conns, nextDl, tunnels, ueSessions, broken, silent, toAmf, toGnb, contexts, smf>>
  BY <1>1 DEF GnbNotifyUpf, ueVars, n2, amfVars
<1>3. /\ s.ul \in Sessions /\ s.dl \in Sessions /\ s.dl \in tunnels[g]
      /\ \A n \in Sessions : peer[n] # None /\ peer[n].gnb = g => peer[n].dl # s.dl
  BY <1>1, <1>2 DEF IInv, SessionsOK, TunnelsOK
<1>4. PICK p : p = [gnb |-> g, dl |-> s.dl]
  OBVIOUS
<1>5. p \in [gnb : Gnbs, dl : Sessions] /\ p.gnb = g /\ p.dl = s.dl
  BY <1>3, <1>4
<1>6. /\ peer' \in [Sessions -> [gnb : Gnbs, dl : Sessions] \cup {None}]
      /\ \A n \in Sessions : peer'[n] = peer[n] \/ (n = s.ul /\ peer'[n] = p)
  <2>1. PICK ul, peers : ul = s.ul /\ peers = [gnb : Gnbs, dl : Sessions] \cup {None}
    OBVIOUS
  <2>2. peer' = [peer EXCEPT ![ul] = p] \/ peer' = peer
    BY <1>2, <1>4, <2>1
  <2>3. peer \in [Sessions -> peers]
    BY <2>1 DEF IInv, TypeOK
  <2>4. p \in peers /\ ul \in Sessions
    BY <1>3, <1>5, <2>1
  <2>5. peer' \in [Sessions -> peers] /\ \A n \in Sessions : peer'[n] = peer[n] \/ (n = ul /\ peer'[n] = p)
    BY ONLY <2>2, <2>3, <2>4
  <2> QED BY <2>1, <2>5
<1>7. TypeOK'
  <2>1. loop' \in [Gnbs -> [pc : {"read", "open", "notify"}, ran : 0..MaxRan,
                            ul : 0..MaxIds, dl : 0..MaxIds]]
    BY <1>2 DEF IInv, TypeOK, Reading
  <2> QED BY <1>2, <1>6, <2>1 DEF IInv, TypeOK
<1>8. \A h \in Gnbs : TunnelsOK(h)'
  <2>1. TunnelsOK(g)'
    BY <1>1, <1>2 DEF IInv, TypeOK, SessionsOK, TunnelsOK, Reading
  <2>2. ASSUME NEW h \in Gnbs, h # g PROVE TunnelsOK(h)'
    <3>1. loop'[h] = loop[h] /\ nextDl' = nextDl /\ tunnels' = tunnels /\ broken' = broken /\ smf' = smf
      BY <1>2, <2>2 DEF IInv, TypeOK
    <3>2. \A n \in Sessions : peer'[n] # None /\ peer'[n].gnb = h => peer'[n] = peer[n]
      BY <1>5, <1>6, <2>2
    <3> QED BY <3>1, <3>2 DEF IInv, SessionsOK, TunnelsOK
  <2> QED BY <2>1, <2>2
<1>9. PeersApart'
  <2>1. \A n \in Sessions : peer'[n] # None => peer'[n].dl \in tunnels'[peer'[n].gnb]
    BY <1>2, <1>3, <1>5, <1>6 DEF IInv, PeersApart
  <2>2. ASSUME NEW m \in Sessions, NEW n \in Sessions, peer'[m] = peer'[n], peer'[m] # None
        PROVE  m = n
    BY <1>3, <1>5, <1>6, <2>2 DEF IInv, PeersApart
  <2> QED BY <2>1, <2>2 DEF PeersApart
<1> QED BY <1>2, <1>7, <1>8, <1>9, LoopFrame

----------------------------------------------------------------------------
(* The UE's steps.                                                         *)

\* What depends on a connection only through the UE it is of.
LEMMA ConnFrame ==
  ASSUME IInv, NEW g \in Gnbs, NEW r \in RanIds,
         UNCHANGED <<loop, nextDl, tunnels, ueSessions, broken, silent, contexts, smf, peer>>,
         nextRan' \in [Gnbs -> 0..MaxRan], \A h \in Gnbs : nextRan[h] <= nextRan'[h],
         \A h \in Gnbs, s \in RanIds : ~(h = g /\ s = r) => conns'[h][s] = conns[h][s],
         conns'[g][r] # None =>
           \/ conns[g][r] # None /\ conns'[g][r].ue = conns[g][r].ue
           \/ r > nextRan[g]
  PROVE  /\ \A k \in DOMAIN contexts' : ContextOK(k)'
         /\ \A h \in Gnbs, m \in UplinkNgap : AmfMessageOK(h, m) => AmfMessageOK(h, m)'
         /\ \A h \in Gnbs, m \in DownlinkNgap : GnbMessageOK(h, m) => GnbMessageOK(h, m)'
         /\ \A h \in Gnbs : TunnelsOK(h)'
         /\ \A h \in Gnbs, s \in RanIds : ~(h = g /\ s = r) => DownlinkOK(h, s)'
         /\ ContextsApart' /\ PeersApart'
<1> USE Bounds
<1>1. /\ nextRan \in [Gnbs -> 0..MaxRan] /\ nextRan' \in [Gnbs -> 0..MaxRan]
      /\ \A h \in Gnbs : nextRan[h] \in Nat /\ nextRan'[h] \in Nat
      /\ \A h \in Gnbs : nextRan[h] <= nextRan'[h]
      /\ \A s \in RanIds : s \in Nat
  <2>1. nextRan \in [Gnbs -> 0..MaxRan]
    BY DEF IInv, TypeOK
  <2> QED BY ONLY <2>1, nextRan' \in [Gnbs -> 0..MaxRan], Bounds,
                  \A h \in Gnbs : nextRan[h] <= nextRan'[h] DEF RanIds
<1>2. ASSUME NEW k \in DOMAIN contexts' PROVE ContextOK(k)'
  <2>1. /\ contexts'[k] = contexts[k] /\ k \in DOMAIN contexts
        /\ contexts[k].gnb \in Gnbs /\ contexts[k].ran \in RanIds
    BY ContextTyped DEF IInv, Context
  <2>2. ContextOK(k)
    BY <2>1 DEF IInv
  <2>3. contexts[k].ran <= nextRan'[contexts[k].gnb]
    <3>1. PICK h \in Gnbs, s \in RanIds : h = contexts[k].gnb /\ s = contexts[k].ran
      BY <2>1
    <3>2. s <= nextRan[h]
      BY <2>2, <3>1 DEF ContextOK
    <3>3. s <= nextRan'[h]
      BY <1>1, <3>2
    <3> QED BY <3>1, <3>3
  <2> QED BY <1>1, <2>1, <2>2, <2>3 DEF ContextOK, RanIds
<1>3. ASSUME NEW h \in Gnbs, NEW m \in UplinkNgap, AmfMessageOK(h, m)
      PROVE  AmfMessageOK(h, m)'
  <2>1. CASE m.type = "initialUE"
    <3>1. PICK s \in RanIds : s = m.ran
      BY <2>1, UplinkFields
    <3>2. s <= nextRan'[h]
      BY <1>1, <1>3, <2>1, <3>1 DEF AmfMessageOK
    <3>3. conns'[h][s] # None => conns'[h][s].ue = m.pdu.supi
      BY <1>1, <1>3, <2>1, <3>1 DEF AmfMessageOK
    <3> QED BY <1>3, <2>1, <3>1, <3>2, <3>3 DEF AmfMessageOK
  <2>2. CASE m.type # "initialUE"
    BY <1>3, <2>2 DEF AmfMessageOK, KnownId, Known
  <2> QED BY <2>1, <2>2
<1>4. ASSUME NEW h \in Gnbs, NEW m \in DownlinkNgap, GnbMessageOK(h, m)
      PROVE  GnbMessageOK(h, m)'
  BY <1>1, <1>4, DownlinkFields DEF GnbMessageOK, KnownId, Known, RanIds
<1>5. \A h \in Gnbs : TunnelsOK(h)'
  BY DEF IInv, SessionsOK, TunnelsOK
<1>6. \A h \in Gnbs, s \in RanIds : ~(h = g /\ s = r) => DownlinkOK(h, s)'
  BY DEF IInv, ConnsOK, DownlinkOK, KnownId
<1>7. ContextsApart' /\ PeersApart'
  BY DEF IInv, ContextsApart, PeersApart
<1> QED BY <1>2, <1>3, <1>4, <1>5, <1>6, <1>7

\* A UE takes a message from its connection.
LEMMA ReceivedFacts ==
  ASSUME IInv, NEW u \in UEs, NEW kind, Received(u, kind)
  PROVE  \E g \in Gnbs, r \in RanIds, c \in Connection :
           /\ g = Home[u] /\ r = ue[u].ran /\ c = conns[g][r] /\ c # None
           /\ c.ue = u /\ c.open /\ c.down # <<>> /\ c.down \in Seq(DownlinkNas)
           /\ Inbox(u) = Head(c.down) /\ Inbox(u).nas = kind /\ Inbox(u) \in DownlinkNas
           /\ Inbox(u) \in Range(c.down)
<1>1. Home[u] \in Gnbs /\ ue[u].ran \in RanIds
  BY N2Assumption DEF IInv, UeOK, Received
<1>2. PICK c : c = conns[Home[u]][ue[u].ran]
  OBVIOUS
<1>3. /\ c # None /\ c.ue = u /\ c.open /\ c.down # <<>> /\ Head(c.down).nas = kind
      /\ ue[u].phase # "off"
  BY <1>2 DEF IInv, UeOK, Received
<1>4. c \in Connection
  BY <1>1, <1>2, <1>3 DEF IInv, TypeOK
<1>5. c.down \in Seq(DownlinkNas)
  BY <1>4 DEF Connection
<1>6. Head(c.down) \in DownlinkNas /\ Head(c.down) \in Range(c.down)
  BY <1>3, <1>5, TailFacts
<1> QED BY <1>1, <1>2, <1>3, <1>4, <1>5, <1>6 DEF Inbox

Exchanged(c, reply) == [c EXCEPT !.down = Tail(c.down), !.up = c.up \o reply]

LEMMA ConnExchanged ==
  ASSUME NEW c \in Connection, c.down # <<>>, NEW reply \in Seq(UplinkNas),
         NEW d, d = Exchanged(c, reply)
  PROVE  /\ d \in Connection
         /\ d.ue = c.ue /\ d.open = c.open /\ d.first = c.first /\ d.amf = c.amf
         /\ d.down = Tail(c.down) /\ d.up = c.up \o reply
<1>1. Tail(c.down) \in Seq(DownlinkNas) /\ c.up \o reply \in Seq(UplinkNas)
  BY TailFacts, ConcatProperties DEF Connection
<1> QED BY <1>1 DEF Connection, Exchanged

LEMMA ExchangedConns ==
  ASSUME TypeOK, NEW u, NEW reply, Exchange(u, reply),
         NEW g \in Gnbs, NEW r \in RanIds, NEW d \in Connection,
         g = Home[u], r = ue[u].ran, d = Exchanged(conns[g][r], reply)
  PROVE  /\ conns' \in [Gnbs -> [RanIds -> Connection \cup {None}]]
         /\ conns'[g][r] = d
         /\ \A h \in Gnbs, s \in RanIds : ~(h = g /\ s = r) => conns'[h][s] = conns[h][s]
<1>1. conns' = [conns EXCEPT ![Home[u]][ue[u].ran] = Exchanged(conns[Home[u]][ue[u].ran], reply)]
  BY DEF Exchange, Exchanged
<1>2. conns' = [conns EXCEPT ![g][r] = Exchanged(conns[g][r], reply)]
  BY <1>1
<1>3. conns \in [Gnbs -> [RanIds -> Connection \cup {None}]]
  BY DEF TypeOK
<1> QED BY ONLY <1>2, <1>3, g \in Gnbs, r \in RanIds, d \in Connection,
                d = Exchanged(conns[g][r], reply)

LEMMA UplinkMade ==
  ASSUME NEW g, NEW r, NEW d, conns'[g][r] = d,
         r <= nextRan'[g], Home[d.ue] = g,
         d.open => ue'[d.ue].phase # "off" /\ ue'[d.ue].ran = r,
         d.amf # 0 => KnownId(g, d.amf)',
         d.first => d.up = FirstUp(d.ue),
         ~d.first => d.up \in LaterUps,
         ~d.first /\ d.up # <<>> => d.amf # 0 /\ Known(g, r)'
  PROVE  UplinkOK(g, r)'
BY DEF UplinkOK

\* The invariant after a UE took a message from connection c, but for what the
\* message was.
ReceiveKept(g, r, c, reply) ==
  /\ \A v \in UEs : UeOK(v)'
  /\ \A k \in DOMAIN contexts' : ContextOK(k)'
  /\ \A h \in Gnbs, s \in RanIds : DownlinkOK(h, s)' /\ OneMessage(h, s)'
  /\ \A h \in Gnbs, s \in RanIds : ~(h = g /\ s = r) => UplinkOK(h, s)'
  /\ \A h \in Gnbs, s \in RanIds : Known(h, s)' <=> Known(h, s)
  /\ \A h \in Gnbs, s \in RanIds, x \in Places :
       ~(h = g /\ s = r) => (IsAt(h, s, x)' <=> IsAt(h, s, x))
  /\ MessagesOK' /\ SessionsOK' /\ ContextsApart' /\ PeersApart'
  /\ conns' \in [Gnbs -> [RanIds -> Connection \cup {None}]]
  /\ \E d \in Connection :
       /\ conns'[g][r] = d /\ d # None
       /\ d.ue = c.ue /\ d.open = c.open /\ d.first = c.first /\ d.amf = c.amf
       /\ d.down = Tail(c.down) /\ d.up = c.up \o reply

LEMMA ReceiveFrame ==
  ASSUME IInv, NEW u \in UEs, NEW kind, Received(u, kind),
         NEW reply \in Seq(UplinkNas), Exchange(u, reply),
         \A v \in UEs : v # u => ue'[v] = ue[v],
         ue'[u].phase # "off", ue'[u].ran = ue[u].ran,
         UNCHANGED <<nextRan, loop, nextDl, tunnels, ueSessions, broken, silent, toAmf, toGnb,
                     contexts, smf, peer>>,
         NEW g \in Gnbs, NEW r \in RanIds, NEW c \in Connection,
         g = Home[u], r = ue[u].ran, c = conns[g][r]
  PROVE  ReceiveKept(g, r, c, reply)
<1>1. c # None /\ c.ue = u /\ c.open /\ c.down # <<>> /\ c.down \in Seq(DownlinkNas)
  BY ReceivedFacts
<1>2. PICK d : d = Exchanged(c, reply)
  OBVIOUS
<1>3. /\ d \in Connection
      /\ d.ue = c.ue /\ d.open = c.open /\ d.first = c.first /\ d.amf = c.amf
      /\ d.down = Tail(c.down) /\ d.up = c.up \o reply
  BY ONLY ZenonT(60), c \in Connection, reply \in Seq(UplinkNas), <1>1, <1>2, ConnExchanged
<1>4. d # None
  BY <1>3, NoneAssumption
<1>5. g = Home[u] /\ r = ue[u].ran /\ d = Exchanged(conns[g][r], reply)
  BY <1>2
<1>6. /\ conns' \in [Gnbs -> [RanIds -> Connection \cup {None}]]
      /\ conns'[g][r] = d
      /\ \A h \in Gnbs, s \in RanIds : ~(h = g /\ s = r) => conns'[h][s] = conns[h][s]
  <2>1. TypeOK /\ g \in Gnbs /\ r \in RanIds /\ d \in Connection
    BY <1>3 DEF IInv
  <2> QED BY ONLY Exchange(u, reply), <1>5, <2>1, ExchangedConns
<1>7. /\ Range(d.down) \subseteq Range(c.down)
      /\ AtMostOne(c.down, Accepts) => AtMostOne(d.down, Accepts)
  <2>1. PICK q : q = c.down
    OBVIOUS
  <2>2. q \in Seq(DownlinkNas) /\ q # <<>> /\ d.down = Tail(q)
    BY <1>1, <1>3, <2>1
  <2>3. Range(Tail(q)) \subseteq Range(q) /\ (AtMostOne(q, Accepts) => AtMostOne(Tail(q), Accepts))
    BY ONLY <2>2, TailFacts
  <2> QED BY <2>1, <2>2, <2>3
<1>8. \A v \in UEs : UeOK(v)'
  <2>1. UeOK(u)'
    BY <1>1, <1>3, <1>4, <1>6 DEF UeOK
  <2>2. ASSUME NEW v \in UEs, v # u PROVE UeOK(v)'
    <3>1. UeOK(v) /\ Home[v] \in Gnbs
      BY N2Assumption DEF IInv
    <3> QED BY <1>1, <1>6, <2>2, <3>1 DEF UeOK
  <2> QED BY <2>1, <2>2
<1>9. nextRan' \in [Gnbs -> 0..MaxRan] /\ \A h \in Gnbs : nextRan[h] <= nextRan'[h]
  BY SMTT(30), Bounds DEF IInv, TypeOK
<1>10. /\ \A k \in DOMAIN contexts' : ContextOK(k)'
       /\ \A h \in Gnbs, m \in UplinkNgap : AmfMessageOK(h, m) => AmfMessageOK(h, m)'
       /\ \A h \in Gnbs, m \in DownlinkNgap : GnbMessageOK(h, m) => GnbMessageOK(h, m)'
       /\ \A h \in Gnbs : TunnelsOK(h)'
       /\ \A h \in Gnbs, s \in RanIds : ~(h = g /\ s = r) => DownlinkOK(h, s)'
       /\ ContextsApart' /\ PeersApart'
  BY ZenonT(60), <1>1, <1>3, <1>6, <1>9, ConnFrame
<1>11. DownlinkOK(g, r)'
  <2>1. DownlinkOK(g, r)
    BY DEF IInv, ConnsOK
  <2>2. contexts' = contexts /\ tunnels' = tunnels /\ broken' = broken
    OBVIOUS
  <2>3. c = conns[g][r]
    OBVIOUS
  <2> QED BY ONLY <1>1, <1>3, <1>4, <1>6, <1>7, <2>1, <2>2, <2>3 DEF DownlinkOK, KnownId
<1>12. \A h \in Gnbs, s \in RanIds : ~(h = g /\ s = r) => UplinkOK(h, s)'
  <2> SUFFICES ASSUME NEW h \in Gnbs, NEW s \in RanIds, ~(h = g /\ s = r), conns[h][s] # None
               PROVE  UplinkOK(h, s)'
    BY <1>6 DEF UplinkOK
  <2>1. UplinkOK(h, s) /\ conns[h][s].ue \in UEs
    BY DEF IInv, ConnsOK, TypeOK, Connection
  <2>2. conns[h][s].open => conns[h][s].ue # u
    BY <2>1 DEF UplinkOK
  <2> QED BY <1>6, <2>1, <2>2 DEF UplinkOK, KnownId, Known
<1>13. \A h \in Gnbs, s \in RanIds : OneMessage(h, s)'
  BY <1>1, <1>6, <1>7 DEF IInv, PlacesOK, OneMessage
<1>14. MessagesOK'
  <2>1. \A h \in Gnbs : Range(toAmf[h]) \subseteq UplinkNgap /\ Range(toGnb[h]) \subseteq DownlinkNgap
    BY RangeOfSeq DEF IInv, TypeOK
  <2> QED BY <1>10, <2>1 DEF IInv, MessagesOK
<1>15. SessionsOK'
  BY <1>10 DEF IInv, SessionsOK, SetupsInOrder
<1>16. \A h \in Gnbs, s \in RanIds : Known(h, s)' <=> Known(h, s)
  BY DEF Known
<1>17. \A h \in Gnbs, s \in RanIds, x \in Places :
         ~(h = g /\ s = r) => (IsAt(h, s, x)' <=> IsAt(h, s, x))
  BY <1>6 DEF IsAt
<1>18. \E e \in Connection :
         /\ conns'[g][r] = e /\ e # None
         /\ e.ue = c.ue /\ e.open = c.open /\ e.first = c.first /\ e.amf = c.amf
         /\ e.down = Tail(c.down) /\ e.up = c.up \o reply
  BY <1>3, <1>4, <1>6
<1> QED BY ONLY <1>6, <1>8, <1>10, <1>11, <1>12, <1>13, <1>14, <1>15, <1>16, <1>17, <1>18
        DEF ReceiveKept

\* The UE's record when it took a message: its phase, identity and addresses change.
LEMMA UeTyped ==
  ASSUME IInv, NEW u \in UEs, NEW x, ue' = [ue EXCEPT ![u] = x],
         x \in [phase : Phases, ran : 0..MaxRan, guti : 0..MaxIds,
                ip : 0..MaxIds, dl : 0..MaxIds, refused : BOOLEAN],
         conns' \in [Gnbs -> [RanIds -> Connection \cup {None}]],
         nextRan' \in [Gnbs -> 0..MaxRan],
         UNCHANGED <<loop, nextDl, tunnels, ueSessions, broken, silent, toAmf, toGnb, contexts, smf, peer>>
  PROVE  TypeOK' /\ ue'[u] = x /\ \A v \in UEs : v # u => ue'[v] = ue[v]
<1>1. /\ ue' \in [UEs -> [phase : Phases, ran : 0..MaxRan, guti : 0..MaxIds,
                          ip : 0..MaxIds, dl : 0..MaxIds, refused : BOOLEAN]]
      /\ ue'[u] = x /\ \A v \in UEs : v # u => ue'[v] = ue[v]
  BY DEF IInv, TypeOK
<1> QED BY <1>1 DEF IInv, TypeOK

LEMMA RegistrationAcceptKeeps ==
  ASSUME IInv, NEW u \in UEs, UeRegistrationAccept(u)
  PROVE  IInv' /\ Spent \subseteq Spent'
<1> USE Bounds
<1>1. PICK reply : reply = <<[nas |-> "regComplete"], [nas |-> "pduRequest"]>>
  OBVIOUS
<1>2. reply \in Seq(UplinkNas)
  BY <1>1 DEF UplinkNas
<1>3. /\ Received(u, "regAccept") /\ Exchange(u, reply)
      /\ UNCHANGED <<nextRan, loop, nextDl, tunnels, ueSessions, broken, silent, toAmf, toGnb,
                     contexts, smf, peer>>
  BY <1>1 DEF UeRegistrationAccept, n2, amfVars
<1>4. PICK g \in Gnbs, r \in RanIds, c \in Connection :
        /\ g = Home[u] /\ r = ue[u].ran /\ c = conns[g][r] /\ c # None
        /\ c.ue = u /\ c.open /\ c.down # <<>> /\ c.down \in Seq(DownlinkNas)
        /\ Inbox(u) = Head(c.down) /\ Inbox(u).nas = "regAccept" /\ Inbox(u) \in DownlinkNas
        /\ Inbox(u) \in Range(c.down)
  BY <1>3, ReceivedFacts
<1>5. PICK k : k = Inbox(u).guti
  OBVIOUS
<1>6. k \in Sessions /\ c.amf # 0 /\ KnownId(g, k) /\ contexts[k].ran = r
  BY ZenonT(60), <1>4, <1>5, DownlinkNasFields DEF IInv, ConnsOK, DownlinkOK
<1>7. contexts[k].supi = u
  BY <1>4, <1>6 DEF IInv, ContextOK, KnownId
<1>8. PICK x : x = [ue[u] EXCEPT !.phase = "registered", !.guti = k]
  OBVIOUS
<1>9. /\ x \in [phase : Phases, ran : 0..MaxRan, guti : 0..MaxIds,
                ip : 0..MaxIds, dl : 0..MaxIds, refused : BOOLEAN]
      /\ x.phase = "registered" /\ x.ran = r /\ x.guti = k /\ x.dl = ue[u].dl
  <2>1. "registered" \in Phases /\ k \in 0..MaxIds
    BY <1>6 DEF Phases, Sessions
  <2>2. ue[u] \in [phase : Phases, ran : 0..MaxRan, guti : 0..MaxIds,
                   ip : 0..MaxIds, dl : 0..MaxIds, refused : BOOLEAN]
    BY DEF IInv, TypeOK
  <2> QED BY <1>4, <1>8, <2>1, <2>2
<1>10. ue' = [ue EXCEPT ![u] = x]
  BY <1>5, <1>8 DEF UeRegistrationAccept, IInv, TypeOK
<1>11. ue'[u] = x /\ \A v \in UEs : v # u => ue'[v] = ue[v]
  BY <1>10 DEF IInv, TypeOK
<1>12. ue'[u].phase # "off" /\ ue'[u].ran = ue[u].ran
  BY <1>4, <1>9, <1>11
<1>13. ReceiveKept(g, r, c, reply)
  BY ONLY IInv, u \in UEs, <1>2, <1>3, <1>4, <1>11, <1>12, ReceiveFrame
<1>14. PICK d \in Connection :
         /\ conns'[g][r] = d /\ d # None
         /\ d.ue = c.ue /\ d.open = c.open /\ d.first = c.first /\ d.amf = c.amf
         /\ d.down = Tail(c.down) /\ d.up = c.up \o reply
  BY ONLY <1>13 DEF ReceiveKept
<1>15. IsAt(g, r, "accepted") /\ Inbox(u) \in Accepts
  BY <1>4 DEF IsAt, Has, Accepts
<1>16. ~c.first /\ c.up = <<>>
  <2>1. ~IsAt(g, r, "first") /\ ~IsAt(g, r, "wants")
    BY <1>15 DEF IInv, PlacesOK, OnePlace, Places
  <2> QED BY <1>4, <2>1 DEF IsAt
<1>17. d.up = reply
  BY <1>2, <1>14, <1>16, ConcatEmptySeq
<1>18. UplinkOK(g, r)'
  <2>1. UplinkOK(g, r)
    BY DEF IInv, ConnsOK
  <2>2. Known(g, r)
    BY <1>6 DEF KnownId, Known
  <2>3. \A j : KnownId(g, j)' <=> KnownId(g, j)
    BY <1>3 DEF KnownId
  <2>5. d.open => ue'[d.ue].phase # "off" /\ ue'[d.ue].ran = r
    <3>1. d.ue = u
      BY <1>4, <1>14
    <3> QED BY <3>1, <1>4, <1>12
  <2>6. r <= nextRan[g] /\ Home[c.ue] = g
    BY <1>4, <2>1 DEF UplinkOK
  <2>7. d.amf # 0 /\ KnownId(g, d.amf)'
    BY <1>4, <1>6, <1>14, <2>1, <2>3 DEF UplinkOK
  <2>8. ~d.first /\ d.up \in LaterUps
    BY <1>1, <1>14, <1>16, <1>17 DEF LaterUps, CompleteUp
  <2>9. Known(g, r)'
    BY <1>3, <2>2 DEF Known
  <2>10. r <= nextRan'[g] /\ Home[d.ue] = g
    BY <1>3, <1>14, <2>6
  <2> QED BY ONLY <1>14, <2>5, <2>7, <2>8, <2>9, <2>10, UplinkMade
<1>19. ~IsAt(g, r, "accepted")'
  <2>1. AtMostOne(c.down, Accepts)
    BY <1>4 DEF IInv, PlacesOK, OneMessage
  <2>2. ~Has(d.down, Accepts)
    <3>1. PICK q : q = c.down
      OBVIOUS
    <3>2. q \in Seq(DownlinkNas) /\ q # <<>> /\ Head(q) \in Accepts /\ AtMostOne(q, Accepts)
      BY <1>4, <1>15, <2>1, <3>1
    <3>3. ~Has(Tail(q), Accepts)
      BY ONLY <3>2, TailFacts
    <3> QED BY <1>14, <3>1, <3>3
  <2> QED BY <1>14, <2>2 DEF IsAt
<1>20. \A h \in Gnbs, s \in RanIds, y \in Places :
         IsAt(h, s, y)' => IsAt(h, s, y) \/ (h = g /\ s = r /\ y = "wants")
  <2>1. ASSUME NEW y \in Places, IsAt(g, r, y)', y # "wants" PROVE IsAt(g, r, y)
    BY <1>3, <1>4, <1>14, <1>16, <1>19, <2>1 DEF IsAt
  <2> QED BY <1>13, <2>1 DEF ReceiveKept
<1>21. (\A h \in Gnbs, s \in RanIds : OnePlace(h, s)') /\ Spent \subseteq Spent'
  BY <1>13, <1>15, <1>19, <1>20, PlacesMoved DEF IInv, Places, ReceiveKept
<1>22. Len(smf') <= Cardinality(Spent')
  BY <1>3, <1>21, StillCounted
<1>23. TypeOK'
  BY <1>3, <1>9, <1>10, <1>13, UeTyped DEF IInv, TypeOK, ReceiveKept
<1>24. RegisteredAsSelf'
  <2>1. contexts' = contexts
    BY <1>3
  <2>2. /\ k \in DOMAIN contexts /\ contexts[k].supi = u
        /\ contexts[k].gnb = Home[u] /\ contexts[k].ran = ue'[u].ran /\ ue'[u].guti = k
    BY <1>4, <1>6, <1>7, <1>9, <1>11 DEF KnownId
  <2>3. RegisteredAsSelf
    BY DEF IInv
  <2> QED BY ONLY <1>11, <2>1, <2>2, <2>3 DEF RegisteredAsSelf
<1>25. TunnelBeforeAccept'
  BY <1>3, <1>9, <1>11 DEF IInv, TunnelBeforeAccept
<1> QED BY <1>13, <1>18, <1>21, <1>22, <1>23, <1>24, <1>25 DEF IInv, ConnsOK, PlacesOK, ReceiveKept

\* A message that asks for nothing: the connection stays where it was.
LEMMA ReceiveKeeps ==
  ASSUME IInv, NEW u \in UEs, NEW kind, kind # "regAccept", Received(u, kind),
         Exchange(u, <<>>), NEW x, ue' = [ue EXCEPT ![u] = x],
         x \in [phase : Phases, ran : 0..MaxRan, guti : 0..MaxIds,
                ip : 0..MaxIds, dl : 0..MaxIds, refused : BOOLEAN],
         x.phase # "off", x.ran = ue[u].ran, x.guti = ue[u].guti,
         x.dl = ue[u].dl \/ x.dl \in tunnels[Home[u]] \cup broken[Home[u]],
         UNCHANGED <<nextRan, loop, nextDl, tunnels, ueSessions, broken, silent, toAmf, toGnb,
                     contexts, smf, peer>>
  PROVE  IInv' /\ Spent \subseteq Spent'
<1> USE Bounds
<1>1. ue'[u] = x /\ \A v \in UEs : v # u => ue'[v] = ue[v]
  BY DEF IInv, TypeOK
<1>2. PICK g \in Gnbs, r \in RanIds, c \in Connection :
        /\ g = Home[u] /\ r = ue[u].ran /\ c = conns[g][r] /\ c # None
        /\ c.ue = u /\ c.open /\ c.down # <<>> /\ c.down \in Seq(DownlinkNas)
  BY ReceivedFacts
<1>3. PICK reply : reply = <<>>
  OBVIOUS
<1>4. reply \in Seq(UplinkNas) /\ Exchange(u, reply)
  BY <1>3, EmptySeq
<1>5. ReceiveKept(g, r, c, reply)
  <2>1. /\ ue'[u].phase # "off" /\ ue'[u].ran = ue[u].ran
        /\ UNCHANGED <<nextRan, loop, nextDl, tunnels, ueSessions, broken, silent, toAmf, toGnb,
                       contexts, smf, peer>>
    BY <1>1
  <2> QED BY ONLY IInv, u \in UEs, Received(u, kind), <1>1, <1>2, <1>4, <2>1, ReceiveFrame
<1>6. PICK d \in Connection :
        /\ conns'[g][r] = d /\ d # None
        /\ d.ue = c.ue /\ d.open = c.open /\ d.first = c.first /\ d.amf = c.amf
        /\ d.down = Tail(c.down) /\ d.up = c.up \o reply
  BY ONLY <1>5 DEF ReceiveKept
<1>7. d.up = c.up
  BY <1>3, <1>6, ConcatEmptySeq DEF Connection
<1>8. UplinkOK(g, r)'
  <2>1. UplinkOK(g, r)
    BY DEF IInv, ConnsOK
  <2>2. \A j : KnownId(g, j)' <=> KnownId(g, j)
    BY DEF KnownId
  <2>3. d.open => ue'[d.ue].phase # "off" /\ ue'[d.ue].ran = r
    <3>1. d.ue = u /\ ue[u].ran = r
      BY <1>2, <1>6
    <3> QED BY <3>1, <1>1
  <2>4. /\ r <= nextRan[g] /\ Home[c.ue] = g
        /\ c.amf # 0 => KnownId(g, c.amf)
        /\ c.first => c.up = FirstUp(c.ue)
        /\ ~c.first => c.up \in LaterUps
        /\ ~c.first /\ c.up # <<>> => c.amf # 0 /\ Known(g, r)
    BY <1>2, <2>1 DEF UplinkOK
  <2>5. d.amf # 0 => KnownId(g, d.amf)'
    BY <1>6, <2>2, <2>4
  <2>6. ~d.first /\ d.up # <<>> => d.amf # 0 /\ Known(g, r)'
    BY <1>6, <1>7, <2>4 DEF Known
  <2>7. /\ r <= nextRan'[g] /\ Home[d.ue] = g
        /\ d.first => d.up = FirstUp(d.ue)
        /\ ~d.first => d.up \in LaterUps
    BY <1>6, <1>7, <2>4
  <2> QED BY ONLY <1>6, <2>3, <2>5, <2>6, <2>7, UplinkMade
<1>9. \A h \in Gnbs, s \in RanIds, y \in Places : IsAt(h, s, y)' => IsAt(h, s, y)
  <2>1. Has(d.down, Accepts) => Has(c.down, Accepts)
    <3>1. PICK q : q = c.down
      OBVIOUS
    <3>2. q \in Seq(DownlinkNas) /\ q # <<>>
      BY <1>2, <3>1
    <3>3. Has(Tail(q), Accepts) => Has(q, Accepts)
      BY ONLY <3>2, TailFacts
    <3> QED BY <1>6, <3>1, <3>3
  <2>2. ASSUME NEW y \in Places, IsAt(g, r, y)' PROVE IsAt(g, r, y)
    BY <1>2, <1>6, <1>7, <2>1, <2>2 DEF IsAt
  <2> QED BY <1>5, <2>2 DEF ReceiveKept
<1>10. (\A h \in Gnbs, s \in RanIds : OnePlace(h, s)') /\ Spent \subseteq Spent'
  BY <1>5, <1>9, PlacesKept DEF IInv, ReceiveKept
<1>11. Len(smf') <= Cardinality(Spent')
  <2>1. Len(smf) \in Nat /\ Len(smf) <= Cardinality(Spent) /\ smf' = smf
    BY LenProperties DEF IInv, TypeOK
  <2>2. /\ Cardinality(Spent) \in Nat /\ Cardinality(Spent') \in Nat
        /\ Cardinality(Spent) <= Cardinality(Spent')
    BY ONLY <1>10, SpentCounts
  <2> QED BY ONLY <2>1, <2>2
<1>12. TypeOK'
  BY <1>5, UeTyped DEF IInv, TypeOK, ReceiveKept
<1>13. RegisteredAsSelf'
  BY <1>1 DEF IInv, RegisteredAsSelf
<1>14. TunnelBeforeAccept'
  BY <1>1 DEF IInv, TunnelBeforeAccept
<1> QED BY <1>5, <1>8, <1>10, <1>11, <1>12, <1>13, <1>14 DEF IInv, ConnsOK, PlacesOK, ReceiveKept

LEMMA PduAcceptKeeps ==
  ASSUME IInv, NEW u \in UEs, UePduAccept(u)
  PROVE  IInv' /\ Spent \subseteq Spent'
<1> USE Bounds
<1>1. /\ Received(u, "pduAccept") /\ Exchange(u, <<>>)
      /\ UNCHANGED <<nextRan, loop, nextDl, tunnels, ueSessions, broken, silent, toAmf, toGnb,
                     contexts, smf, peer>>
  BY DEF UePduAccept, n2, amfVars
<1>2. PICK g \in Gnbs, r \in RanIds, c \in Connection :
        /\ g = Home[u] /\ r = ue[u].ran /\ c = conns[g][r] /\ c # None
        /\ Inbox(u).nas = "pduAccept" /\ Inbox(u) \in DownlinkNas /\ Inbox(u) \in Range(c.down)
  BY <1>1, ReceivedFacts
<1>3. PICK m : m = Inbox(u)
  OBVIOUS
<1>4. /\ m.ip \in Sessions /\ m.dl \in 0..MaxIds
      /\ m.dl # 0 => m.dl \in tunnels[g] \cup broken[g]
  BY <1>2, <1>3, DownlinkNasFields DEF IInv, ConnsOK, DownlinkOK
<1>5. PICK dl : dl = IF m.dl = 0 THEN ue[u].dl ELSE m.dl
  OBVIOUS
<1>6. PICK phase \in {"active", ue[u].phase} :
        ue' = [ue EXCEPT ![u].phase = phase, ![u].ip = m.ip, ![u].dl = dl]
  BY <1>3, <1>5 DEF UePduAccept
<1>7. PICK x : x = [ue[u] EXCEPT !.phase = phase, !.ip = m.ip, !.dl = dl]
  OBVIOUS
<1>8. ue[u] \in [phase : Phases, ran : 0..MaxRan, guti : 0..MaxIds,
                 ip : 0..MaxIds, dl : 0..MaxIds, refused : BOOLEAN]
  BY DEF IInv, TypeOK
<1>9. phase \in Phases /\ phase # "off"
  BY <1>1, <1>8 DEF Phases, Received
<1>10. m.ip \in 0..MaxIds /\ dl \in 0..MaxIds
  BY <1>4, <1>5, <1>8 DEF Sessions
<1>11. /\ x \in [phase : Phases, ran : 0..MaxRan, guti : 0..MaxIds,
                 ip : 0..MaxIds, dl : 0..MaxIds, refused : BOOLEAN]
       /\ x.phase = phase /\ x.ran = ue[u].ran /\ x.guti = ue[u].guti /\ x.dl = dl
  BY <1>7, <1>8, <1>9, <1>10
<1>12. ue' = [ue EXCEPT ![u] = x]
  BY <1>6, <1>7 DEF IInv, TypeOK
<1>13. x.dl = ue[u].dl \/ x.dl \in tunnels[g] \cup broken[g]
  BY <1>4, <1>5, <1>11
<1> QED BY <1>1, <1>2, <1>9, <1>11, <1>12, <1>13, ReceiveKeeps

LEMMA RejectKeeps ==
  ASSUME IInv, NEW u \in UEs, UeReject(u)
  PROVE  IInv' /\ Spent \subseteq Spent'
<1>1. PICK kind \in {"regReject", "pduReject"} : Received(u, kind)
  BY DEF UeReject
<1>2. /\ Exchange(u, <<>>)
      /\ UNCHANGED <<nextRan, loop, nextDl, tunnels, ueSessions, broken, silent, toAmf, toGnb,
                     contexts, smf, peer>>
  BY DEF UeReject, n2, amfVars
<1>3. PICK x : x = [ue[u] EXCEPT !.refused = TRUE]
  OBVIOUS
<1>4. ue[u] \in [phase : Phases, ran : 0..MaxRan, guti : 0..MaxIds,
                 ip : 0..MaxIds, dl : 0..MaxIds, refused : BOOLEAN]
  BY DEF IInv, TypeOK
<1>5. /\ x \in [phase : Phases, ran : 0..MaxRan, guti : 0..MaxIds,
                ip : 0..MaxIds, dl : 0..MaxIds, refused : BOOLEAN]
      /\ x.phase = ue[u].phase /\ x.ran = ue[u].ran /\ x.guti = ue[u].guti /\ x.dl = ue[u].dl
  BY <1>3, <1>4
<1>6. ue' = [ue EXCEPT ![u] = x]
  BY <1>3 DEF UeReject, IInv, TypeOK
<1>7. x.phase # "off" /\ kind # "regAccept"
  BY <1>1, <1>5 DEF Received
<1> QED BY <1>1, <1>2, <1>5, <1>6, <1>7, ReceiveKeeps

\* The gNB accepts one more connection.
LEMMA RanTaken ==
  ASSUME TypeOK, NEW g \in Gnbs, nextRan[g] < MaxRan, nextRan' = [nextRan EXCEPT ![g] = @ + 1]
  PROVE  /\ nextRan' \in [Gnbs -> 0..MaxRan]
         /\ nextRan[g] \in 0..MaxRan /\ nextRan'[g] = nextRan[g] + 1 /\ nextRan'[g] \in RanIds
         /\ \A h \in Gnbs : h # g => nextRan'[h] = nextRan[h]
         /\ \A h \in Gnbs : nextRan[h] <= nextRan'[h]
         /\ \A h \in Gnbs, s \in RanIds : s <= nextRan[h] => s <= nextRan'[h]
         /\ \A h \in Gnbs, s \in RanIds : s > nextRan'[h] => s > nextRan[h]
         /\ nextRan'[g] > nextRan[g] /\ ~(nextRan'[g] <= nextRan[g])
         /\ ~(nextRan'[g] > nextRan'[g])
<1>1. /\ nextRan \in [Gnbs -> 0..MaxRan] /\ MaxRan \in Nat
      /\ \A h \in Gnbs : nextRan[h] \in 0..MaxRan
  BY Bounds DEF TypeOK
<1>2. nextRan[g] + 1 \in 0..MaxRan /\ nextRan[g] + 1 \in RanIds
  BY <1>1 DEF RanIds
<1>3. /\ nextRan' \in [Gnbs -> 0..MaxRan] /\ nextRan'[g] = nextRan[g] + 1
      /\ \A h \in Gnbs : h # g => nextRan'[h] = nextRan[h]
  BY <1>1, <1>2
<1>4. \A h \in Gnbs : nextRan[h] <= nextRan'[h] /\ nextRan[h] \in Nat /\ nextRan'[h] \in Nat
  BY <1>1, <1>3
<1>5. ASSUME NEW h \in Gnbs, NEW s \in RanIds
      PROVE  (s <= nextRan[h] => s <= nextRan'[h]) /\ (s > nextRan'[h] => s > nextRan[h])
  BY ONLY <1>1, <1>4, s \in RanIds, h \in Gnbs DEF RanIds
<1> QED BY <1>1, <1>2, <1>3, <1>4, <1>5

LEMMA StartKeeps ==
  ASSUME IInv, NEW u \in UEs, UeStart(u)
  PROVE  IInv' /\ Spent \subseteq Spent'
<1> USE Bounds
<1>1. PICK g \in Gnbs, r \in Nat : g = Home[u] /\ r = nextRan[g] + 1
  <2>1. Home[u] \in Gnbs /\ nextRan[Home[u]] \in Nat
    BY N2Assumption DEF IInv, TypeOK
  <2> QED BY <2>1
<1>2. PICK d, x :
        /\ d = [ue |-> u, open |-> TRUE, first |-> TRUE, amf |-> 0,
                up |-> <<[nas |-> "regRequest", supi |-> u]>>, down |-> <<>>]
        /\ x = [UeOff EXCEPT !.phase = "registering", !.ran = r]
  OBVIOUS
<1>3. /\ ue[u].phase = "off" /\ nextRan[g] < MaxRan
      /\ nextRan' = [nextRan EXCEPT ![g] = @ + 1]
      /\ UNCHANGED <<loop, nextDl, tunnels, ueSessions, broken, silent, toAmf, toGnb, contexts, smf, peer>>
  BY <1>1 DEF UeStart, n2, amfVars
<1>4. /\ nextRan[g] \in 0..MaxRan /\ nextRan' \in [Gnbs -> 0..MaxRan] /\ nextRan'[g] = r
      /\ \A h \in Gnbs : h # g => nextRan'[h] = nextRan[h]
      /\ r \in RanIds /\ r > nextRan[g] /\ ~(r <= nextRan[g]) /\ r <= nextRan'[g]
      /\ ~(r > nextRan'[g])
      /\ \A h \in Gnbs, s \in RanIds : s <= nextRan[h] => s <= nextRan'[h]
      /\ \A h \in Gnbs, s \in RanIds : s > nextRan'[h] => s > nextRan[h]
      /\ \A h \in Gnbs : nextRan[h] <= nextRan'[h]
  <2>1. TypeOK /\ nextRan[g] < MaxRan /\ nextRan' = [nextRan EXCEPT ![g] = @ + 1] /\ g \in Gnbs
    BY <1>3 DEF IInv
  <2>2. /\ nextRan' \in [Gnbs -> 0..MaxRan]
        /\ nextRan[g] \in 0..MaxRan /\ nextRan'[g] = nextRan[g] + 1 /\ nextRan'[g] \in RanIds
        /\ \A h \in Gnbs : h # g => nextRan'[h] = nextRan[h]
        /\ \A h \in Gnbs : nextRan[h] <= nextRan'[h]
        /\ \A h \in Gnbs, s \in RanIds : s <= nextRan[h] => s <= nextRan'[h]
        /\ \A h \in Gnbs, s \in RanIds : s > nextRan'[h] => s > nextRan[h]
        /\ nextRan'[g] > nextRan[g] /\ ~(nextRan'[g] <= nextRan[g])
        /\ ~(nextRan'[g] > nextRan'[g])
    BY ONLY <2>1, RanTaken
  <2>3. nextRan'[g] <= nextRan'[g]
    BY ONLY <2>2, Bounds, g \in Gnbs
  <2> QED BY ONLY <1>1, <2>2, <2>3
<1>5. ConnBecomes(g, r, d) /\ ue' = [ue EXCEPT ![u] = x]
  BY <1>1, <1>2, <1>4 DEF UeStart, ConnBecomes
<1>6. /\ d \in Connection
      /\ d.ue = u /\ d.open /\ d.first /\ d.amf = 0 /\ d.down = <<>>
      /\ d.up = FirstUp(d.ue)
  <2>1. <<[nas |-> "regRequest", supi |-> u]>> \in Seq(UplinkNas)
    BY DEF UplinkNas
  <2>2. <<>> \in Seq(DownlinkNas)
    BY EmptySeq
  <2> QED BY <1>2, <2>1, <2>2 DEF Connection, FirstUp
<1>7. d # None
  BY <1>6, NoneAssumption
<1>8. /\ conns' \in [Gnbs -> [RanIds -> Connection \cup {None}]]
      /\ conns'[g][r] = d
      /\ \A h \in Gnbs, s \in RanIds : ~(h = g /\ s = r) => conns'[h][s] = conns[h][s]
  <2>1. TypeOK /\ g \in Gnbs /\ r \in RanIds /\ d \in Connection \cup {None}
    BY <1>4, <1>6 DEF IInv
  <2> QED BY ONLY <1>5, <2>1, ConnSet
<1>9. /\ x \in [phase : Phases, ran : 0..MaxRan, guti : 0..MaxIds,
                ip : 0..MaxIds, dl : 0..MaxIds, refused : BOOLEAN]
      /\ x.phase = "registering" /\ x.ran = r /\ x.guti = 0 /\ x.dl = 0
  <2>1. "registering" \in Phases /\ r \in 0..MaxRan
    BY <1>4 DEF Phases, RanIds
  <2>2. x = [UeOff EXCEPT !.phase = "registering", !.ran = r]
    BY <1>2
  <2>3. x = [phase |-> "registering", ran |-> r, guti |-> 0, ip |-> 0, dl |-> 0, refused |-> FALSE]
    BY ONLY <2>2 DEF UeOff
  <2>4. 0 \in 0..MaxIds
    OBVIOUS
  <2> QED BY ONLY <2>1, <2>3, <2>4
<1>10. TypeOK' /\ ue'[u] = x /\ \A v \in UEs : v # u => ue'[v] = ue[v]
  BY <1>3, <1>4, <1>5, <1>8, <1>9, UeTyped
<1>11. nextRan' \in [Gnbs -> 0..MaxRan] /\ \A h \in Gnbs : nextRan[h] <= nextRan'[h]
  BY <1>4
<1>12. /\ \A k \in DOMAIN contexts' : ContextOK(k)'
       /\ \A h \in Gnbs, m \in UplinkNgap : AmfMessageOK(h, m) => AmfMessageOK(h, m)'
       /\ \A h \in Gnbs, m \in DownlinkNgap : GnbMessageOK(h, m) => GnbMessageOK(h, m)'
       /\ \A h \in Gnbs : TunnelsOK(h)'
       /\ \A h \in Gnbs, s \in RanIds : ~(h = g /\ s = r) => DownlinkOK(h, s)'
       /\ ContextsApart' /\ PeersApart'
  BY ONLY IInv, g \in Gnbs, <1>3, <1>4, <1>8, <1>11, ConnFrame
<1>13. conns[g][r] = None
  <2>1. UplinkOK(g, r)
    BY <1>4 DEF IInv, ConnsOK
  <2> QED BY ONLY <1>4, <2>1 DEF UplinkOK
<1>14. \A v \in UEs : UeOK(v)'
  <2>1. UeOK(u)'
    BY <1>1, <1>4, <1>6, <1>7, <1>8, <1>9, <1>10 DEF UeOK
  <2>2. ASSUME NEW v \in UEs, v # u PROVE UeOK(v)'
    <3>1. UeOK(v) /\ Home[v] \in Gnbs /\ ue'[v] = ue[v]
      BY <1>10, <2>2, N2Assumption DEF IInv
    <3>2. ue[v].phase # "off" => ~(Home[v] = g /\ ue[v].ran = r)
      BY <1>13, <3>1 DEF UeOK
    <3> QED BY <1>8, <3>1, <3>2 DEF UeOK
  <2> QED BY <2>1, <2>2
<1>15. ASSUME NEW h \in Gnbs, NEW s \in RanIds PROVE UplinkOK(h, s)'
  <2>1. CASE h = g /\ s = r
    <3>1. Home[d.ue] = g /\ ue'[d.ue].phase # "off" /\ ue'[d.ue].ran = r
      BY <1>1, <1>6, <1>9, <1>10
    <3>2. UplinkOK(g, r)'
      <4>1. /\ d.open => ue'[d.ue].phase # "off" /\ ue'[d.ue].ran = r
            /\ d.amf # 0 => KnownId(g, d.amf)'
            /\ d.first => d.up = FirstUp(d.ue)
            /\ ~d.first => d.up \in LaterUps
            /\ ~d.first /\ d.up # <<>> => d.amf # 0 /\ Known(g, r)'
        BY <1>6, <3>1
      <4>2. conns'[g][r] = d /\ r <= nextRan'[g] /\ Home[d.ue] = g
        BY <1>4, <1>8, <3>1
      <4> QED BY ONLY <4>1, <4>2, UplinkMade
    <3> QED BY <2>1, <3>2
  <2>2. CASE ~(h = g /\ s = r) /\ conns[h][s] # None
    <3>1. UplinkOK(h, s) /\ conns[h][s].ue \in UEs
      BY <2>2 DEF IInv, ConnsOK, TypeOK, Connection
    <3>2. conns[h][s].open => conns[h][s].ue # u
      BY <1>3, <2>2, <3>1 DEF UplinkOK
    <3>3. s <= nextRan'[h]
      BY ONLY <1>4, <2>2, <3>1, h \in Gnbs, s \in RanIds DEF UplinkOK
    <3> QED BY <1>3, <1>8, <1>10, <2>2, <3>1, <3>2, <3>3 DEF UplinkOK, KnownId, Known
  <2>3. CASE ~(h = g /\ s = r) /\ conns[h][s] = None
    BY <1>8, <2>3 DEF UplinkOK
  <2> QED BY <2>1, <2>2, <2>3
<1>16. DownlinkOK(g, r)'
  BY <1>6, <1>8, EmptyFacts DEF DownlinkOK
<1>17. \A h \in Gnbs, s \in RanIds : OneMessage(h, s)'
  BY <1>3, <1>6, <1>8, EmptyFacts DEF IInv, PlacesOK, OneMessage
<1>18. MessagesOK'
  <2>1. \A h \in Gnbs : Range(toAmf[h]) \subseteq UplinkNgap /\ Range(toGnb[h]) \subseteq DownlinkNgap
    BY RangeOfSeq DEF IInv, TypeOK
  <2> QED BY <1>3, <1>12, <2>1 DEF IInv, MessagesOK
<1>19. SessionsOK'
  BY <1>3, <1>12 DEF IInv, SessionsOK, SetupsInOrder
<1>20. \A h \in Gnbs, s \in RanIds : Known(h, s)' <=> Known(h, s)
  BY <1>3 DEF Known
<1>21. \A h \in Gnbs, s \in RanIds, y \in Places :
         IsAt(h, s, y)' => IsAt(h, s, y) \/ (h = g /\ s = r /\ y = "first")
  <2>1. ASSUME NEW y \in Places, IsAt(g, r, y)', y # "first" PROVE IsAt(g, r, y)
    BY <1>3, <1>4, <1>6, <1>7, <1>8, <2>1, EmptyFacts DEF IsAt, RanIds
  <2>2. ASSUME NEW h \in Gnbs, NEW s \in RanIds, ~(h = g /\ s = r), NEW y \in Places,
               IsAt(h, s, y)'
        PROVE  IsAt(h, s, y)
    <3>1. s > nextRan'[h] => s > nextRan[h]
      BY <1>4
    <3> QED BY <1>3, <1>8, <2>2, <3>1 DEF IsAt
  <2> QED BY <2>1, <2>2
<1>22. IsAt(g, r, "fresh") /\ ~IsAt(g, r, "fresh")'
  BY <1>4 DEF IsAt, RanIds
<1>23. ~Known(g, r)'
  <2>1. OnePlace(g, r) /\ "fresh" \in {"fresh", "first", "initial"}
    BY <1>4 DEF IInv, PlacesOK
  <2>2. ~Known(g, r)
    BY ONLY <1>22, <2>1 DEF OnePlace
  <2> QED BY ONLY <1>4, <1>20, <2>2, g \in Gnbs
<1>24. (\A h \in Gnbs, s \in RanIds : OnePlace(h, s)') /\ Spent \subseteq Spent'
  <2>1. "fresh" \in Places /\ "first" \in Places
    BY DEF Places
  <2> QED BY <1>4, <1>20, <1>21, <1>22, <1>23, <2>1, PlacesMoved DEF IInv
<1>25. Len(smf') <= Cardinality(Spent')
  <2>1. Len(smf) \in Nat /\ Len(smf) <= Cardinality(Spent) /\ smf' = smf
    BY <1>3, LenProperties DEF IInv, TypeOK
  <2>2. /\ Cardinality(Spent) \in Nat /\ Cardinality(Spent') \in Nat
        /\ Cardinality(Spent) <= Cardinality(Spent')
    BY ONLY <1>24, SpentCounts
  <2> QED BY ONLY <2>1, <2>2
<1>26. RegisteredAsSelf'
  BY <1>3, <1>9, <1>10 DEF IInv, RegisteredAsSelf
<1>27. TunnelBeforeAccept'
  BY <1>3, <1>9, <1>10 DEF IInv, TunnelBeforeAccept
<1> QED BY <1>10, <1>12, <1>14, <1>15, <1>16, <1>17, <1>18, <1>19, <1>24, <1>25, <1>26, <1>27
        DEF IInv, ConnsOK, PlacesOK

LEMMA StopKeeps ==
  ASSUME IInv, NEW u \in UEs, UeStop(u)
  PROVE  IInv' /\ Spent \subseteq Spent'
<1> USE Bounds
<1>1. /\ ue[u].phase # "off"
      /\ ue' = [ue EXCEPT ![u] = UeOff]
      /\ UNCHANGED <<nextRan, loop, nextDl, tunnels, ueSessions, broken, silent, toAmf, toGnb,
                     contexts, smf, peer>>
  BY DEF UeStop, n2, amfVars
<1>2. PICK g \in Gnbs, r \in RanIds : g = Home[u] /\ r = ue[u].ran
  BY <1>1, N2Assumption DEF IInv, UeOK
<1>3. PICK c : c = conns[g][r]
  OBVIOUS
<1>4. c # None /\ c.ue = u /\ c \in Connection
  BY SMTT(30), <1>1, <1>2, <1>3 DEF IInv, UeOK, TypeOK
<1>5. PICK d : d = [c EXCEPT !.open = FALSE, !.down = <<>>]
  OBVIOUS
<1>6. /\ d \in Connection
      /\ d.ue = u /\ ~d.open /\ d.first = c.first /\ d.amf = c.amf /\ d.up = c.up /\ d.down = <<>>
  <2>1. <<>> \in Seq(DownlinkNas)
    BY EmptySeq
  <2> QED BY <1>4, <1>5, <2>1 DEF Connection
<1>7. d # None
  BY <1>6, NoneAssumption
<1>8. ConnBecomes(g, r, d)
  BY <1>2, <1>3, <1>5 DEF UeStop, ConnBecomes
<1>9. /\ conns' \in [Gnbs -> [RanIds -> Connection \cup {None}]]
      /\ conns'[g][r] = d
      /\ \A h \in Gnbs, s \in RanIds : ~(h = g /\ s = r) => conns'[h][s] = conns[h][s]
  <2>1. TypeOK /\ g \in Gnbs /\ r \in RanIds /\ d \in Connection \cup {None}
    BY <1>6 DEF IInv
  <2> QED BY ONLY <1>8, <2>1, ConnSet
<1>10. TypeOK' /\ ue'[u] = UeOff /\ \A v \in UEs : v # u => ue'[v] = ue[v]
  <2>1. UeOff \in [phase : Phases, ran : 0..MaxRan, guti : 0..MaxIds,
                   ip : 0..MaxIds, dl : 0..MaxIds, refused : BOOLEAN]
    BY DEF UeOff, Phases
  <2>2. nextRan' \in [Gnbs -> 0..MaxRan]
    BY <1>1 DEF IInv, TypeOK
  <2> QED BY <1>1, <1>9, <2>1, <2>2, UeTyped
<1>11. UeOff.phase = "off" /\ UeOff.guti = 0 /\ UeOff.dl = 0
  BY DEF UeOff
<1>12. nextRan' \in [Gnbs -> 0..MaxRan] /\ \A h \in Gnbs : nextRan[h] <= nextRan'[h]
  BY <1>1, Bounds DEF IInv, TypeOK
<1>13. /\ \A k \in DOMAIN contexts' : ContextOK(k)'
       /\ \A h \in Gnbs, m \in UplinkNgap : AmfMessageOK(h, m) => AmfMessageOK(h, m)'
       /\ \A h \in Gnbs, m \in DownlinkNgap : GnbMessageOK(h, m) => GnbMessageOK(h, m)'
       /\ \A h \in Gnbs : TunnelsOK(h)'
       /\ \A h \in Gnbs, s \in RanIds : ~(h = g /\ s = r) => DownlinkOK(h, s)'
       /\ ContextsApart' /\ PeersApart'
  BY ONLY IInv, g \in Gnbs, r \in RanIds, <1>1, <1>3, <1>4, <1>6, <1>9, <1>12, ConnFrame
<1>14. \A v \in UEs : UeOK(v)'
  <2>1. UeOK(u)'
    BY <1>10, <1>11 DEF UeOK
  <2>2. ASSUME NEW v \in UEs, v # u PROVE UeOK(v)'
    <3>1. UeOK(v) /\ Home[v] \in Gnbs /\ ue'[v] = ue[v]
      BY <1>10, <2>2, N2Assumption DEF IInv
    <3> QED BY <1>3, <1>4, <1>9, <2>2, <3>1 DEF UeOK
  <2> QED BY <2>1, <2>2
<1>15. ASSUME NEW h \in Gnbs, NEW s \in RanIds PROVE UplinkOK(h, s)'
  <2>1. CASE h = g /\ s = r
    <3>1. UplinkOK(g, r)
      BY DEF IInv, ConnsOK
    <3> QED BY <1>1, <1>3, <1>4, <1>6, <1>9, <2>1, <3>1 DEF UplinkOK, KnownId, Known
  <2>2. CASE ~(h = g /\ s = r) /\ conns[h][s] # None
    <3>1. UplinkOK(h, s) /\ conns[h][s].ue \in UEs
      BY <2>2 DEF IInv, ConnsOK, TypeOK, Connection
    <3>2. conns[h][s].open => conns[h][s].ue # u
      BY <1>2, <2>2, <3>1 DEF UplinkOK
    <3> QED BY <1>1, <1>9, <1>10, <2>2, <3>1, <3>2 DEF UplinkOK, KnownId, Known
  <2>3. CASE ~(h = g /\ s = r) /\ conns[h][s] = None
    BY <1>9, <2>3 DEF UplinkOK
  <2> QED BY <2>1, <2>2, <2>3
<1>16. DownlinkOK(g, r)'
  BY <1>6, <1>9, EmptyFacts DEF DownlinkOK
<1>17. \A h \in Gnbs, s \in RanIds : OneMessage(h, s)'
  BY <1>1, <1>6, <1>9, EmptyFacts DEF IInv, PlacesOK, OneMessage
<1>18. MessagesOK'
  <2>1. \A h \in Gnbs : Range(toAmf[h]) \subseteq UplinkNgap /\ Range(toGnb[h]) \subseteq DownlinkNgap
    BY RangeOfSeq DEF IInv, TypeOK
  <2> QED BY <1>1, <1>13, <2>1 DEF IInv, MessagesOK
<1>19. SessionsOK'
  BY <1>1, <1>13 DEF IInv, SessionsOK, SetupsInOrder
<1>20. \A h \in Gnbs, s \in RanIds : Known(h, s)' <=> Known(h, s)
  BY <1>1 DEF Known
<1>21. \A h \in Gnbs, s \in RanIds, y \in Places : IsAt(h, s, y)' => IsAt(h, s, y)
  <2>1. ASSUME NEW y \in Places, IsAt(g, r, y)' PROVE IsAt(g, r, y)
    BY <1>1, <1>3, <1>4, <1>6, <1>9, <2>1, EmptyFacts DEF IsAt
  <2>2. ASSUME NEW h \in Gnbs, NEW s \in RanIds, ~(h = g /\ s = r), NEW y \in Places,
               IsAt(h, s, y)'
        PROVE  IsAt(h, s, y)
    BY <1>1, <1>9, <2>2 DEF IsAt
  <2> QED BY <2>1, <2>2
<1>22. (\A h \in Gnbs, s \in RanIds : OnePlace(h, s)') /\ Spent \subseteq Spent'
  BY <1>20, <1>21, PlacesKept DEF IInv
<1>23. Len(smf') <= Cardinality(Spent')
  BY <1>1, <1>22, StillCounted
<1>24. RegisteredAsSelf'
  BY <1>1, <1>10, <1>11 DEF IInv, RegisteredAsSelf
<1>25. TunnelBeforeAccept'
  BY <1>1, <1>10, <1>11 DEF IInv, TunnelBeforeAccept
<1> QED BY <1>10, <1>13, <1>14, <1>15, <1>16, <1>17, <1>18, <1>19, <1>22, <1>23, <1>24, <1>25
        DEF IInv, ConnsOK, PlacesOK

----------------------------------------------------------------------------
(* The gNB's connections.                                                  *)

\* What a step of the gNB leaves of the rest when connection r becomes d.
ConnKept(g, r, d) ==
  /\ conns' \in [Gnbs -> [RanIds -> Connection \cup {None}]]
  /\ conns'[g][r] = d
  /\ \A h \in Gnbs, s \in RanIds : ~(h = g /\ s = r) => conns'[h][s] = conns[h][s]
  /\ \A v \in UEs : UeOK(v)'
  /\ \A k \in DOMAIN contexts' : ContextOK(k)'
  /\ \A h \in Gnbs, m \in UplinkNgap : AmfMessageOK(h, m) => AmfMessageOK(h, m)'
  /\ \A h \in Gnbs, m \in DownlinkNgap : GnbMessageOK(h, m) => GnbMessageOK(h, m)'
  /\ \A h \in Gnbs : TunnelsOK(h)'
  /\ \A h \in Gnbs, s \in RanIds :
       ~(h = g /\ s = r) => UplinkOK(h, s)' /\ DownlinkOK(h, s)'
  /\ \A h \in Gnbs, s \in RanIds : Known(h, s)' <=> Known(h, s)
  /\ \A h \in Gnbs : \A k : KnownId(h, k)' <=> KnownId(h, k)
  /\ RegisteredAsSelf' /\ ContextsApart' /\ TunnelBeforeAccept' /\ PeersApart'

LEMMA GnbConnFrame ==
  ASSUME IInv, NEW g \in Gnbs, NEW r \in RanIds, NEW c \in Connection, c = conns[g][r],
         NEW d \in Connection \cup {None}, ConnBecomes(g, r, d),
         IF d = None THEN ~c.open ELSE d.ue = c.ue /\ d.open = c.open,
         UNCHANGED <<ue, nextRan, loop, nextDl, tunnels, ueSessions, broken, silent, contexts, smf, peer>>
  PROVE  ConnKept(g, r, d)
<1>1. c # None
  BY NoneAssumption
<1>2. /\ conns' \in [Gnbs -> [RanIds -> Connection \cup {None}]]
      /\ conns'[g][r] = d
      /\ \A h \in Gnbs, s \in RanIds : ~(h = g /\ s = r) => conns'[h][s] = conns[h][s]
  <2>1. TypeOK /\ g \in Gnbs /\ r \in RanIds /\ d \in Connection \cup {None} /\ ConnBecomes(g, r, d)
    BY DEF IInv
  <2> QED BY ONLY <2>1, ConnSet
<1>3. nextRan' \in [Gnbs -> 0..MaxRan] /\ \A h \in Gnbs : nextRan[h] <= nextRan'[h]
  BY Bounds DEF IInv, TypeOK
<1>4. /\ \A k \in DOMAIN contexts' : ContextOK(k)'
      /\ \A h \in Gnbs, m \in UplinkNgap : AmfMessageOK(h, m) => AmfMessageOK(h, m)'
      /\ \A h \in Gnbs, m \in DownlinkNgap : GnbMessageOK(h, m) => GnbMessageOK(h, m)'
      /\ \A h \in Gnbs : TunnelsOK(h)'
      /\ \A h \in Gnbs, s \in RanIds : ~(h = g /\ s = r) => DownlinkOK(h, s)'
      /\ ContextsApart' /\ PeersApart'
  BY <1>1, <1>2, <1>3, ConnFrame
<1>5. ASSUME NEW v \in UEs PROVE UeOK(v)'
  <2>1. UeOK(v) /\ Home[v] \in Gnbs
    BY N2Assumption DEF IInv
  <2> QED BY <1>2, <2>1 DEF UeOK
<1>6. \A h \in Gnbs, s \in RanIds : ~(h = g /\ s = r) => UplinkOK(h, s)'
  BY <1>2 DEF IInv, ConnsOK, UplinkOK, KnownId, Known
<1>7. /\ \A h \in Gnbs, s \in RanIds : Known(h, s)' <=> Known(h, s)
      /\ \A h \in Gnbs : \A k : KnownId(h, k)' <=> KnownId(h, k)
  BY DEF Known, KnownId
<1>8. RegisteredAsSelf' /\ TunnelBeforeAccept'
  BY DEF IInv, RegisteredAsSelf, TunnelBeforeAccept
<1> QED BY <1>2, <1>4, <1>5, <1>6, <1>7, <1>8 DEF ConnKept

LEMMA UeGoneKeeps ==
  ASSUME IInv, NEW g \in Gnbs, NEW r \in RanIds, GnbUeGone(g, r)
  PROVE  IInv' /\ Spent \subseteq Spent'
<1>1. PICK c : c = conns[g][r]
  OBVIOUS
<1>2. /\ c # None /\ ~c.open /\ ConnBecomes(g, r, None)
      /\ UNCHANGED <<ue, nextRan, loop, nextDl, tunnels, ueSessions, broken, silent, toAmf, toGnb,
                     contexts, smf, peer>>
  BY <1>1 DEF GnbUeGone, ueVars, n2, amfVars, ConnBecomes
<1>3. c \in Connection
  BY <1>1, <1>2 DEF IInv, TypeOK
<1>4. ConnKept(g, r, None)
  <2>1. None \in Connection \cup {None}
    OBVIOUS
  <2> QED BY ONLY IInv, g \in Gnbs, r \in RanIds, <1>1, <1>2, <1>3, <2>1, GnbConnFrame
<1> USE DEF ConnKept
<1>5. UplinkOK(g, r)' /\ DownlinkOK(g, r)'
  BY <1>4 DEF UplinkOK, DownlinkOK
<1>6. \A h \in Gnbs, s \in RanIds : OneMessage(h, s)'
  BY <1>2, <1>4 DEF IInv, PlacesOK, OneMessage
<1>7. \A h \in Gnbs, s \in RanIds, y \in Places : IsAt(h, s, y)' => IsAt(h, s, y)
  <2>1. ASSUME NEW h \in Gnbs, NEW s \in RanIds, NEW y \in Places, IsAt(h, s, y)'
        PROVE  IsAt(h, s, y)
    <3>1. CASE h = g /\ s = r
      BY <1>2, <1>4, <2>1, <3>1 DEF IsAt
    <3>2. CASE ~(h = g /\ s = r)
      BY <1>2, <1>4, <2>1, <3>2 DEF IsAt
    <3> QED BY <3>1, <3>2
  <2> QED BY <2>1
<1>8. (\A h \in Gnbs, s \in RanIds : OnePlace(h, s)') /\ Spent \subseteq Spent'
  BY <1>4, <1>7, PlacesKept DEF IInv
<1>9. Len(smf') <= Cardinality(Spent')
  BY <1>2, <1>8, StillCounted
<1>10. MessagesOK'
  <2>1. \A h \in Gnbs : Range(toAmf[h]) \subseteq UplinkNgap /\ Range(toGnb[h]) \subseteq DownlinkNgap
    BY RangeOfSeq DEF IInv, TypeOK
  <2> QED BY <1>2, <1>4, <2>1 DEF IInv, MessagesOK
<1>11. SessionsOK'
  BY <1>2, <1>4 DEF IInv, SessionsOK, SetupsInOrder
<1>12. TypeOK'
  BY <1>2, <1>4 DEF IInv, TypeOK
<1> QED BY <1>4, <1>5, <1>6, <1>8, <1>9, <1>10, <1>11, <1>12 DEF IInv, ConnsOK, PlacesOK

LEMMA UpsFacts ==
  /\ \A u : Head(FirstUp(u)) = [nas |-> "regRequest", supi |-> u] /\ Tail(FirstUp(u)) = <<>>
  /\ Head(RequestUp) = [nas |-> "pduRequest"] /\ Tail(RequestUp) = <<>>
  /\ Head(CompleteUp) = [nas |-> "regComplete"] /\ Tail(CompleteUp) = RequestUp
<1>1. \A u : Head(FirstUp(u)) = [nas |-> "regRequest", supi |-> u] /\ Tail(FirstUp(u)) = <<>>
  BY DEF FirstUp
<1>2. Head(RequestUp) = [nas |-> "pduRequest"] /\ Tail(RequestUp) = <<>>
  BY DEF RequestUp
<1>3. Head(CompleteUp) = [nas |-> "regComplete"] /\ Tail(CompleteUp) = RequestUp
  BY DEF CompleteUp, RequestUp
<1> QED BY <1>1, <1>2, <1>3

\* What connection r of g may send next, and what that leaves it with.
LEMMA NextUplink ==
  ASSUME IInv, NEW g \in Gnbs, NEW r \in RanIds, NEW c \in Connection, c = conns[g][r],
         c.up # <<>>
  PROVE  /\ c.first => Head(c.up) = [nas |-> "regRequest", supi |-> c.ue] /\ Tail(c.up) = <<>>
         /\ ~c.first => /\ Head(c.up).nas \in {"regComplete", "pduRequest"}
                        /\ Head(c.up).nas = "pduRequest" => Tail(c.up) = <<>>
                        /\ Tail(c.up) \in {<<>>, RequestUp}
         /\ Head(c.up) \in UplinkNas /\ Tail(c.up) \in Seq(UplinkNas)
<1>1. UplinkOK(g, r) /\ c # None
  BY NoneAssumption DEF IInv, ConnsOK
<1>2. c.up \in Seq(UplinkNas)
  BY DEF Connection
<1>3. Head(c.up) \in UplinkNas /\ Tail(c.up) \in Seq(UplinkNas)
  BY <1>2, TailFacts
<1>4. CASE c.first
  <2>1. c.up = FirstUp(c.ue)
    BY <1>1, <1>4 DEF UplinkOK
  <2> QED BY <1>3, <1>4, <2>1, UpsFacts
<1>5. CASE ~c.first
  <2>1. c.up \in {CompleteUp, RequestUp}
    BY <1>1, <1>5 DEF UplinkOK, LaterUps
  <2>2. Head(c.up).nas \in {"regComplete", "pduRequest"} /\ Tail(c.up) \in {<<>>, RequestUp}
    BY ONLY <2>1, UpsFacts
  <2>3. Head(c.up).nas = "pduRequest" => Tail(c.up) = <<>>
    BY ONLY <2>1, UpsFacts
  <2> QED BY ONLY <1>3, <1>5, <2>2, <2>3
<1> QED BY ONLY <1>4, <1>5

LEMMA RelayUplinkKeeps ==
  ASSUME IInv, NEW g \in Gnbs, NEW r \in RanIds, GnbRelayUplink(g, r)
  PROVE  IInv' /\ Spent \subseteq Spent'
<1> USE Bounds
<1>1. PICK c : c = conns[g][r]
  OBVIOUS
<1>2. /\ c # None /\ c.up # <<>>
      /\ UNCHANGED <<ue, nextRan, loop, nextDl, tunnels, ueSessions, broken, silent, toGnb,
                     contexts, smf, peer>>
  BY <1>1 DEF GnbRelayUplink, ueVars, amfVars
<1>3. c \in Connection
  BY <1>1, <1>2 DEF IInv, TypeOK
<1>4. PICK p : p = Head(c.up)
  OBVIOUS
<1>5. PICK m : m = IF c.first THEN [type |-> "initialUE", ran |-> r, pdu |-> p]
                   ELSE [type |-> "uplinkNAS", amf |-> c.amf, ran |-> r, pdu |-> p]
  OBVIOUS
<1>6. PICK d : d = [c EXCEPT !.up = Tail(c.up), !.first = FALSE]
  OBVIOUS
<1>7. /\ ConnBecomes(g, r, d)
      /\ toAmf' = [toAmf EXCEPT ![g] = Append(@, m)]
  BY <1>1, <1>4, <1>5, <1>6 DEF GnbRelayUplink, ConnBecomes
<1>8. /\ c.first => p = [nas |-> "regRequest", supi |-> c.ue] /\ Tail(c.up) = <<>>
      /\ ~c.first => /\ p.nas \in {"regComplete", "pduRequest"}
                     /\ p.nas = "pduRequest" => Tail(c.up) = <<>>
                     /\ Tail(c.up) \in {<<>>, RequestUp}
      /\ p \in UplinkNas /\ Tail(c.up) \in Seq(UplinkNas)
  BY <1>1, <1>2, <1>3, <1>4, NextUplink
<1>9. /\ d \in Connection
      /\ d.ue = c.ue /\ d.open = c.open /\ ~d.first /\ d.amf = c.amf
      /\ d.up = Tail(c.up) /\ d.down = c.down
  BY <1>3, <1>6, <1>8 DEF Connection
<1>10. d # None
  BY <1>9, NoneAssumption
<1>11. m \in UplinkNgap /\ m.ran = r /\ m.pdu = p
  <2>1. c.amf \in 0..MaxIds
    BY <1>3 DEF Connection
  <2> QED BY <1>5, <1>8, <2>1 DEF UplinkNgap
<1>12. ConnKept(g, r, d)
  <2>1. d \in Connection \cup {None} /\ (IF d = None THEN ~c.open ELSE d.ue = c.ue /\ d.open = c.open)
    BY <1>9, <1>10
  <2> QED BY ONLY IInv, g \in Gnbs, r \in RanIds, <1>1, <1>2, <1>3, <1>7, <1>9, <1>10, <2>1, GnbConnFrame
<1> USE DEF ConnKept
<1>13. /\ Append(toAmf[g], m) \in Seq(UplinkNgap)
       /\ Range(Append(toAmf[g], m)) = Range(toAmf[g]) \cup {m}
       /\ \A M : Has(Append(toAmf[g], m), M) <=> Has(toAmf[g], M) \/ m \in M
       /\ \A M : AtMostOne(toAmf[g], M) /\ ~(Has(toAmf[g], M) /\ m \in M)
                   => AtMostOne(Append(toAmf[g], m), M)
  BY <1>11, AppendFacts DEF IInv, TypeOK
<1>14. /\ toAmf' \in [Gnbs -> Seq(UplinkNgap)]
       /\ toAmf'[g] = Append(toAmf[g], m)
       /\ \A h \in Gnbs : h # g => toAmf'[h] = toAmf[h]
  BY <1>7, <1>13, AmfQueueSet DEF IInv
<1>15. UplinkOK(g, r) /\ DownlinkOK(g, r)
  BY DEF IInv, ConnsOK
<1>16. UplinkOK(g, r)'
  <2>1. /\ r <= nextRan[g] /\ Home[c.ue] = g
        /\ c.open => ue[c.ue].phase # "off" /\ ue[c.ue].ran = r
        /\ c.amf # 0 => KnownId(g, c.amf)
        /\ ~c.first => c.up \in LaterUps
        /\ ~c.first /\ c.up # <<>> => c.amf # 0 /\ Known(g, r)
    BY <1>1, <1>2, <1>15 DEF UplinkOK
  <2>2. ue' = ue /\ nextRan' = nextRan
    BY <1>2
  <2>3. r <= nextRan'[g] /\ Home[d.ue] = g /\ conns'[g][r] = d
    BY <1>9, <1>12, <2>1, <2>2
  <2>4. d.open => ue'[d.ue].phase # "off" /\ ue'[d.ue].ran = r
    BY <1>9, <2>1, <2>2
  <2>5. d.amf # 0 => KnownId(g, d.amf)'
    BY <1>9, <1>12, <2>1
  <2>6. d.up \in LaterUps
    BY <1>8, <1>9 DEF LaterUps
  <2>7. d.up # <<>> => d.amf # 0 /\ Known(g, r)'
    BY <1>2, <1>8, <1>9, <1>12, <2>1
  <2> QED BY ONLY <1>9, <2>3, <2>4, <2>5, <2>6, <2>7, UplinkMade
<1>17. DownlinkOK(g, r)'
  BY <1>1, <1>2, <1>9, <1>12, <1>15 DEF DownlinkOK
<1>18. AmfMessageOK(g, m)'
  <2>1. CASE c.first
    BY <1>1, <1>2, <1>5, <1>8, <1>9, <1>12, <1>15, <2>1 DEF AmfMessageOK, UplinkOK
  <2>2. CASE ~c.first
    <3>1. c.amf # 0 /\ Known(g, r) /\ KnownId(g, c.amf)
      BY <1>1, <1>2, <1>15, <2>2 DEF UplinkOK
    <3>2. m.type = "uplinkNAS" /\ m.amf = c.amf /\ m.ran = r /\ m.pdu = p
      BY <1>5, <2>2
    <3> QED BY <1>8, <1>12, <2>2, <3>1, <3>2 DEF AmfMessageOK
  <2> QED BY <2>1, <2>2
<1>19. MessagesOK'
  <2>1. \A h \in Gnbs : Range(toAmf[h]) \subseteq UplinkNgap /\ Range(toGnb[h]) \subseteq DownlinkNgap
    BY RangeOfSeq DEF IInv, TypeOK
  <2>2. \A h \in Gnbs : \A q \in Range(toAmf'[h]) : AmfMessageOK(h, q)'
    BY <1>12, <1>13, <1>14, <1>18, <2>1 DEF IInv, MessagesOK
  <2>3. \A h \in Gnbs : \A q \in Range(toGnb'[h]) : GnbMessageOK(h, q)'
    BY <1>2, <1>12, <2>1 DEF IInv, MessagesOK
  <2> QED BY <2>2, <2>3 DEF MessagesOK
<1>20. \A s : /\ m \in Initials(s) => s = r /\ c.first
              /\ m \in Requests(s) => s = r /\ ~c.first /\ p.nas = "pduRequest"
  BY <1>5, <1>11 DEF Initials, Requests
<1>21. ~(m \in Initials(r) /\ m \in Requests(r))
  BY <1>20
<1>22. /\ c.first => IsAt(g, r, "first")
       /\ ~c.first => IsAt(g, r, "wants")
  BY <1>1, <1>2 DEF IsAt
<1>23. /\ c.first => ~Has(toAmf[g], Initials(r))
       /\ ~c.first => ~Has(toAmf[g], Requests(r))
  <2>1. /\ ~(IsAt(g, r, "first") /\ IsAt(g, r, "initial"))
        /\ ~(IsAt(g, r, "wants") /\ IsAt(g, r, "requested"))
    BY DEF IInv, PlacesOK, OnePlace, Places
  <2> QED BY <1>22, <2>1 DEF IsAt
<1>24. ASSUME NEW h \in Gnbs, NEW s \in RanIds PROVE OneMessage(h, s)'
  <2>1. OneMessage(h, s)
    BY DEF IInv, PlacesOK
  <2>2. AtMostOne(toAmf'[h], Initials(s)) /\ AtMostOne(toAmf'[h], Requests(s))
    <3>1. CASE h = g
      BY <1>13, <1>14, <1>20, <1>23, <2>1, <3>1 DEF OneMessage
    <3>2. CASE h # g
      BY <1>14, <2>1, <3>2 DEF OneMessage
    <3> QED BY <3>1, <3>2
  <2>3. conns'[h][s] # None => AtMostOne(conns'[h][s].down, Accepts)
    <3>1. CASE h = g /\ s = r
      BY <1>1, <1>2, <1>9, <1>12, <2>1, <3>1 DEF OneMessage
    <3>2. CASE ~(h = g /\ s = r)
      BY <1>12, <2>1, <3>2 DEF OneMessage
    <3> QED BY <3>1, <3>2
  <2> QED BY <1>2, <2>1, <2>2, <2>3 DEF OneMessage
<1>25. ASSUME NEW h \in Gnbs, NEW s \in RanIds, ~(h = g /\ s = r), NEW y \in Places,
              IsAt(h, s, y)'
       PROVE  IsAt(h, s, y)
  <2>1. Has(toAmf'[h], Initials(s)) => Has(toAmf[h], Initials(s))
    BY <1>13, <1>14, <1>20, <1>25
  <2>2. Has(toAmf'[h], Requests(s)) => Has(toAmf[h], Requests(s))
    BY <1>13, <1>14, <1>20, <1>25
  <2> QED BY <1>2, <1>12, <1>25, <2>1, <2>2 DEF IsAt
<1>26. /\ Has(toAmf'[g], Initials(r)) => Has(toAmf[g], Initials(r)) \/ c.first
       /\ Has(toAmf'[g], Requests(r)) =>
            Has(toAmf[g], Requests(r)) \/ (~c.first /\ p.nas = "pduRequest")
  BY <1>13, <1>14, <1>20
<1>27. (\A h \in Gnbs, s \in RanIds : OnePlace(h, s)') /\ Spent \subseteq Spent'
  <2>1. CASE c.first
    <3>1. ~IsAt(g, r, "first")'
      BY <1>9, <1>12 DEF IsAt
    <3>2. ASSUME NEW y \in Places, IsAt(g, r, y)', y # "initial" PROVE IsAt(g, r, y)
      BY <1>1, <1>2, <1>8, <1>9, <1>12, <1>26, <2>1, <3>2 DEF IsAt
    <3>3. "first" \in Places /\ "initial" \in Places
      BY DEF Places
    <3>4. ~Known(g, r)'
      BY <1>12, <1>22, <2>1 DEF IInv, PlacesOK, OnePlace
    <3>5. \A h \in Gnbs, s \in RanIds, y \in Places :
            IsAt(h, s, y)' => IsAt(h, s, y) \/ (h = g /\ s = r /\ y = "initial")
      BY <1>25, <3>2
    <3>6. /\ PlacesOK /\ IsAt(g, r, "first") /\ g \in Gnbs /\ r \in RanIds
          /\ \A h \in Gnbs, s \in RanIds : Known(h, s)' => Known(h, s)
      BY <1>12, <1>22, <2>1 DEF IInv
    <3>7. "initial" \in {"fresh", "first", "initial"} => ~Known(g, r)'
      BY <3>4
    <3> QED BY ONLY <3>1, <3>3, <3>5, <3>6, <3>7, PlacesMoved
  <2>2. CASE ~c.first /\ p.nas = "pduRequest"
    <3>1. ~IsAt(g, r, "wants")'
      BY <1>8, <1>9, <1>12, <2>2 DEF IsAt
    <3>2. ASSUME NEW y \in Places, IsAt(g, r, y)', y # "requested" PROVE IsAt(g, r, y)
      BY <1>1, <1>2, <1>8, <1>9, <1>12, <1>26, <2>2, <3>2 DEF IsAt
    <3>3. "wants" \in Places /\ "requested" \in Places
      BY DEF Places
    <3>5. \A h \in Gnbs, s \in RanIds, y \in Places :
            IsAt(h, s, y)' => IsAt(h, s, y) \/ (h = g /\ s = r /\ y = "requested")
      BY <1>25, <3>2
    <3>6. /\ PlacesOK /\ IsAt(g, r, "wants") /\ g \in Gnbs /\ r \in RanIds
          /\ \A h \in Gnbs, s \in RanIds : Known(h, s)' => Known(h, s)
      BY <1>12, <1>22, <2>2 DEF IInv
    <3>7. "requested" \in {"fresh", "first", "initial"} => ~Known(g, r)'
      OBVIOUS
    <3> QED BY ONLY <3>1, <3>3, <3>5, <3>6, <3>7, PlacesMoved
  <2>3. CASE ~c.first /\ p.nas # "pduRequest"
    <3>1. ASSUME NEW y \in Places, IsAt(g, r, y)' PROVE IsAt(g, r, y)
      BY <1>1, <1>2, <1>9, <1>12, <1>26, <2>3, <3>1 DEF IsAt
    <3> QED BY <1>12, <1>25, <3>1, PlacesKept DEF IInv
  <2> QED BY <2>1, <2>2, <2>3
<1>28. Len(smf') <= Cardinality(Spent')
  BY <1>2, <1>27, StillCounted
<1>29. SessionsOK'
  BY <1>2, <1>12 DEF IInv, SessionsOK, SetupsInOrder
<1>30. TypeOK'
  BY <1>2, <1>12, <1>14 DEF IInv, TypeOK
<1> QED BY <1>12, <1>16, <1>17, <1>19, <1>24, <1>27, <1>28, <1>29, <1>30
        DEF IInv, ConnsOK, PlacesOK

----------------------------------------------------------------------------
(* The gNB's read loop.                                                    *)

LEMMA TailOrdered ==
  ASSUME NEW q \in Seq(DownlinkNgap), q # <<>>, Ordered(q)
  PROVE  /\ Ordered(Tail(q))
         /\ Head(q).type = "setupRequest" =>
              \A m \in Range(Tail(q)) : m.type = "setupRequest" => Head(q).ul < m.ul
<1>1. /\ Tail(q) \in Seq(DownlinkNgap) /\ Head(q) = q[1] /\ Len(Tail(q)) = Len(q) - 1
      /\ \A i \in 1..Len(Tail(q)) : Tail(q)[i] = q[i + 1]
  BY HeadTailProperties
<1>2. DOMAIN q = 1..Len(q) /\ DOMAIN Tail(q) = 1..Len(Tail(q)) /\ Len(q) \in Nat \ {0}
  BY <1>1, LenProperties, EmptySeq
<1>3. Ordered(Tail(q))
  BY <1>1, <1>2 DEF Ordered
<1>4. ASSUME Head(q).type = "setupRequest", NEW m \in Range(Tail(q)), m.type = "setupRequest"
      PROVE  Head(q).ul < m.ul
  <2>1. PICK i \in 1..Len(Tail(q)) : m = q[i + 1]
    BY <1>1, <1>2 DEF Range
  <2>2. 1 \in DOMAIN q /\ i + 1 \in DOMAIN q /\ 1 < i + 1
    BY <1>1, <1>2
  <2> QED BY <1>1, <1>4, <2>1, <2>2 DEF Ordered
<1> QED BY <1>3, <1>4

LEMMA AppendOrdered ==
  ASSUME NEW q \in Seq(DownlinkNgap), NEW e \in DownlinkNgap, Ordered(q),
         e.type = "setupRequest" => \A m \in Range(q) : m.type = "setupRequest" => m.ul < e.ul
  PROVE  Ordered(Append(q, e))
<1> DEFINE t == Append(q, e)
<1>1. /\ t \in Seq(DownlinkNgap) /\ Len(t) = Len(q) + 1 /\ t[Len(q) + 1] = e
      /\ \A i \in 1..Len(q) : t[i] = q[i]
  BY AppendProperties
<1>2. DOMAIN q = 1..Len(q) /\ DOMAIN t = 1..Len(t) /\ Len(q) \in Nat
  BY <1>1, LenProperties
<1>3. \A i \in DOMAIN q : q[i] \in Range(q)
  BY DEF Range
<1> HIDE DEF t
<1>4. Ordered(t)
  <2> SUFFICES ASSUME NEW i \in DOMAIN t, NEW j \in DOMAIN t, i < j,
                      t[i].type = "setupRequest", t[j].type = "setupRequest"
               PROVE  t[i].ul < t[j].ul
    BY DEF Ordered
  <2>1. i \in DOMAIN q /\ t[i] = q[i]
    BY <1>1, <1>2
  <2>2. CASE j \in DOMAIN q
    BY <1>1, <1>2, <2>1, <2>2 DEF Ordered
  <2>3. CASE j \notin DOMAIN q
    <3>1. j = Len(q) + 1
      BY <1>1, <1>2, <2>3
    <3> QED BY <1>1, <1>3, <2>1, <3>1
  <2> QED BY <2>2, <2>3
<1> QED BY <1>4 DEF t

\* The gNB takes the head of the AMF's messages.
LEMMA GnbTakes ==
  ASSUME IInv, NEW g \in Gnbs, toGnb[g] # <<>>,
         toGnb' = [toGnb EXCEPT ![g] = Tail(@)]
  PROVE  /\ Head(toGnb[g]) \in DownlinkNgap /\ GnbMessageOK(g, Head(toGnb[g]))
         /\ Head(toGnb[g]) \in Range(toGnb[g])
         /\ toGnb' \in [Gnbs -> Seq(DownlinkNgap)]
         /\ toGnb'[g] = Tail(toGnb[g])
         /\ \A h \in Gnbs : h # g => toGnb'[h] = toGnb[h]
         /\ \A h \in Gnbs : Range(toGnb'[h]) \subseteq Range(toGnb[h])
         /\ \A h \in Gnbs : Range(toGnb[h]) \subseteq DownlinkNgap /\ Range(toAmf[h]) \subseteq UplinkNgap
         /\ \A h \in Gnbs : SetupsInOrder(h)'
         /\ \A h \in Gnbs : \A M : Has(toGnb'[h], M) => Has(toGnb[h], M)
         /\ \A h \in Gnbs : \A M : AtMostOne(toGnb[h], M) => AtMostOne(toGnb'[h], M)
         /\ \A M : AtMostOne(toGnb[g], M) /\ Head(toGnb[g]) \in M => ~Has(toGnb'[g], M)
<1>1. toGnb[g] \in Seq(DownlinkNgap)
  BY DEF IInv, TypeOK
<1>2. /\ Tail(toGnb[g]) \in Seq(DownlinkNgap)
      /\ Head(toGnb[g]) \in DownlinkNgap /\ Head(toGnb[g]) \in Range(toGnb[g])
      /\ Range(Tail(toGnb[g])) \subseteq Range(toGnb[g])
      /\ \A M : Has(Tail(toGnb[g]), M) => Has(toGnb[g], M)
      /\ \A M : AtMostOne(toGnb[g], M) =>
           AtMostOne(Tail(toGnb[g]), M) /\ (Head(toGnb[g]) \in M => ~Has(Tail(toGnb[g]), M))
  BY <1>1, TailFacts
<1>3. /\ toGnb' \in [Gnbs -> Seq(DownlinkNgap)]
      /\ toGnb'[g] = Tail(toGnb[g])
      /\ \A h \in Gnbs : h # g => toGnb'[h] = toGnb[h]
  BY <1>2, GnbQueueSet DEF IInv
<1>4. \A h \in Gnbs : Range(toGnb'[h]) \subseteq Range(toGnb[h])
  BY <1>2, <1>3
<1>5. \A h \in Gnbs : Range(toGnb[h]) \subseteq DownlinkNgap /\ Range(toAmf[h]) \subseteq UplinkNgap
  BY RangeOfSeq DEF IInv, TypeOK
<1>6. \A h \in Gnbs : SetupsInOrder(h)'
  BY <1>1, <1>3, TailOrdered DEF IInv, SessionsOK, SetupsInOrder
<1>7. /\ \A h \in Gnbs : \A M : Has(toGnb'[h], M) => Has(toGnb[h], M)
      /\ \A h \in Gnbs : \A M : AtMostOne(toGnb[h], M) => AtMostOne(toGnb'[h], M)
  BY <1>2, <1>3
<1> QED BY <1>2, <1>3, <1>4, <1>5, <1>6, <1>7 DEF IInv, MessagesOK

LEMMA DropDownlinkKeeps ==
  ASSUME IInv, NEW g \in Gnbs, GnbDropDownlink(g)
  PROVE  IInv' /\ Spent \subseteq Spent'
<1> USE Bounds
<1>1. /\ toGnb[g] # <<>> /\ toGnb' = [toGnb EXCEPT ![g] = Tail(@)]
      /\ UNCHANGED <<ue, nextRan, conns, loop, nextDl, tunnels, ueSessions, broken, silent, toAmf,
                     contexts, smf, peer>>
  BY DEF GnbDropDownlink, Reads, ueVars, gnbVars, amfVars
<1>2. /\ toGnb' \in [Gnbs -> Seq(DownlinkNgap)]
      /\ \A h \in Gnbs : Range(toGnb'[h]) \subseteq Range(toGnb[h])
      /\ \A h \in Gnbs : SetupsInOrder(h)'
      /\ \A h \in Gnbs : \A M : Has(toGnb'[h], M) => Has(toGnb[h], M)
      /\ \A h \in Gnbs : \A M : AtMostOne(toGnb[h], M) => AtMostOne(toGnb'[h], M)
  BY <1>1, GnbTakes
<1>3. /\ \A h \in Gnbs, s \in RanIds : Known(h, s)' <=> Known(h, s)
      /\ \A h \in Gnbs : \A k : KnownId(h, k)' <=> KnownId(h, k)
  BY <1>1 DEF Known, KnownId
<1>4. \A v \in UEs : UeOK(v)'
  BY <1>1 DEF IInv, UeOK
<1>5. \A k \in DOMAIN contexts' : ContextOK(k)'
  BY <1>1 DEF IInv, ContextOK
<1>6. ConnsOK'
  BY <1>1 DEF IInv, ConnsOK, UplinkOK, DownlinkOK, KnownId, Known
<1>7. MessagesOK'
  BY <1>1, <1>2 DEF IInv, MessagesOK, AmfMessageOK, GnbMessageOK, KnownId, Known
<1>8. \A h \in Gnbs, s \in RanIds : OneMessage(h, s)'
  BY <1>1, <1>2 DEF IInv, PlacesOK, OneMessage
<1>9. \A h \in Gnbs, s \in RanIds, y \in Places : IsAt(h, s, y)' => IsAt(h, s, y)
  BY <1>1, <1>2 DEF IsAt
<1>10. (\A h \in Gnbs, s \in RanIds : OnePlace(h, s)') /\ Spent \subseteq Spent'
  BY <1>3, <1>9, PlacesKept DEF IInv
<1>11. Len(smf') <= Cardinality(Spent')
  BY <1>1, <1>10, StillCounted
<1>12. SessionsOK'
  BY <1>1, <1>2 DEF IInv, SessionsOK, TunnelsOK
<1>13. TypeOK'
  BY <1>1, <1>2 DEF IInv, TypeOK
<1>14. RegisteredAsSelf' /\ ContextsApart' /\ TunnelBeforeAccept' /\ PeersApart'
  BY <1>1 DEF IInv, RegisteredAsSelf, ContextsApart, TunnelBeforeAccept, PeersApart
<1> QED BY <1>4, <1>5, <1>6, <1>7, <1>8, <1>10, <1>11, <1>12, <1>13, <1>14 DEF IInv, PlacesOK

LEMMA RelayDownlinkKeeps ==
  ASSUME IInv, NEW g \in Gnbs, GnbRelayDownlink(g)
  PROVE  IInv' /\ Spent \subseteq Spent'
<1> USE Bounds
<1>1. PICK m, r, c : m = Head(toGnb[g]) /\ r = m.ran /\ c = conns[g][r]
  OBVIOUS
<1>2. /\ loop[g].pc = "read" /\ toGnb[g] # <<>> /\ m.type = "downlinkNAS" /\ c # None
      /\ toGnb' = [toGnb EXCEPT ![g] = Tail(@)]
      /\ UNCHANGED <<ue, nextRan, loop, nextDl, tunnels, ueSessions, broken, silent, toAmf,
                     contexts, smf, peer>>
  BY <1>1 DEF GnbRelayDownlink, Reads, ueVars, amfVars
<1>3. PICK d : d = [c EXCEPT !.amf = m.amf, !.down = IF c.open THEN Append(c.down, m.pdu) ELSE c.down]
  OBVIOUS
<1>4. ConnBecomes(g, r, d)
  BY <1>1, <1>3 DEF GnbRelayDownlink, ConnBecomes
<1>5. /\ m \in DownlinkNgap /\ GnbMessageOK(g, m) /\ m \in Range(toGnb[g])
      /\ toGnb' \in [Gnbs -> Seq(DownlinkNgap)]
      /\ \A h \in Gnbs : Range(toGnb'[h]) \subseteq Range(toGnb[h])
      /\ \A h \in Gnbs : Range(toGnb[h]) \subseteq DownlinkNgap /\ Range(toAmf[h]) \subseteq UplinkNgap
      /\ \A h \in Gnbs : SetupsInOrder(h)'
      /\ \A h \in Gnbs : \A M : Has(toGnb'[h], M) => Has(toGnb[h], M)
      /\ \A h \in Gnbs : \A M : AtMostOne(toGnb[h], M) => AtMostOne(toGnb'[h], M)
      /\ \A M : AtMostOne(toGnb[g], M) /\ m \in M => ~Has(toGnb'[g], M)
  BY <1>1, <1>2, GnbTakes
<1>6. r \in RanIds /\ m.amf \in 0..MaxIds /\ m.pdu \in DownlinkNas
  BY <1>1, <1>2, <1>5, DownlinkFields
<1>7. c \in Connection /\ c.down \in Seq(DownlinkNas)
  BY <1>1, <1>2, <1>6 DEF IInv, TypeOK, Connection
<1>8. /\ Append(c.down, m.pdu) \in Seq(DownlinkNas)
      /\ Range(Append(c.down, m.pdu)) = Range(c.down) \cup {m.pdu}
      /\ \A M : Has(Append(c.down, m.pdu), M) <=> Has(c.down, M) \/ m.pdu \in M
      /\ \A M : AtMostOne(c.down, M) /\ ~(Has(c.down, M) /\ m.pdu \in M)
                  => AtMostOne(Append(c.down, m.pdu), M)
  BY <1>6, <1>7, AppendFacts
<1>9. /\ d \in Connection
      /\ d.ue = c.ue /\ d.open = c.open /\ d.first = c.first /\ d.up = c.up /\ d.amf = m.amf
      /\ d.down = IF c.open THEN Append(c.down, m.pdu) ELSE c.down
  <2>1. (IF c.open THEN Append(c.down, m.pdu) ELSE c.down) \in Seq(DownlinkNas)
    BY <1>7, <1>8
  <2> QED BY <1>3, <1>6, <1>7, <2>1 DEF Connection
<1>10. d # None
  BY <1>9, NoneAssumption
<1>11. ConnKept(g, r, d)
  <2>1. d \in Connection \cup {None} /\ (IF d = None THEN ~c.open ELSE d.ue = c.ue /\ d.open = c.open)
    BY <1>9, <1>10
  <2> QED BY ONLY IInv, g \in Gnbs, <1>1, <1>2, <1>4, <1>6, <1>7, <1>9, <1>10, <2>1, GnbConnFrame
<1> USE DEF ConnKept
<1>12. UplinkOK(g, r) /\ DownlinkOK(g, r) /\ OnePlace(g, r)
  BY <1>6 DEF IInv, ConnsOK, PlacesOK
<1>13. m.pdu.nas \in {"regAccept", "pduAccept", "regReject", "pduReject"}
  BY <1>6, DownlinkNasFields
<1>14. /\ m \in Answers(r) <=> m.pdu.nas \in {"regAccept", "regReject"}
       /\ \A s : m \in Answers(s) => s = r
       /\ m.pdu \in Accepts <=> m.pdu.nas = "regAccept"
  BY <1>1, <1>2, <1>5, <1>6 DEF Answers, Accepts
<1>15. m \in Answers(r) =>
         IsAt(g, r, "answered") /\ ~IsAt(g, r, "accepted") /\ ~IsAt(g, r, "wants")
  <2>1. m \in Answers(r) => IsAt(g, r, "answered")
    BY <1>5 DEF IsAt, Has
  <2> QED BY <1>12, <2>1 DEF OnePlace, Places
<1>16. m.pdu.nas # "regReject" => KnownId(g, m.amf) /\ m.amf # 0
  <2>1. m.pdu.nas # "regReject" => KnownId(g, m.amf)
    BY <1>2, <1>5, <1>13 DEF GnbMessageOK
  <2>2. KnownId(g, m.amf) => m.amf \in Sessions
    BY ContextTyped DEF IInv, KnownId
  <2> QED BY <2>1, <2>2 DEF Sessions
<1>17. m.pdu.nas = "regReject" => m.amf = 0
  BY <1>2, <1>5 DEF GnbMessageOK
<1>18. UplinkOK(g, r)'
  <2>1. ~c.first /\ c.up # <<>> => m.amf # 0
    BY <1>1, <1>2, <1>14, <1>15, <1>16 DEF IsAt
  <2>2. m.amf # 0 => KnownId(g, m.amf)
    BY <1>16, <1>17
  <2>3. /\ r <= nextRan[g] /\ Home[c.ue] = g
        /\ c.open => ue[c.ue].phase # "off" /\ ue[c.ue].ran = r
        /\ c.first => c.up = FirstUp(c.ue)
        /\ ~c.first => c.up \in LaterUps
        /\ ~c.first /\ c.up # <<>> => Known(g, r)
    BY <1>1, <1>2, <1>12 DEF UplinkOK
  <2>4. ue' = ue /\ nextRan' = nextRan
    BY <1>2
  <2>5. r <= nextRan'[g] /\ Home[d.ue] = g /\ conns'[g][r] = d
    BY <1>9, <1>11, <2>3, <2>4
  <2>6. d.open => ue'[d.ue].phase # "off" /\ ue'[d.ue].ran = r
    BY <1>9, <2>3, <2>4
  <2>7. d.amf # 0 => KnownId(g, d.amf)'
    BY <1>9, <1>11, <2>2
  <2>8. (d.first => d.up = FirstUp(d.ue)) /\ (~d.first => d.up \in LaterUps)
    BY <1>9, <2>3
  <2>9. ~d.first /\ d.up # <<>> => d.amf # 0 /\ Known(g, r)'
    BY <1>6, <1>9, <1>11, <2>1, <2>3
  <2> QED BY ONLY <2>5, <2>6, <2>7, <2>8, <2>9, UplinkMade
<1>19. DownlinkOK(g, r)'
  <2> SUFFICES ASSUME NEW x \in Range(d.down)
               PROVE  /\ x.nas = "regAccept" => d.amf # 0 /\ KnownId(g, x.guti)' /\ contexts'[x.guti].ran = r
                      /\ x.nas = "pduAccept" /\ x.dl # 0 => x.dl \in tunnels'[g] \cup broken'[g]
    BY <1>11 DEF DownlinkOK
  <2>1. CASE x \in Range(c.down)
    <3>1. x.nas = "regAccept" => Has(c.down, Accepts)
      <4>1. Range(c.down) \subseteq DownlinkNas
        BY <1>7, RangeOfSeq
      <4> QED BY <2>1, <4>1 DEF Has, Accepts
    <3>2. x.nas = "regAccept" => m.pdu.nas # "regReject"
      BY <1>1, <1>2, <1>14, <1>15, <3>1 DEF IsAt
    <3> QED BY <1>1, <1>2, <1>9, <1>11, <1>12, <1>16, <2>1, <3>2 DEF DownlinkOK
  <2>2. CASE x = m.pdu
    <3>1. x.nas = "regAccept" => x.guti = m.amf /\ contexts[m.amf].ran = r
      BY <1>1, <1>2, <1>5, <2>2 DEF GnbMessageOK
    <3>2. x.nas = "pduAccept" /\ x.dl # 0 => x.dl \in tunnels[g] \cup broken[g]
      <4>1. x.nas = "pduAccept" /\ x.dl # 0 => x.dl \in Sessions /\ x.dl < nextDl[g]
        BY <1>2, <1>5, <1>6, <2>2, DownlinkNasFields DEF GnbMessageOK, Sessions
      <4> QED BY <1>2, <4>1 DEF IInv, SessionsOK, TunnelsOK
    <3> QED BY <1>2, <1>9, <1>11, <1>16, <2>2, <3>1, <3>2
  <2> QED BY <1>8, <1>9, <2>1, <2>2
<1>20. MessagesOK'
  BY <1>2, <1>5, <1>11 DEF IInv, MessagesOK
<1>21. ASSUME NEW h \in Gnbs, NEW s \in RanIds PROVE OneMessage(h, s)'
  <2>1. OneMessage(h, s)
    BY DEF IInv, PlacesOK
  <2>2. conns'[h][s] # None => AtMostOne(conns'[h][s].down, Accepts)
    <3>1. CASE h = g /\ s = r
      <4>1. AtMostOne(c.down, Accepts)
        BY <1>1, <1>2, <2>1, <3>1 DEF OneMessage
      <4>2. ~(Has(c.down, Accepts) /\ m.pdu \in Accepts)
        BY <1>1, <1>2, <1>14, <1>15 DEF IsAt
      <4> QED BY <1>8, <1>9, <1>11, <3>1, <4>1, <4>2
    <3>2. CASE ~(h = g /\ s = r)
      BY <1>11, <2>1, <3>2 DEF OneMessage
    <3> QED BY <3>1, <3>2
  <2> QED BY <1>2, <1>5, <2>1, <2>2 DEF OneMessage
<1>22. \A h \in Gnbs, s \in RanIds, y \in Places :
         ~(h = g /\ s = r) => (IsAt(h, s, y)' => IsAt(h, s, y))
  BY <1>2, <1>5, <1>11 DEF IsAt
<1>23. (\A h \in Gnbs, s \in RanIds : OnePlace(h, s)') /\ Spent \subseteq Spent'
  <2>1. CASE m.pdu.nas = "regAccept"
    <3>1. IsAt(g, r, "answered") /\ ~Has(toGnb'[g], Answers(r))
      <4>1. AtMostOne(toGnb[g], Answers(r))
        BY <1>6 DEF IInv, PlacesOK, OneMessage
      <4> QED BY <1>5, <1>14, <1>15, <2>1, <4>1
    <3>2. ~IsAt(g, r, "answered")'
      BY <3>1 DEF IsAt
    <3>3. ASSUME NEW y \in Places, IsAt(g, r, y)', y # "accepted" PROVE IsAt(g, r, y)
      BY <1>1, <1>2, <1>5, <1>9, <1>11, <3>3 DEF IsAt
    <3>4. "answered" \in Places /\ "accepted" \in Places
      BY DEF Places
    <3> QED BY <1>6, <1>11, <1>22, <3>1, <3>2, <3>3, <3>4, PlacesMoved DEF IInv
  <2>2. CASE m.pdu.nas # "regAccept"
    <3>1. Has(d.down, Accepts) => Has(c.down, Accepts)
      BY <1>8, <1>9, <1>14, <2>2
    <3>2. ASSUME NEW y \in Places, IsAt(g, r, y)' PROVE IsAt(g, r, y)
      BY <1>1, <1>2, <1>5, <1>9, <1>11, <3>1, <3>2 DEF IsAt
    <3> QED BY <1>11, <1>22, <3>2, PlacesKept DEF IInv
  <2> QED BY <2>1, <2>2
<1>24. Len(smf') <= Cardinality(Spent')
  BY <1>2, <1>23, StillCounted
<1>25. SessionsOK'
  BY <1>5, <1>11 DEF SessionsOK
<1>26. TypeOK'
  BY <1>2, <1>5, <1>11 DEF IInv, TypeOK
<1> QED BY <1>11, <1>18, <1>19, <1>20, <1>21, <1>23, <1>24, <1>25, <1>26
        DEF IInv, ConnsOK, PlacesOK

\* The gNB gives out one more TEID.
LEMMA DlTaken ==
  ASSUME TypeOK, NEW g \in Gnbs, nextDl[g] \in Sessions, nextDl' = [nextDl EXCEPT ![g] = @ + 1]
  PROVE  /\ nextDl' \in [Gnbs -> 1..(MaxIds + 1)] /\ nextDl'[g] = nextDl[g] + 1
         /\ \A h \in Gnbs : h # g => nextDl'[h] = nextDl[h]
         /\ \A h \in Gnbs, l \in 0..MaxIds : l < nextDl[h] => l < nextDl'[h]
<1>1. nextDl \in [Gnbs -> 1..(MaxIds + 1)] /\ MaxIds \in Nat
  BY Bounds DEF TypeOK
<1>2. nextDl[g] + 1 \in 1..(MaxIds + 1)
  BY <1>1 DEF Sessions
<1>3. /\ nextDl' \in [Gnbs -> 1..(MaxIds + 1)] /\ nextDl'[g] = nextDl[g] + 1
      /\ \A h \in Gnbs : h # g => nextDl'[h] = nextDl[h]
  BY <1>1, <1>2
<1>4. ASSUME NEW h \in Gnbs, NEW l \in 0..MaxIds, l < nextDl[h] PROVE l < nextDl'[h]
  <2>1. nextDl[h] \in Nat /\ l \in Nat
    BY <1>1
  <2>2. nextDl'[h] = nextDl[h] \/ nextDl'[h] = nextDl[h] + 1
    BY <1>3
  <2> QED BY ONLY <1>4, <2>1, <2>2
<1> QED BY <1>3, <1>4

\* The gNB takes a resource setup from the AMF, with a DL TEID or without.
LEMMA SetupTaken ==
  ASSUME IInv, NEW g \in Gnbs, Reads(g, "setupRequest"), NEW m, m = Head(toGnb[g]),
         toGnb' = [toGnb EXCEPT ![g] = Tail(@)],
         nextDl' = nextDl \/ nextDl' = [nextDl EXCEPT ![g] = @ + 1],
         UNCHANGED <<nextRan, conns, contexts, smf>>
  PROVE  /\ m.ran \in RanIds /\ m.amf \in Sessions /\ m.ul \in Sessions /\ KnownId(g, m.amf)
         /\ nextDl[g] \in Sessions /\ nextDl[g] <= Len(smf) /\ Len(smf) \in Nat
         /\ nextDl' \in [Gnbs -> 1..(MaxIds + 1)]
         /\ nextDl' = nextDl \/ nextDl'[g] = nextDl[g] + 1
         /\ \A h \in Gnbs : h # g => nextDl'[h] = nextDl[h]
         /\ \A h \in Gnbs, x \in 0..MaxIds : x < nextDl[h] => x < nextDl'[h]
         /\ \A h \in Gnbs : \A q \in Range(toAmf[h]) : AmfMessageOK(h, q)'
         /\ \A h \in Gnbs : \A q \in Range(toGnb'[h]) : GnbMessageOK(h, q)'
<1> USE Bounds
<1>1. toGnb[g] # <<>> /\ m.type = "setupRequest"
  BY DEF Reads
<1>2. /\ m \in DownlinkNgap /\ GnbMessageOK(g, m)
      /\ toGnb'[g] = Tail(toGnb[g])
      /\ \A h \in Gnbs : Range(toGnb'[h]) \subseteq Range(toGnb[h])
      /\ \A h \in Gnbs : Range(toGnb[h]) \subseteq DownlinkNgap /\ Range(toAmf[h]) \subseteq UplinkNgap
  BY <1>1, GnbTakes
<1>3. m.ran \in RanIds /\ m.amf \in Sessions /\ m.ul \in Sessions
  BY <1>1, <1>2, DownlinkFields
<1>4. KnownId(g, m.amf) /\ nextDl[g] <= m.ul /\ m.ul <= Len(smf)
  BY <1>1, <1>2 DEF GnbMessageOK
<1>5. nextDl[g] \in Sessions /\ nextDl[g] <= Len(smf) /\ Len(smf) \in Nat
  <2>1. Len(smf) \in Nat /\ Len(smf) <= MaxIds
    BY SmfCounted
  <2>2. nextDl[g] \in 1..(MaxIds + 1) /\ m.ul \in 1..MaxIds
    BY <1>3 DEF IInv, TypeOK, Sessions
  <2> QED BY ONLY <1>4, <2>1, <2>2, Bounds DEF Sessions
<1>6. /\ nextDl' \in [Gnbs -> 1..(MaxIds + 1)]
      /\ nextDl' = nextDl \/ nextDl'[g] = nextDl[g] + 1
      /\ \A h \in Gnbs : h # g => nextDl'[h] = nextDl[h]
      /\ \A h \in Gnbs, x \in 0..MaxIds : x < nextDl[h] => x < nextDl'[h]
  <2>1. CASE nextDl' = nextDl
    BY <2>1 DEF IInv, TypeOK
  <2>2. CASE nextDl' = [nextDl EXCEPT ![g] = @ + 1]
    <3>1. TypeOK /\ nextDl[g] \in Sessions /\ nextDl' = [nextDl EXCEPT ![g] = @ + 1] /\ g \in Gnbs
      BY <1>5, <2>2 DEF IInv
    <3> QED BY ONLY <3>1, DlTaken
  <2> QED BY <2>1, <2>2
<1>7. \A h \in Gnbs : \A k : KnownId(h, k)' <=> KnownId(h, k)
  BY DEF KnownId
<1>8. ASSUME NEW h \in Gnbs, NEW q \in Range(toAmf[h]) PROVE AmfMessageOK(h, q)'
  <2>1. AmfMessageOK(h, q) /\ q \in UplinkNgap
    BY <1>2, <1>8 DEF IInv, MessagesOK
  <2>2. q.type = "setupResponse" => q.dl < nextDl'[h]
    BY <1>6, <2>1, UplinkFields DEF AmfMessageOK, Sessions
  <2> QED BY <2>1, <2>2 DEF AmfMessageOK, KnownId, Known
<1>9. ASSUME NEW h \in Gnbs, NEW q \in Range(toGnb'[h]) PROVE GnbMessageOK(h, q)'
  <2>1. GnbMessageOK(h, q) /\ q \in DownlinkNgap /\ q \in Range(toGnb[h])
    BY <1>2, <1>9 DEF IInv, MessagesOK
  <2>2. q.type = "downlinkNAS" /\ q.pdu.nas = "pduAccept" => q.pdu.dl < nextDl'[h]
    <3>1. q.type = "downlinkNAS" /\ q.pdu.nas = "pduAccept" => q.pdu.dl \in 0..MaxIds
      BY <2>1, DownlinkFields, DownlinkNasFields
    <3> QED BY <1>6, <2>1, <3>1 DEF GnbMessageOK
  <2>3. q.type = "setupRequest" => nextDl'[h] <= q.ul
    <3>1. q.type = "setupRequest" => q.ul \in Sessions
      BY <2>1, DownlinkFields
    <3>2. CASE h = g
      <4>1. q.type = "setupRequest" => m.ul < q.ul
        BY <1>1, <1>2, <1>9, <3>2, TailOrdered DEF IInv, TypeOK, SessionsOK, SetupsInOrder
      <4> QED BY <1>3, <1>4, <1>5, <1>6, <3>1, <3>2, <4>1 DEF Sessions
    <3>3. CASE h # g
      BY <1>6, <2>1, <3>3 DEF GnbMessageOK
    <3> QED BY <3>2, <3>3
  <2> QED BY <2>1, <2>2, <2>3 DEF GnbMessageOK, KnownId, Known
<1> QED BY <1>3, <1>4, <1>5, <1>6, <1>8, <1>9

LEMMA SetupRequestKeeps ==
  ASSUME IInv, NEW g \in Gnbs, GnbSetupRequest(g)
  PROVE  IInv' /\ Spent \subseteq Spent'
<1> USE Bounds
<1>1. PICK m, l : m = Head(toGnb[g]) /\ l = nextDl[g]
  OBVIOUS
<1>2. PICK e : e = [type |-> "setupResponse", amf |-> m.amf, dl |-> l]
  OBVIOUS
<1>3. /\ Reads(g, "setupRequest")
      /\ loop[g].pc = "read" /\ toGnb[g] # <<>> /\ m.type = "setupRequest"
      /\ nextDl' = [nextDl EXCEPT ![g] = @ + 1]
      /\ loop' = [loop EXCEPT ![g] = [pc |-> "open", ran |-> m.ran, ul |-> m.ul, dl |-> l]]
      /\ toGnb' = [toGnb EXCEPT ![g] = Tail(@)]
      /\ toAmf' = [toAmf EXCEPT ![g] = Append(@, e)]
      /\ UNCHANGED <<ue, nextRan, conns, tunnels, ueSessions, broken, silent, contexts, smf, peer>>
  BY <1>1, <1>2 DEF GnbSetupRequest, Reads, ueVars, amfVars
<1>4. /\ toGnb' \in [Gnbs -> Seq(DownlinkNgap)]
      /\ \A h \in Gnbs : SetupsInOrder(h)'
      /\ \A h \in Gnbs : \A M : Has(toGnb'[h], M) => Has(toGnb[h], M)
      /\ \A h \in Gnbs : \A M : AtMostOne(toGnb[h], M) => AtMostOne(toGnb'[h], M)
  BY <1>1, <1>3, GnbTakes
<1>5. /\ m.ran \in RanIds /\ m.amf \in Sessions /\ m.ul \in Sessions /\ KnownId(g, m.amf)
      /\ l \in Sessions /\ l <= Len(smf) /\ Len(smf) \in Nat
      /\ nextDl' \in [Gnbs -> 1..(MaxIds + 1)]
      /\ \A h \in Gnbs : h # g => nextDl'[h] = nextDl[h]
      /\ \A h \in Gnbs, x \in 0..MaxIds : x < nextDl[h] => x < nextDl'[h]
      /\ \A h \in Gnbs : \A q \in Range(toAmf[h]) : AmfMessageOK(h, q)'
      /\ \A h \in Gnbs : \A q \in Range(toGnb'[h]) : GnbMessageOK(h, q)'
  BY <1>1, <1>3, SetupTaken
<1>6. nextDl'[g] = l + 1
  BY <1>1, <1>3 DEF IInv, TypeOK
<1>7. Len(smf) <= MaxIds
  BY SmfCounted
<1>8. e \in UplinkNgap /\ e.type = "setupResponse" /\ e.amf = m.amf /\ e.dl = l
  BY <1>2, <1>5 DEF UplinkNgap
<1>9. /\ Append(toAmf[g], e) \in Seq(UplinkNgap)
      /\ Range(Append(toAmf[g], e)) = Range(toAmf[g]) \cup {e}
      /\ \A M : Has(Append(toAmf[g], e), M) <=> Has(toAmf[g], M) \/ e \in M
      /\ \A M : AtMostOne(toAmf[g], M) /\ ~(Has(toAmf[g], M) /\ e \in M)
                  => AtMostOne(Append(toAmf[g], e), M)
  BY <1>8, AppendFacts DEF IInv, TypeOK
<1>10. /\ toAmf' \in [Gnbs -> Seq(UplinkNgap)]
       /\ toAmf'[g] = Append(toAmf[g], e)
       /\ \A h \in Gnbs : h # g => toAmf'[h] = toAmf[h]
  BY <1>3, <1>9, AmfQueueSet DEF IInv
<1>12. /\ loop' \in [Gnbs -> [pc : {"read", "open", "notify"}, ran : 0..MaxRan,
                              ul : 0..MaxIds, dl : 0..MaxIds]]
       /\ loop'[g] = [pc |-> "open", ran |-> m.ran, ul |-> m.ul, dl |-> l]
       /\ \A h \in Gnbs : h # g => loop'[h] = loop[h]
  <2>1. m.ran \in 0..MaxRan /\ m.ul \in 0..MaxIds /\ l \in 0..MaxIds
    BY <1>5 DEF RanIds, Sessions
  <2> QED BY <1>3, <2>1 DEF IInv, TypeOK
<1>13. /\ \A h \in Gnbs, s \in RanIds : Known(h, s)' <=> Known(h, s)
       /\ \A h \in Gnbs : \A k : KnownId(h, k)' <=> KnownId(h, k)
  BY <1>3 DEF Known, KnownId
<1>14. (\A v \in UEs : UeOK(v)') /\ (\A k \in DOMAIN contexts' : ContextOK(k)')
  BY <1>3 DEF IInv, UeOK, ContextOK
<1>15. ConnsOK'
  BY <1>3 DEF IInv, ConnsOK, UplinkOK, DownlinkOK, KnownId, Known
<1>16. MessagesOK'
  <2>1. AmfMessageOK(g, e)'
    BY <1>5, <1>6, <1>8, <1>13 DEF AmfMessageOK, Sessions
  <2>2. \A h \in Gnbs : \A q \in Range(toAmf'[h]) : q \in Range(toAmf[h]) \/ (h = g /\ q = e)
    BY <1>9, <1>10
  <2>3. \A h \in Gnbs : \A q \in Range(toAmf'[h]) : AmfMessageOK(h, q)'
    BY ONLY <1>5, <2>1, <2>2
  <2> QED BY <1>5, <2>3 DEF MessagesOK
<1>17. \A s : e \notin Initials(s) /\ e \notin Requests(s)
  BY <1>8 DEF Initials, Requests
<1>18. /\ \A h \in Gnbs : \A s : Has(toAmf'[h], Initials(s)) => Has(toAmf[h], Initials(s))
       /\ \A h \in Gnbs : \A s : Has(toAmf'[h], Requests(s)) => Has(toAmf[h], Requests(s))
  BY <1>9, <1>10, <1>17
<1>19. ASSUME NEW h \in Gnbs, NEW s \in RanIds PROVE OneMessage(h, s)'
  <2>1. OneMessage(h, s)
    BY DEF IInv, PlacesOK
  <2>2. AtMostOne(toAmf'[h], Initials(s)) /\ AtMostOne(toAmf'[h], Requests(s))
    <3>1. CASE h = g
      BY <1>9, <1>10, <1>17, <2>1, <3>1 DEF OneMessage
    <3>2. CASE h # g
      BY <1>10, <2>1, <3>2 DEF OneMessage
    <3> QED BY <3>1, <3>2
  <2> QED BY <1>3, <1>4, <2>1, <2>2 DEF OneMessage
<1>20. \A h \in Gnbs, s \in RanIds, y \in Places : IsAt(h, s, y)' => IsAt(h, s, y)
  BY <1>3, <1>4, <1>18 DEF IsAt
<1>21. (\A h \in Gnbs, s \in RanIds : OnePlace(h, s)') /\ Spent \subseteq Spent'
  BY <1>13, <1>20, PlacesKept DEF IInv
<1>22. Len(smf') <= Cardinality(Spent')
  BY <1>3, <1>21, StillCounted
<1>23. \A h \in Gnbs : TunnelsOK(h)'
  <2>1. TunnelsOK(g)'
    <3>1. TunnelsOK(g)
      BY DEF IInv, SessionsOK
    <3>2. tunnels[g] \subseteq Sessions
      BY DEF IInv, TypeOK
    <3>3. nextDl'[g] <= Len(smf') + 1
      BY <1>3, <1>5, <1>6, <1>7 DEF Sessions
    <3>4. \A x \in tunnels'[g] : x < nextDl'[g]
      BY <1>1, <1>3, <1>5, <1>6, <3>1, <3>2 DEF TunnelsOK, Sessions
    <3>5. \A x \in Sessions :
            x < nextDl'[g] => x \in tunnels'[g] \cup broken'[g] \/ (loop'[g].pc = "open" /\ x = loop'[g].dl)
      BY <1>1, <1>3, <1>5, <1>6, <1>12, <3>1 DEF TunnelsOK, Sessions
    <3>6. \A n \in Sessions : peer'[n] # None /\ peer'[n].gnb = g => peer'[n].dl # l
      BY <1>1, <1>3, <1>5, <3>1 DEF IInv, PeersApart, TunnelsOK, Sessions
    <3>7. l < nextDl'[g]
      BY <1>5, <1>6 DEF Sessions
    <3> QED BY <1>5, <1>12, <3>3, <3>4, <3>5, <3>6, <3>7 DEF TunnelsOK
  <2>2. ASSUME NEW h \in Gnbs, h # g PROVE TunnelsOK(h)'
    BY <1>3, <1>5, <1>12, <2>2 DEF IInv, SessionsOK, TunnelsOK
  <2> QED BY <2>1, <2>2
<1>24. TypeOK'
  BY <1>3, <1>4, <1>5, <1>10, <1>12 DEF IInv, TypeOK
<1>25. RegisteredAsSelf' /\ ContextsApart' /\ TunnelBeforeAccept' /\ PeersApart'
  BY <1>3 DEF IInv, RegisteredAsSelf, ContextsApart, TunnelBeforeAccept, PeersApart
<1> QED BY <1>4, <1>14, <1>15, <1>16, <1>19, <1>21, <1>22, <1>23, <1>24, <1>25
        DEF IInv, PlacesOK, SessionsOK

\* A resource setup that comes to nothing: a DL TEID it took counts as broken.
LEMMA SetupFailsKeeps ==
  ASSUME IInv, NEW g \in Gnbs, GnbSetupFails(g)
  PROVE  IInv' /\ Spent \subseteq Spent'
<1> USE Bounds
<1>1. PICK m, l : m = Head(toGnb[g]) /\ l = nextDl[g]
  OBVIOUS
<1>2. /\ Reads(g, "setupRequest") /\ loop[g].pc = "read" /\ toGnb[g] # <<>>
      /\ \/ nextDl' = [nextDl EXCEPT ![g] = @ + 1] /\ broken' = [broken EXCEPT ![g] = @ \cup {l}]
         \/ nextDl' = nextDl /\ broken' = broken
      /\ silent' = [silent EXCEPT ![g] = @ \cup {m.ul}]
      /\ toGnb' = [toGnb EXCEPT ![g] = Tail(@)]
      /\ UNCHANGED <<ue, nextRan, conns, loop, tunnels, ueSessions, toAmf, contexts, smf, peer>>
  BY <1>1 DEF GnbSetupFails, Reads, ueVars, amfVars
<1>3. /\ toGnb' \in [Gnbs -> Seq(DownlinkNgap)]
      /\ \A h \in Gnbs : SetupsInOrder(h)'
      /\ \A h \in Gnbs : \A M : Has(toGnb'[h], M) => Has(toGnb[h], M)
      /\ \A h \in Gnbs : \A M : AtMostOne(toGnb[h], M) => AtMostOne(toGnb'[h], M)
  BY <1>2, GnbTakes
<1>4. /\ m.ul \in Sessions /\ l \in Sessions /\ l <= Len(smf) /\ Len(smf) \in Nat
      /\ nextDl' \in [Gnbs -> 1..(MaxIds + 1)]
      /\ nextDl' = nextDl \/ nextDl'[g] = l + 1
      /\ \A h \in Gnbs : h # g => nextDl'[h] = nextDl[h]
      /\ \A h \in Gnbs, x \in 0..MaxIds : x < nextDl[h] => x < nextDl'[h]
      /\ \A h \in Gnbs : \A q \in Range(toAmf[h]) : AmfMessageOK(h, q)'
      /\ \A h \in Gnbs : \A q \in Range(toGnb'[h]) : GnbMessageOK(h, q)'
  BY <1>1, <1>2, SetupTaken
<1>5. /\ broken' \in [Gnbs -> SUBSET Sessions] /\ silent' \in [Gnbs -> SUBSET Sessions]
      /\ \A h \in Gnbs : broken[h] \subseteq broken'[h]
      /\ \A h \in Gnbs : h # g => broken'[h] = broken[h]
      /\ nextDl'[g] = l + 1 => l \in broken'[g]
  <2>1. l + 1 # l
    BY <1>4 DEF Sessions
  <2>2. nextDl \in [Gnbs -> 1..(MaxIds + 1)] /\ broken \in [Gnbs -> SUBSET Sessions]
        /\ silent \in [Gnbs -> SUBSET Sessions]
    BY DEF IInv, TypeOK
  <2>3. silent' \in [Gnbs -> SUBSET Sessions]
    BY <1>2, <1>4, <2>2
  <2>4. CASE nextDl' = nextDl /\ broken' = broken
    <3>1. nextDl'[g] # l + 1
      BY <1>1, <2>1, <2>4
    <3> QED BY <2>2, <2>3, <2>4, <3>1
  <2>5. CASE broken' = [broken EXCEPT ![g] = @ \cup {l}]
    BY <1>4, <2>2, <2>3, <2>5
  <2> QED BY <1>2, <2>4, <2>5
<1>6. /\ \A h \in Gnbs, s \in RanIds : Known(h, s)' <=> Known(h, s)
      /\ \A h \in Gnbs : \A k : KnownId(h, k)' <=> KnownId(h, k)
  BY <1>2 DEF Known, KnownId
<1>7. (\A v \in UEs : UeOK(v)') /\ (\A k \in DOMAIN contexts' : ContextOK(k)')
  BY <1>2 DEF IInv, UeOK, ContextOK
<1>8. ConnsOK'
  <2>1. ASSUME NEW h \in Gnbs, NEW s \in RanIds PROVE UplinkOK(h, s)' /\ DownlinkOK(h, s)'
    <3>1. UplinkOK(h, s) /\ DownlinkOK(h, s)
      BY DEF IInv, ConnsOK
    <3>2. UplinkOK(h, s)'
      BY <1>2, <1>6, <3>1 DEF UplinkOK
    <3>3. DownlinkOK(h, s)'
      BY <1>2, <1>5, <1>6, <3>1 DEF DownlinkOK
    <3> QED BY <3>2, <3>3
  <2> QED BY <2>1 DEF ConnsOK
<1>9. MessagesOK'
  BY <1>2, <1>4 DEF MessagesOK
<1>10. \A h \in Gnbs, s \in RanIds : OneMessage(h, s)'
  BY <1>2, <1>3 DEF IInv, PlacesOK, OneMessage
<1>11. \A h \in Gnbs, s \in RanIds, y \in Places : IsAt(h, s, y)' => IsAt(h, s, y)
  BY <1>2, <1>3 DEF IsAt
<1>12. (\A h \in Gnbs, s \in RanIds : OnePlace(h, s)') /\ Spent \subseteq Spent'
  BY <1>6, <1>11, PlacesKept DEF IInv
<1>13. Len(smf') <= Cardinality(Spent')
  BY <1>2, <1>12, StillCounted
<1>14. \A h \in Gnbs : TunnelsOK(h)'
  <2>1. TunnelsOK(g)'
    <3>1. TunnelsOK(g) /\ tunnels[g] \subseteq Sessions
      BY DEF IInv, SessionsOK, TypeOK
    <3>2. nextDl'[g] <= Len(smf') + 1
      BY <1>1, <1>2, <1>4, <3>1 DEF TunnelsOK, Sessions
    <3>3. \A x \in tunnels'[g] : x < nextDl'[g]
      BY <1>2, <1>4, <3>1 DEF TunnelsOK, Sessions
    <3>4. ASSUME NEW x \in Sessions, x < nextDl'[g] PROVE x \in tunnels'[g] \cup broken'[g]
      <4>1. x < l \/ (x = l /\ nextDl'[g] = l + 1)
        BY <1>1, <1>4, <3>4 DEF Sessions
      <4>2. x < l => x \in tunnels[g] \cup broken[g]
        BY <1>1, <1>2, <3>1 DEF TunnelsOK
      <4> QED BY <1>2, <1>5, <4>1, <4>2
    <3> QED BY <1>2, <3>2, <3>3, <3>4 DEF TunnelsOK
  <2>2. ASSUME NEW h \in Gnbs, h # g PROVE TunnelsOK(h)'
    BY <1>2, <1>4, <1>5, <2>2 DEF IInv, SessionsOK, TunnelsOK
  <2> QED BY <2>1, <2>2
<1>15. TypeOK'
  BY <1>2, <1>3, <1>4, <1>5 DEF IInv, TypeOK
<1>16. RegisteredAsSelf' /\ ContextsApart' /\ PeersApart'
  BY <1>2 DEF IInv, RegisteredAsSelf, ContextsApart, PeersApart
<1>17. TunnelBeforeAccept'
  BY <1>2, <1>5, N2Assumption DEF IInv, TunnelBeforeAccept
<1> QED BY <1>3, <1>7, <1>8, <1>9, <1>10, <1>12, <1>13, <1>14, <1>15, <1>16, <1>17
        DEF IInv, PlacesOK, SessionsOK

----------------------------------------------------------------------------
(* The AMF: it takes one message and sends the messages of E, at most one. *)

Sends(E, out) ==
  \/ E = {} /\ out = <<>>
  \/ \E e \in DownlinkNgap : E = {e} /\ out = <<e>>

LEMMA AmfTurnFacts ==
  ASSUME IInv, NEW g \in Gnbs, toAmf[g] # <<>>, NEW E, NEW out, Sends(E, out), AmfTurn(g, out)
  PROVE  /\ E \subseteq DownlinkNgap
         /\ Head(toAmf[g]) \in UplinkNgap /\ Head(toAmf[g]) \in Range(toAmf[g])
         /\ AmfMessageOK(g, Head(toAmf[g]))
         /\ toAmf' \in [Gnbs -> Seq(UplinkNgap)] /\ toGnb' \in [Gnbs -> Seq(DownlinkNgap)]
         /\ \A h \in Gnbs : Range(toGnb[h]) \subseteq DownlinkNgap /\ Range(toAmf[h]) \subseteq UplinkNgap
         /\ \A h \in Gnbs : Range(toAmf'[h]) \subseteq Range(toAmf[h])
         /\ \A h \in Gnbs : \A M : Has(toAmf'[h], M) => Has(toAmf[h], M)
         /\ \A h \in Gnbs : \A M : AtMostOne(toAmf[h], M) => AtMostOne(toAmf'[h], M)
         /\ \A M : AtMostOne(toAmf[g], M) /\ Head(toAmf[g]) \in M => ~Has(toAmf'[g], M)
         /\ Range(toGnb'[g]) = Range(toGnb[g]) \cup E
         /\ \A M : Has(toGnb'[g], M) <=> Has(toGnb[g], M) \/ E \cap M # {}
         /\ \A M : AtMostOne(toGnb[g], M) /\ ~(Has(toGnb[g], M) /\ E \cap M # {})
                     => AtMostOne(toGnb'[g], M)
         /\ \A h \in Gnbs : h # g => toGnb'[h] = toGnb[h]
         /\ (\A e \in E, m \in Range(toGnb[g]) :
               e.type = "setupRequest" /\ m.type = "setupRequest" => m.ul < e.ul)
              => \A h \in Gnbs : SetupsInOrder(h)'
<1>1. PICK p, q : p = toAmf[g] /\ q = toGnb[g]
  OBVIOUS
<1>2. p \in Seq(UplinkNgap) /\ p # <<>> /\ q \in Seq(DownlinkNgap) /\ Ordered(q)
  BY <1>1 DEF IInv, TypeOK, SessionsOK, SetupsInOrder
<1>3. /\ Tail(p) \in Seq(UplinkNgap)
      /\ Head(p) \in UplinkNgap /\ Head(p) \in Range(p)
      /\ Range(Tail(p)) \subseteq Range(p)
      /\ \A M : Has(Tail(p), M) => Has(p, M)
      /\ \A M : AtMostOne(p, M) =>
           AtMostOne(Tail(p), M) /\ (Head(p) \in M => ~Has(Tail(p), M))
  BY <1>2, TailFacts
<1>4. /\ E \subseteq DownlinkNgap
      /\ q \o out \in Seq(DownlinkNgap)
      /\ Range(q \o out) = Range(q) \cup E
      /\ \A M : Has(q \o out, M) <=> Has(q, M) \/ E \cap M # {}
      /\ \A M : AtMostOne(q, M) /\ ~(Has(q, M) /\ E \cap M # {}) => AtMostOne(q \o out, M)
      /\ (\A e \in E, m \in Range(q) :
            e.type = "setupRequest" /\ m.type = "setupRequest" => m.ul < e.ul) => Ordered(q \o out)
  <2>1. CASE E = {} /\ out = <<>>
    <3>1. q \o out = q
      BY <1>2, <2>1, ConcatEmptySeq
    <3> QED BY <1>2, <2>1, <3>1
  <2>2. ASSUME NEW e \in DownlinkNgap, E = {e}, out = <<e>>
        PROVE  /\ q \o out \in Seq(DownlinkNgap)
               /\ Range(q \o out) = Range(q) \cup E
               /\ \A M : Has(q \o out, M) <=> Has(q, M) \/ E \cap M # {}
               /\ \A M : AtMostOne(q, M) /\ ~(Has(q, M) /\ E \cap M # {}) => AtMostOne(q \o out, M)
               /\ (\A x \in E, m \in Range(q) :
                     x.type = "setupRequest" /\ m.type = "setupRequest" => m.ul < x.ul) => Ordered(q \o out)
    <3>1. q \o out = Append(q, e)
      BY <1>2, <2>2, OutFacts
    <3>2. /\ Append(q, e) \in Seq(DownlinkNgap)
          /\ Range(Append(q, e)) = Range(q) \cup {e}
          /\ \A M : Has(Append(q, e), M) <=> Has(q, M) \/ e \in M
          /\ \A M : AtMostOne(q, M) /\ ~(Has(q, M) /\ e \in M) => AtMostOne(Append(q, e), M)
      BY <1>2, <2>2, AppendFacts
    <3>3. \A M : E \cap M # {} <=> e \in M
      BY <2>2
    <3>4. (\A x \in E, m \in Range(q) :
            x.type = "setupRequest" /\ m.type = "setupRequest" => m.ul < x.ul) => Ordered(Append(q, e))
      BY <1>2, <2>2, AppendOrdered
    <3>5. PICK o : o = Append(q, e)
      OBVIOUS
    <3>6. /\ o \in Seq(DownlinkNgap) /\ Range(o) = Range(q) \cup E
          /\ \A M : Has(o, M) <=> Has(q, M) \/ E \cap M # {}
          /\ \A M : AtMostOne(q, M) /\ ~(Has(q, M) /\ E \cap M # {}) => AtMostOne(o, M)
      BY ONLY <2>2, <3>2, <3>3, <3>5
    <3> QED BY ONLY <3>1, <3>4, <3>5, <3>6
  <2>3. E \subseteq DownlinkNgap
    BY DEF Sends
  <2> QED BY <2>1, <2>2, <2>3 DEF Sends
<1>5. /\ toAmf' \in [Gnbs -> Seq(UplinkNgap)] /\ toAmf'[g] = Tail(p)
      /\ \A h \in Gnbs : h # g => toAmf'[h] = toAmf[h]
  BY <1>1, <1>3, AmfQueueSet DEF IInv, AmfTurn
<1>6. /\ toGnb' \in [Gnbs -> Seq(DownlinkNgap)] /\ toGnb'[g] = q \o out
      /\ \A h \in Gnbs : h # g => toGnb'[h] = toGnb[h]
  BY <1>1, <1>4, GnbQueueSet DEF IInv, AmfTurn
<1>7. \A h \in Gnbs : Range(toGnb[h]) \subseteq DownlinkNgap /\ Range(toAmf[h]) \subseteq UplinkNgap
  BY RangeOfSeq DEF IInv, TypeOK
<1>8. /\ \A h \in Gnbs : Range(toAmf'[h]) \subseteq Range(toAmf[h])
      /\ \A h \in Gnbs : \A M : Has(toAmf'[h], M) => Has(toAmf[h], M)
      /\ \A h \in Gnbs : \A M : AtMostOne(toAmf[h], M) => AtMostOne(toAmf'[h], M)
  BY <1>1, <1>3, <1>5
<1>9. (\A e \in E, m \in Range(toGnb[g]) :
         e.type = "setupRequest" /\ m.type = "setupRequest" => m.ul < e.ul)
        => \A h \in Gnbs : SetupsInOrder(h)'
  BY <1>1, <1>4, <1>6 DEF IInv, SessionsOK, SetupsInOrder
<1>10. AmfMessageOK(g, Head(toAmf[g]))
  BY <1>1, <1>3 DEF IInv, MessagesOK
<1> QED BY <1>1, <1>3, <1>4, <1>5, <1>6, <1>7, <1>8, <1>9, <1>10

\* The connections' places after a turn of the AMF.
LEMMA AmfPlaces ==
  ASSUME IInv, NEW g \in Gnbs, toAmf[g] # <<>>, NEW E, NEW out, Sends(E, out), AmfTurn(g, out),
         \A s \in RanIds : E \cap Answers(s) # {} => ~Has(toGnb[g], Answers(s))
  PROVE  /\ \A h \in Gnbs, s \in RanIds : OneMessage(h, s)'
         /\ \A h \in Gnbs, s \in RanIds, y \in Places :
              IsAt(h, s, y)' =>
                IsAt(h, s, y) \/ (h = g /\ y = "answered" /\ E \cap Answers(s) # {})
<1>1. UNCHANGED <<nextRan, conns>>
  BY DEF AmfTurn, gnbVars
<1>2. /\ \A h \in Gnbs : \A M : Has(toAmf'[h], M) => Has(toAmf[h], M)
      /\ \A h \in Gnbs : \A M : AtMostOne(toAmf[h], M) => AtMostOne(toAmf'[h], M)
      /\ \A M : Has(toGnb'[g], M) <=> Has(toGnb[g], M) \/ E \cap M # {}
      /\ \A M : AtMostOne(toGnb[g], M) /\ ~(Has(toGnb[g], M) /\ E \cap M # {})
                  => AtMostOne(toGnb'[g], M)
      /\ \A h \in Gnbs : h # g => toGnb'[h] = toGnb[h]
  BY AmfTurnFacts
<1>3. ASSUME NEW h \in Gnbs, NEW s \in RanIds PROVE OneMessage(h, s)'
  <2>1. OneMessage(h, s)
    BY DEF IInv, PlacesOK
  <2>2. AtMostOne(toGnb'[h], Answers(s))
    <3>1. CASE h = g
      BY <1>2, <2>1, <3>1 DEF OneMessage
    <3>2. CASE h # g
      BY <1>2, <2>1, <3>2 DEF OneMessage
    <3> QED BY <3>1, <3>2
  <2> QED BY <1>1, <1>2, <2>1, <2>2 DEF OneMessage
<1>4. ASSUME NEW h \in Gnbs, NEW s \in RanIds, NEW y \in Places, IsAt(h, s, y)'
      PROVE  IsAt(h, s, y) \/ (h = g /\ y = "answered" /\ E \cap Answers(s) # {})
  BY <1>1, <1>2, <1>4 DEF IsAt
<1> QED BY <1>3, <1>4

\* The rest of the invariant after a turn of the AMF.
LEMMA AmfTurnKeeps ==
  ASSUME IInv, NEW g \in Gnbs, toAmf[g] # <<>>, NEW E, NEW out, Sends(E, out), AmfTurn(g, out),
         contexts' \in Seq(Context), Len(contexts') <= MaxIds,
         smf' \in Seq(UEs), Len(smf') <= MaxIds, Len(smf) <= Len(smf'),
         \A k \in DOMAIN contexts :
           /\ k \in DOMAIN contexts' /\ contexts'[k].gnb = contexts[k].gnb
           /\ contexts'[k].ran = contexts[k].ran /\ contexts'[k].supi = contexts[k].supi,
         \A k \in DOMAIN contexts' : k \notin DOMAIN contexts => ContextOK(k)',
         \A r \in RanIds : Known(g, r)' => Known(g, r) \/ ~Has(toGnb[g], Answers(r)),
         \A h \in Gnbs, r \in RanIds : h # g => (Known(h, r)' => Known(h, r)),
         ContextsApart',
         \A e \in E : GnbMessageOK(g, e)',
         \A e \in E, m \in Range(toGnb[g]) :
           e.type = "setupRequest" /\ m.type = "setupRequest" => m.ul < e.ul,
         \A h \in Gnbs, s \in RanIds : OnePlace(h, s)' /\ OneMessage(h, s)',
         Len(smf') <= Cardinality(Spent')
  PROVE  IInv'
<1> USE Bounds
<1>1. UNCHANGED <<ue, nextRan, conns, loop, nextDl, tunnels, ueSessions, broken, silent, peer>>
  BY DEF AmfTurn, ueVars, gnbVars
<1>2. /\ toAmf' \in [Gnbs -> Seq(UplinkNgap)] /\ toGnb' \in [Gnbs -> Seq(DownlinkNgap)]
      /\ \A h \in Gnbs : Range(toGnb[h]) \subseteq DownlinkNgap /\ Range(toAmf[h]) \subseteq UplinkNgap
      /\ \A h \in Gnbs : Range(toAmf'[h]) \subseteq Range(toAmf[h])
      /\ Range(toGnb'[g]) = Range(toGnb[g]) \cup E
      /\ \A h \in Gnbs : h # g => toGnb'[h] = toGnb[h]
      /\ \A h \in Gnbs : SetupsInOrder(h)'
  BY ZenonT(60), AmfTurnFacts
<1>3. TypeOK'
  BY <1>1, <1>2 DEF IInv, TypeOK
<1>4. /\ \A h \in Gnbs : \A r : Known(h, r) => Known(h, r)'
      /\ \A h \in Gnbs : \A k : KnownId(h, k) => KnownId(h, k)' /\ contexts'[k].ran = contexts[k].ran
                                              /\ contexts'[k].supi = contexts[k].supi
  BY DEF Known, KnownId
<1>5. \A v \in UEs : UeOK(v)'
  BY <1>1 DEF IInv, UeOK
<1>6. \A k \in DOMAIN contexts' : ContextOK(k)'
  BY <1>1 DEF IInv, ContextOK
<1>7. ASSUME NEW h \in Gnbs, NEW r \in RanIds PROVE UplinkOK(h, r)' /\ DownlinkOK(h, r)'
  <2>1. UplinkOK(h, r) /\ DownlinkOK(h, r)
    BY DEF IInv, ConnsOK
  <2>2. UplinkOK(h, r)'
    BY <1>1, <1>4, <2>1 DEF UplinkOK
  <2>3. DownlinkOK(h, r)'
    BY <1>1, <1>4, <2>1 DEF DownlinkOK
  <2> QED BY <2>2, <2>3
<1>8. ASSUME NEW h \in Gnbs, NEW m \in Range(toAmf'[h]) PROVE AmfMessageOK(h, m)'
  <2>1. AmfMessageOK(h, m)
    BY <1>2, <1>8 DEF IInv, MessagesOK
  <2> QED BY <1>1, <1>4, <2>1 DEF AmfMessageOK
<1>9. ASSUME NEW h \in Gnbs, NEW m \in Range(toGnb[h]) PROVE GnbMessageOK(h, m)'
  <2>1. GnbMessageOK(h, m) /\ m \in DownlinkNgap
    BY <1>2, <1>9 DEF IInv, MessagesOK
  <2>2. CASE m.type = "setupRequest"
    <3>1. m.ul \in Sessions /\ Len(smf) \in Nat /\ Len(smf') \in Nat
      BY <2>1, <2>2, DownlinkFields, LenProperties DEF IInv, TypeOK
    <3> QED BY <1>1, <1>4, <2>1, <2>2, <3>1 DEF GnbMessageOK, Sessions
  <2>3. CASE m.type = "downlinkNAS" /\ m.pdu.nas = "regReject"
    <3>1. m.ran \in RanIds /\ m \in Answers(m.ran)
      BY <2>1, <2>3, DownlinkFields DEF Answers
    <3>2. Has(toGnb[h], Answers(m.ran))
      BY <1>9, <3>1 DEF Has
    <3>3. ~Known(h, m.ran)'
      BY <2>1, <2>3, <3>1, <3>2 DEF GnbMessageOK
    <3> QED BY <1>1, <2>1, <2>3, <3>3 DEF GnbMessageOK
  <2>4. CASE m.type = "downlinkNAS" /\ m.pdu.nas # "regReject"
    BY <1>1, <1>4, <2>1, <2>4 DEF GnbMessageOK
  <2> QED BY <2>1, <2>2, <2>3, <2>4, DownlinkFields
<1>10. \A h \in Gnbs : \A m \in Range(toGnb'[h]) : GnbMessageOK(h, m)'
  BY <1>2, <1>9
<1>11. \A h \in Gnbs : TunnelsOK(h)'
  <2>1. Len(smf) \in Nat /\ Len(smf') \in Nat
    BY LenProperties DEF IInv, TypeOK
  <2>2. ASSUME NEW h \in Gnbs PROVE TunnelsOK(h)'
    <3>1. TunnelsOK(h)
      BY DEF IInv, SessionsOK
    <3>2. nextDl \in [Gnbs -> 1..(MaxIds + 1)]
      BY DEF IInv, TypeOK
    <3>3. nextDl[h] \in 1..(MaxIds + 1)
      BY ONLY <3>2, h \in Gnbs
    <3>4. nextDl[h] \in Nat
      BY ONLY <3>3, Bounds
    <3>5. nextDl[h] <= Len(smf') + 1
      BY ONLY <2>1, <3>1, <3>4, Len(smf) <= Len(smf') DEF TunnelsOK
    <3> QED BY ONLY <1>1, <3>1, <3>5 DEF TunnelsOK
  <2> QED BY <2>2
<1>12. RegisteredAsSelf'
  BY <1>1 DEF IInv, RegisteredAsSelf
<1>13. TunnelBeforeAccept' /\ PeersApart'
  BY <1>1 DEF IInv, TunnelBeforeAccept, PeersApart
<1> QED BY <1>2, <1>3, <1>5, <1>6, <1>7, <1>8, <1>10, <1>11, <1>12, <1>13
        DEF IInv, ConnsOK, MessagesOK, PlacesOK, SessionsOK

LEMMA AcceptKeeps ==
  ASSUME IInv, NEW g \in Gnbs, AmfAccept(g)
  PROVE  IInv' /\ Spent \subseteq Spent'
<1> USE Bounds
<1>1. PICK m, k, r, c, e :
        /\ m = Head(toAmf[g]) /\ k = Len(contexts) + 1 /\ r = m.ran
        /\ c = [supi |-> m.pdu.supi, gnb |-> g, ran |-> m.ran,
                state |-> "registering", session |-> 0, pending |-> 0]
        /\ e = DownlinkNAS(k, m.ran, [nas |-> "regAccept", guti |-> k])
  OBVIOUS
<1>2. /\ toAmf[g] # <<>> /\ m.type = "initialUE" /\ m.pdu.nas = "regRequest"
      /\ contexts' = Append(contexts, c) /\ AmfTurn(g, <<e>>) /\ smf' = smf
  BY <1>1 DEF AmfAccept, AmfMessage
<1>3. m \in UplinkNgap /\ m \in Range(toAmf[g]) /\ AmfMessageOK(g, m)
  <2>1. Sends({}, <<>>)
    BY DEF Sends
  <2>2. toAmf[g] \in Seq(UplinkNgap)
    BY DEF IInv, TypeOK
  <2> QED BY <1>1, <1>2, <2>2, TailFacts DEF IInv, MessagesOK
<1>4. r \in RanIds /\ m.pdu \in UplinkNas /\ m.pdu.supi \in UEs
  BY <1>1, <1>2, <1>3, UplinkFields, UplinkNasFields
<1>5. /\ r <= nextRan[g] /\ Home[m.pdu.supi] = g
      /\ conns[g][r] # None => conns[g][r].ue = m.pdu.supi
  BY <1>1, <1>2, <1>3 DEF AmfMessageOK
<1>6. m \in Initials(r) /\ IsAt(g, r, "initial")
  BY <1>1, <1>2, <1>3 DEF Initials, IsAt, Has
<1>7. ~Known(g, r) /\ ~Has(toGnb[g], Answers(r))
  <2>1. OnePlace(g, r)
    BY <1>4 DEF IInv, PlacesOK
  <2>2. ~Known(g, r) /\ ~IsAt(g, r, "answered")
    BY <1>6, <2>1 DEF OnePlace, Places
  <2> QED BY <2>2 DEF IsAt
<1>8. Len(contexts) \in Nat /\ k \in Sessions /\ DOMAIN contexts = 1..Len(contexts)
  <2>1. Len(contexts) < MaxIds
    BY <1>4, <1>7, RoomForContext DEF IInv
  <2> QED BY <1>1, <2>1, LenProperties DEF IInv, TypeOK, Sessions
<1>9. c \in Context /\ c.supi = m.pdu.supi /\ c.gnb = g /\ c.ran = r
  BY <1>1, <1>4 DEF Context
<1>10. /\ contexts' \in Seq(Context) /\ Len(contexts') = k /\ DOMAIN contexts' = 1..k
       /\ contexts'[k] = c
       /\ \A j \in DOMAIN contexts : j \in DOMAIN contexts' /\ contexts'[j] = contexts[j]
  <2>1. contexts \in Seq(Context)
    BY DEF IInv, TypeOK
  <2>2. /\ Append(contexts, c) \in Seq(Context) /\ Len(Append(contexts, c)) = k
        /\ \A j \in 1..Len(contexts) : Append(contexts, c)[j] = contexts[j]
        /\ Append(contexts, c)[k] = c
    BY <1>1, <1>9, <2>1, AppendProperties
  <2>3. DOMAIN contexts' = 1..k
    BY <1>2, <2>2, LenProperties
  <2> QED BY <1>1, <1>2, <1>8, <2>2, <2>3
<1>11. DOMAIN contexts' = DOMAIN contexts \cup {k} /\ k \notin DOMAIN contexts
  BY <1>1, <1>8, <1>10
<1>12. \A h \in Gnbs, s \in RanIds : Known(h, s)' => Known(h, s) \/ (h = g /\ s = r)
  BY <1>9, <1>10, <1>11 DEF Known
<1>13. ContextOK(k)'
  BY <1>2, <1>5, <1>9, <1>10 DEF ContextOK, AmfTurn, gnbVars
<1>14. ContextsApart'
  BY ZenonT(60), <1>7, <1>9, <1>10, <1>11 DEF IInv, ContextsApart, Known
<1>15. /\ e \in DownlinkNgap /\ e.type = "downlinkNAS" /\ e.amf = k /\ e.ran = r
       /\ e.pdu = [nas |-> "regAccept", guti |-> k]
  <2>1. k \in 0..MaxIds
    BY <1>8 DEF Sessions
  <2> QED BY <1>1, <1>4, <1>8, <2>1, MessagesMade DEF DownlinkNAS
<1>16. GnbMessageOK(g, e)'
  <2>1. /\ e.type = "downlinkNAS" /\ e.pdu.nas = "regAccept"
        /\ e.pdu.guti = k /\ e.amf = k /\ e.ran = r
    BY ONLY <1>15
  <2>2. k \in DOMAIN contexts' /\ contexts'[k].gnb = g /\ contexts'[k].ran = r
    BY ONLY <1>9, <1>10, <1>11
  <2> QED BY ONLY <2>1, <2>2 DEF GnbMessageOK, KnownId
<1>17. Sends({e}, <<e>>)
  BY <1>15 DEF Sends
<1>18. \A s : e \in Answers(s) <=> s = r
  BY <1>15 DEF Answers
<1>19. /\ \A h \in Gnbs, s \in RanIds : OneMessage(h, s)'
       /\ \A h \in Gnbs, s \in RanIds, y \in Places :
            IsAt(h, s, y)' => IsAt(h, s, y) \/ (h = g /\ s = r /\ y = "answered")
  <2>1. \A s \in RanIds : {e} \cap Answers(s) # {} => s = r
    BY <1>18
  <2> QED BY <1>2, <1>7, <1>17, <2>1, AmfPlaces
<1>20. ~IsAt(g, r, "initial")'
  <2>1. AtMostOne(toAmf[g], Initials(r))
    BY <1>4 DEF IInv, PlacesOK, OneMessage
  <2>2. ~Has(toAmf'[g], Initials(r))
    BY <1>1, <1>2, <1>6, <1>17, <2>1, AmfTurnFacts
  <2> QED BY <2>2 DEF IsAt
<1>21. (\A h \in Gnbs, s \in RanIds : OnePlace(h, s)') /\ Spent \subseteq Spent'
  <2>1. "initial" \in Places /\ "answered" \in Places
    BY DEF Places
  <2> QED BY <1>4, <1>6, <1>12, <1>19, <1>20, <2>1, PlacesMoved DEF IInv
<1>22. smf' \in Seq(UEs) /\ Len(smf') <= MaxIds /\ Len(smf) <= Len(smf')
  BY <1>2, LenProperties DEF IInv, TypeOK
<1>23. Len(smf') <= Cardinality(Spent')
  BY <1>2, <1>21, StillCounted
<1>24. Len(contexts') <= MaxIds
  BY <1>8, <1>10 DEF Sessions
<1>25. \A x \in {e}, q \in Range(toGnb[g]) :
         x.type = "setupRequest" /\ q.type = "setupRequest" => q.ul < x.ul
  BY <1>15
<1>26. IInv'
  <2>1. /\ toAmf[g] # <<>> /\ Sends({e}, <<e>>) /\ AmfTurn(g, <<e>>)
        /\ contexts' \in Seq(Context) /\ Len(contexts') <= MaxIds
    BY ONLY <1>2, <1>10, <1>17, <1>24
  <2>2. \A j \in DOMAIN contexts :
          /\ j \in DOMAIN contexts' /\ contexts'[j].gnb = contexts[j].gnb
          /\ contexts'[j].ran = contexts[j].ran /\ contexts'[j].supi = contexts[j].supi
    BY ONLY <1>10
  <2>3. \A j \in DOMAIN contexts' : j \notin DOMAIN contexts => ContextOK(j)'
    BY ONLY <1>11, <1>13
  <2>4. \A s \in RanIds : Known(g, s)' => Known(g, s) \/ ~Has(toGnb[g], Answers(s))
    BY ONLY <1>7, <1>12, g \in Gnbs
  <2>5. \A h \in Gnbs, s \in RanIds : h # g => (Known(h, s)' => Known(h, s))
    BY ONLY <1>12
  <2>6. \A x \in {e} : GnbMessageOK(g, x)'
    BY ONLY <1>16
  <2>7. \A h \in Gnbs, s \in RanIds : OnePlace(h, s)' /\ OneMessage(h, s)'
    BY ONLY <1>19, <1>21
  <2> QED BY ONLY IInv, g \in Gnbs, <1>14, <1>22, <1>23, <1>25, <2>1, <2>2, <2>3, <2>4, <2>5,
                  <2>6, <2>7, AmfTurnKeeps
<1> QED BY <1>21, <1>26

\* The AMF reads the session request of connection r.
LEMMA RequestSpent ==
  ASSUME IInv, NEW g \in Gnbs, toAmf[g] # <<>>, NEW E, NEW out, Sends(E, out), AmfTurn(g, out),
         \A s : E \cap Answers(s) = {}, NEW r \in RanIds, Head(toAmf[g]) \in Requests(r)
  PROVE  <<g, r>> \in Spent' /\ <<g, r>> \notin Spent
<1>1. Head(toAmf[g]) \in Range(toAmf[g])
  BY AmfTurnFacts
<1>2. IsAt(g, r, "requested") /\ "requested" \in Places
  BY <1>1 DEF IsAt, Has, Places
<1>3. ~IsAt(g, r, "requested")'
  <2>1. AtMostOne(toAmf[g], Requests(r))
    BY DEF IInv, PlacesOK, OneMessage
  <2>2. ~Has(toAmf'[g], Requests(r))
    BY <2>1, AmfTurnFacts
  <2> QED BY <2>2 DEF IsAt
<1>4. \A y \in Places : IsAt(g, r, y)' => IsAt(g, r, y)
  BY AmfPlaces
<1>5. \A y \in Places : ~IsAt(g, r, y)'
  BY <1>2, <1>3, <1>4 DEF IInv, PlacesOK, OnePlace
<1>6. PICK p : p = <<g, r>>
  OBVIOUS
<1>7. p \in Gnbs \X RanIds /\ p[1] = g /\ p[2] = r
  BY <1>6
<1> QED BY <1>2, <1>5, <1>6, <1>7 DEF Spent

\* A turn of the AMF that answers no registration and adds no context.
LEMMA AmfOtherKeeps ==
  ASSUME IInv, NEW g \in Gnbs, toAmf[g] # <<>>, NEW E, NEW out, Sends(E, out), AmfTurn(g, out),
         \A s : E \cap Answers(s) = {},
         contexts' \in Seq(Context), DOMAIN contexts' = DOMAIN contexts,
         \A k \in DOMAIN contexts :
           /\ contexts'[k].gnb = contexts[k].gnb
           /\ contexts'[k].ran = contexts[k].ran /\ contexts'[k].supi = contexts[k].supi,
         \/ smf' = smf
         \/ \E u \in UEs, r \in RanIds : smf' = Append(smf, u) /\ Head(toAmf[g]) \in Requests(r),
         \A e \in E : smf' \in Seq(UEs) /\ Len(smf') <= MaxIds => GnbMessageOK(g, e)',
         \A e \in E, m \in Range(toGnb[g]) :
           e.type = "setupRequest" /\ m.type = "setupRequest" => m.ul < e.ul
  PROVE  IInv' /\ Spent \subseteq Spent'
<1> USE Bounds
<1>1. \A h \in Gnbs, s \in RanIds : Known(h, s)' <=> Known(h, s)
  BY DEF Known
<1>2. /\ \A h \in Gnbs, s \in RanIds : OneMessage(h, s)'
      /\ \A h \in Gnbs, s \in RanIds, y \in Places : IsAt(h, s, y)' => IsAt(h, s, y)
  BY AmfPlaces
<1>3. (\A h \in Gnbs, s \in RanIds : OnePlace(h, s)') /\ Spent \subseteq Spent'
  BY <1>1, <1>2, PlacesKept DEF IInv
<1>4. smf \in Seq(UEs) /\ Len(smf) \in Nat /\ Len(smf) <= Cardinality(Spent)
  BY LenProperties DEF IInv, TypeOK
<1>5. /\ smf' \in Seq(UEs) /\ Len(smf) <= Len(smf') /\ Len(smf') <= Cardinality(Spent')
      /\ Len(smf') <= MaxIds
  <2>1. CASE smf' = smf
    BY <1>3, <1>4, <2>1, SpentCounts DEF IInv, TypeOK
  <2>2. ASSUME NEW u \in UEs, NEW r \in RanIds, smf' = Append(smf, u),
               Head(toAmf[g]) \in Requests(r)
        PROVE  <1>5
    <3>1. smf' \in Seq(UEs) /\ Len(smf') = Len(smf) + 1
      BY <1>4, <2>2, AppendProperties
    <3>2. <<g, r>> \in Spent' /\ <<g, r>> \notin Spent
      BY <2>2, RequestSpent
    <3>3. /\ Cardinality(Spent) \in Nat /\ Cardinality(Spent') \in Nat
          /\ Cardinality(Spent') <= MaxIds /\ Cardinality(Spent) + 1 <= Cardinality(Spent')
      BY <1>3, <3>2, SpentCounts
    <3> QED BY <1>4, <3>1, <3>3
  <2> QED BY <2>1, <2>2
<1>6. Len(contexts') <= MaxIds
  <2>1. Len(contexts') = Len(contexts)
    BY LenProperties DEF IInv, TypeOK
  <2> QED BY <2>1 DEF IInv, TypeOK
<1>7. ContextsApart'
  BY DEF IInv, ContextsApart
<1> QED BY <1>1, <1>2, <1>3, <1>5, <1>6, <1>7, AmfTurnKeeps

LEMMA AmfRejectKeeps ==
  ASSUME IInv, NEW g \in Gnbs, AmfReject(g)
  PROVE  IInv' /\ Spent \subseteq Spent'
<1> USE Bounds
<1>1. PICK m, r, e :
        /\ m = Head(toAmf[g]) /\ r = m.ran
        /\ e = DownlinkNAS(0, m.ran, [nas |-> "regReject"])
  OBVIOUS
<1>2. /\ toAmf[g] # <<>> /\ m.type = "initialUE" /\ m.pdu.nas = "regRequest"
      /\ AmfTurn(g, <<e>>) /\ contexts' = contexts /\ smf' = smf
  BY <1>1 DEF AmfReject, AmfMessage, amfVars
<1>3. m \in UplinkNgap /\ m \in Range(toAmf[g]) /\ AmfMessageOK(g, m)
  <2>1. toAmf[g] \in Seq(UplinkNgap)
    BY DEF IInv, TypeOK
  <2> QED BY <1>1, <1>2, <2>1, TailFacts DEF IInv, MessagesOK
<1>4. r \in RanIds /\ r <= nextRan[g]
  BY <1>1, <1>2, <1>3, UplinkFields DEF AmfMessageOK
<1>5. m \in Initials(r) /\ IsAt(g, r, "initial")
  BY <1>1, <1>2, <1>3 DEF Initials, IsAt, Has
<1>6. ~Known(g, r) /\ ~Has(toGnb[g], Answers(r))
  <2>1. OnePlace(g, r)
    BY <1>4 DEF IInv, PlacesOK
  <2>2. ~Known(g, r) /\ ~IsAt(g, r, "answered")
    BY <1>5, <2>1 DEF OnePlace, Places
  <2> QED BY <2>2 DEF IsAt
<1>7. /\ e \in DownlinkNgap /\ e.type = "downlinkNAS" /\ e.amf = 0 /\ e.ran = r
      /\ e.pdu = [nas |-> "regReject"]
  <2>1. [nas |-> "regReject"] \in DownlinkNas
    BY DEF DownlinkNas
  <2>2. 0 \in 0..MaxIds
    OBVIOUS
  <2> QED BY <1>1, <1>4, <2>1, <2>2 DEF DownlinkNAS, DownlinkNgap
<1>8. \A h \in Gnbs : \A s : Known(h, s)' <=> Known(h, s)
  BY <1>2 DEF Known
<1>9. GnbMessageOK(g, e)'
  <2>1. nextRan' = nextRan
    BY <1>2 DEF AmfTurn, gnbVars
  <2> QED BY <1>4, <1>6, <1>7, <1>8, <2>1 DEF GnbMessageOK
<1>10. Sends({e}, <<e>>)
  BY <1>7 DEF Sends
<1>11. \A s : e \in Answers(s) <=> s = r
  BY <1>7 DEF Answers
<1>12. /\ \A h \in Gnbs, s \in RanIds : OneMessage(h, s)'
       /\ \A h \in Gnbs, s \in RanIds, y \in Places :
            IsAt(h, s, y)' => IsAt(h, s, y) \/ (h = g /\ s = r /\ y = "answered")
  <2>1. \A s \in RanIds : {e} \cap Answers(s) # {} => s = r
    BY <1>11
  <2> QED BY <1>2, <1>6, <1>10, <2>1, AmfPlaces
<1>13. ~IsAt(g, r, "initial")'
  <2>1. AtMostOne(toAmf[g], Initials(r))
    BY <1>4 DEF IInv, PlacesOK, OneMessage
  <2>2. ~Has(toAmf'[g], Initials(r))
    BY <1>1, <1>2, <1>5, <1>10, <2>1, AmfTurnFacts
  <2> QED BY <2>2 DEF IsAt
<1>14. (\A h \in Gnbs, s \in RanIds : OnePlace(h, s)') /\ Spent \subseteq Spent'
  <2>1. "initial" \in Places /\ "answered" \in Places
    BY DEF Places
  <2> QED BY <1>4, <1>5, <1>8, <1>12, <1>13, <2>1, PlacesMoved DEF IInv
<1>15. /\ smf' \in Seq(UEs) /\ Len(smf') <= MaxIds /\ Len(smf) <= Len(smf')
       /\ contexts' \in Seq(Context) /\ Len(contexts') <= MaxIds
  BY <1>2, LenProperties DEF IInv, TypeOK
<1>16. Len(smf') <= Cardinality(Spent')
  BY <1>2, <1>14, StillCounted
<1>17. ContextsApart'
  BY <1>2 DEF IInv, ContextsApart
<1>18. \A x \in {e}, q \in Range(toGnb[g]) :
         x.type = "setupRequest" /\ q.type = "setupRequest" => q.ul < x.ul
  BY <1>7
<1> QED BY <1>2, <1>8, <1>9, <1>10, <1>12, <1>14, <1>15, <1>16, <1>17, <1>18, AmfTurnKeeps

\* A session request or a Registration Complete finds a context of its gNB.
LEMMA UplinkFacts ==
  ASSUME IInv, NEW g \in Gnbs, NEW nas, AmfUplink(g, nas)
  PROVE  /\ toAmf[g] # <<>>
         /\ Head(toAmf[g]).amf \in DOMAIN contexts
         /\ \E r \in RanIds : nas = "pduRequest" => Head(toAmf[g]) \in Requests(r)
<1>1. PICK m : m = Head(toAmf[g])
  OBVIOUS
<1>2. toAmf[g] # <<>> /\ m.type = "uplinkNAS" /\ m.pdu.nas = nas /\ m.amf \in DOMAIN contexts
  BY <1>1 DEF AmfUplink, AmfMessage
<1>3. m \in UplinkNgap
  BY <1>1, <1>2, TailFacts DEF IInv, TypeOK
<1>4. m.ran \in RanIds
  BY <1>2, <1>3, UplinkFields
<1>5. nas = "pduRequest" => m \in Requests(m.ran)
  BY <1>2, <1>3 DEF Requests
<1> QED BY <1>1, <1>2, <1>4, <1>5

\* One context's state changes, not whose it is.
LEMMA ContextSet ==
  ASSUME IInv, NEW k \in DOMAIN contexts, NEW c \in Context,
         c.supi = contexts[k].supi, c.gnb = contexts[k].gnb, c.ran = contexts[k].ran,
         contexts' = [contexts EXCEPT ![k] = c]
  PROVE  /\ contexts' \in Seq(Context) /\ DOMAIN contexts' = DOMAIN contexts
         /\ \A j \in DOMAIN contexts :
              /\ contexts'[j].gnb = contexts[j].gnb
              /\ contexts'[j].ran = contexts[j].ran /\ contexts'[j].supi = contexts[j].supi
<1>1. k \in 1..Len(contexts) /\ contexts \in Seq(Context)
  BY ContextTyped DEF IInv, TypeOK
<1>2. contexts' \in Seq(Context)
  BY <1>1, ExceptSeq
<1> QED BY <1>2

LEMMA CompleteKeeps ==
  ASSUME IInv, NEW g \in Gnbs, AmfComplete(g)
  PROVE  IInv' /\ Spent \subseteq Spent'
<1>1. PICK k : k = Head(toAmf[g]).amf
  OBVIOUS
<1>2. /\ toAmf[g] # <<>> /\ k \in DOMAIN contexts
      /\ contexts' = [contexts EXCEPT ![k].state = "registered"]
      /\ AmfTurn(g, <<>>) /\ smf' = smf
  BY <1>1, UplinkFacts DEF AmfComplete
<1>3. PICK c : c = [contexts[k] EXCEPT !.state = "registered"]
  OBVIOUS
<1>4. /\ c \in Context
      /\ c.supi = contexts[k].supi /\ c.gnb = contexts[k].gnb /\ c.ran = contexts[k].ran
  BY <1>2, <1>3, ContextTyped DEF IInv, Context
<1>5. contexts' = [contexts EXCEPT ![k] = c]
  BY <1>2, <1>3
<1>6. Sends({}, <<>>)
  BY DEF Sends
<1>7. /\ contexts' \in Seq(Context) /\ DOMAIN contexts' = DOMAIN contexts
      /\ \A j \in DOMAIN contexts :
           /\ contexts'[j].gnb = contexts[j].gnb
           /\ contexts'[j].ran = contexts[j].ran /\ contexts'[j].supi = contexts[j].supi
  BY ONLY IInv, <1>2, <1>4, <1>5, ContextSet
<1>8. /\ \A s : {} \cap Answers(s) = {}
      /\ \A x \in {} : smf' \in Seq(UEs) /\ Len(smf') <= MaxIds => GnbMessageOK(g, x)'
      /\ \A x \in {}, m \in Range(toGnb[g]) :
           x.type = "setupRequest" /\ m.type = "setupRequest" => m.ul < x.ul
  OBVIOUS
<1> QED BY ONLY IInv, g \in Gnbs, <1>2, <1>6, <1>7, <1>8, AmfOtherKeeps

LEMMA PduRejectSent ==
  ASSUME IInv, NEW g \in Gnbs, NEW k \in Candidates(g), contexts' = contexts
  PROVE  /\ Sends({PduReject(k)}, <<PduReject(k)>>)
         /\ \A s : {PduReject(k)} \cap Answers(s) = {}
         /\ GnbMessageOK(g, PduReject(k))'
         /\ PduReject(k).type = "downlinkNAS"
<1>1. k \in DOMAIN contexts /\ KnownId(g, k)
  BY DEF Candidates, KnownId
<1>2. PICK e : e = PduReject(k)
  OBVIOUS
<1>3. [nas |-> "pduReject"] \in DownlinkNas
  BY DEF DownlinkNas
<1>4. k \in 0..MaxIds
  BY <1>1, ContextTyped DEF IInv, Sessions
<1>5. /\ e \in DownlinkNgap /\ e.type = "downlinkNAS" /\ e.amf = k
      /\ e.pdu = [nas |-> "pduReject"]
  BY <1>2, <1>3, <1>4, Bounds DEF PduReject, DownlinkNAS, DownlinkNgap
<1>6. GnbMessageOK(g, e)'
  BY <1>1, <1>5 DEF GnbMessageOK, KnownId
<1>7. \A s : e \notin Answers(s)
  BY <1>5 DEF Answers
<1> QED BY <1>2, <1>5, <1>6, <1>7 DEF Sends

LEMMA PduRefusedKeeps ==
  ASSUME IInv, NEW g \in Gnbs, AmfPduRefused(g)
  PROVE  IInv' /\ Spent \subseteq Spent'
<1>1. PICK k \in Candidates(g) : AmfTurn(g, <<PduReject(k)>>)
  BY DEF AmfPduRefused
<1>2. toAmf[g] # <<>> /\ contexts' = contexts /\ smf' = smf
  BY UplinkFacts DEF AmfPduRefused, amfVars
<1>3. /\ Sends({PduReject(k)}, <<PduReject(k)>>)
      /\ \A s : {PduReject(k)} \cap Answers(s) = {}
      /\ GnbMessageOK(g, PduReject(k))'
      /\ PduReject(k).type = "downlinkNAS"
  BY <1>2, PduRejectSent
<1>4. contexts \in Seq(Context)
  BY DEF IInv, TypeOK
<1> QED BY <1>1, <1>2, <1>3, <1>4, AmfOtherKeeps

LEMMA PduLostKeeps ==
  ASSUME IInv, NEW g \in Gnbs, AmfPduLost(g)
  PROVE  IInv' /\ Spent \subseteq Spent'
<1>1. PICK k \in Candidates(g) :
        smf' = Append(smf, contexts[k].supi) /\ AmfTurn(g, <<PduReject(k)>>)
  BY DEF AmfPduLost
<1>2. toAmf[g] # <<>> /\ contexts' = contexts
  BY UplinkFacts DEF AmfPduLost
<1>3. PICK r \in RanIds : Head(toAmf[g]) \in Requests(r)
  BY UplinkFacts DEF AmfPduLost
<1>4. contexts[k].supi \in UEs
  BY ContextTyped DEF IInv, Candidates, Context
<1>5. /\ Sends({PduReject(k)}, <<PduReject(k)>>)
      /\ \A s : {PduReject(k)} \cap Answers(s) = {}
      /\ GnbMessageOK(g, PduReject(k))'
      /\ PduReject(k).type = "downlinkNAS"
  BY <1>2, PduRejectSent
<1>6. contexts \in Seq(Context)
  BY DEF IInv, TypeOK
<1> QED BY <1>1, <1>2, <1>3, <1>4, <1>5, <1>6, AmfOtherKeeps

\* There is a session left for a request that the AMF has not read yet.
LEMMA SessionLeft ==
  ASSUME IInv, NEW g \in Gnbs, toAmf[g] # <<>>,
         NEW r \in RanIds, Head(toAmf[g]) \in Requests(r)
  PROVE  Len(smf) + 1 \in Sessions
<1> USE Bounds
<1>1. Head(toAmf[g]) \in Range(toAmf[g])
  BY TailFacts DEF IInv, TypeOK
<1>2. IsAt(g, r, "requested") /\ "requested" \in Places
  BY <1>1 DEF IsAt, Has, Places
<1>3. PICK p : p = <<g, r>>
  OBVIOUS
<1>4. p \in Gnbs \X RanIds /\ p \notin Spent /\ Spent \subseteq Gnbs \X RanIds
  BY <1>2, <1>3 DEF Spent
<1>5. IsFiniteSet(Spent) /\ Cardinality(Spent) \in Nat
  BY <1>4, PairsFinite, FS_Subset, FS_CardinalityType
<1>6. Cardinality(Spent \cup {p}) = Cardinality(Spent) + 1
  BY <1>4, <1>5, FS_AddElement
<1>7. Cardinality(Spent \cup {p}) <= MaxIds
  BY <1>4, PairsFinite, FS_Subset
<1>8. Len(smf) \in Nat /\ Len(smf) <= Cardinality(Spent)
  BY SmfCounted
<1> QED BY <1>5, <1>6, <1>7, <1>8 DEF Sessions

\* The AMF tells the UE of its session without asking the gNB for a tunnel.
LEMMA PduDirectKeeps ==
  ASSUME IInv, NEW g \in Gnbs, AmfPduDirect(g)
  PROVE  IInv' /\ Spent \subseteq Spent'
<1> USE Bounds
<1>1. PICK n : n = Len(smf) + 1
  OBVIOUS
<1>2. PICK pdu : pdu = [nas |-> "pduAccept", ip |-> n, dl |-> 0]
  OBVIOUS
<1>3. PICK k \in Candidates(g) :
        /\ smf' = Append(smf, contexts[k].supi)
        /\ contexts' = [contexts EXCEPT ![k].session = n, ![k].pending = 0]
        /\ AmfTurn(g, <<DownlinkNAS(k, SessionRanId, pdu)>>)
  BY <1>1, <1>2 DEF AmfPduDirect
<1>4. PICK e : e = DownlinkNAS(k, SessionRanId, pdu)
  OBVIOUS
<1>5. toAmf[g] # <<>>
  BY UplinkFacts DEF AmfPduDirect
<1>6. PICK r \in RanIds : Head(toAmf[g]) \in Requests(r)
  BY UplinkFacts DEF AmfPduDirect
<1>7. k \in DOMAIN contexts /\ KnownId(g, k) /\ contexts[k] \in Context /\ k \in Sessions
  BY ContextTyped DEF IInv, Candidates, KnownId
<1>8. contexts[k].supi \in UEs
  BY <1>7 DEF Context
<1>9. n \in Sessions
  BY <1>1, <1>5, <1>6, SessionLeft
<1>10. PICK c : c = [contexts[k] EXCEPT !.session = n, !.pending = 0]
  OBVIOUS
<1>11. /\ c \in Context
       /\ c.supi = contexts[k].supi /\ c.gnb = contexts[k].gnb /\ c.ran = contexts[k].ran
  <2>1. n \in 0..MaxIds /\ 0 \in 0..MaxIds
    BY <1>9 DEF Sessions
  <2>2. c \in Context
    BY <1>7, <1>10, <2>1 DEF Context
  <2>3. c.supi = contexts[k].supi /\ c.gnb = contexts[k].gnb /\ c.ran = contexts[k].ran
    BY <1>7, <1>10 DEF Context
  <2> QED BY <2>2, <2>3
<1>12. contexts' = [contexts EXCEPT ![k] = c]
  BY <1>3, <1>10
<1>13. /\ contexts' \in Seq(Context) /\ DOMAIN contexts' = DOMAIN contexts
       /\ \A j \in DOMAIN contexts :
            /\ contexts'[j].gnb = contexts[j].gnb
            /\ contexts'[j].ran = contexts[j].ran /\ contexts'[j].supi = contexts[j].supi
  BY <1>7, <1>11, <1>12, ContextSet
<1>14. e \in DownlinkNgap /\ e.type = "downlinkNAS" /\ e.amf = k /\ e.pdu = pdu
  <2>1. pdu \in DownlinkNas
    BY <1>2, <1>9 DEF DownlinkNas
  <2>2. k \in 0..MaxIds
    BY <1>7 DEF Sessions
  <2> QED BY <1>4, <2>1, <2>2 DEF DownlinkNAS, DownlinkNgap
<1>15. GnbMessageOK(g, e)'
  <2>1. nextDl' = nextDl
    BY <1>3 DEF AmfTurn, gnbVars
  <2>2. 0 < nextDl[g]
    BY DEF IInv, TypeOK
  <2> QED BY <1>2, <1>7, <1>13, <1>14, <2>1, <2>2 DEF GnbMessageOK, KnownId
<1>16. /\ Sends({e}, <<e>>) /\ \A s : {e} \cap Answers(s) = {}
       /\ e.type # "setupRequest"
  BY <1>2, <1>14 DEF Sends, Answers
<1>17. AmfTurn(g, <<e>>)
  BY <1>3, <1>4
<1>18. \E u \in UEs, s \in RanIds : smf' = Append(smf, u) /\ Head(toAmf[g]) \in Requests(s)
  BY <1>3, <1>6, <1>8
<1>19. /\ \A x \in {e} : smf' \in Seq(UEs) /\ Len(smf') <= MaxIds => GnbMessageOK(g, x)'
       /\ \A x \in {e}, m \in Range(toGnb[g]) :
            x.type = "setupRequest" /\ m.type = "setupRequest" => m.ul < x.ul
  BY <1>15, <1>16
<1> QED BY <1>5, <1>13, <1>16, <1>17, <1>18, <1>19, AmfOtherKeeps

LEMMA PduCreatedKeeps ==
  ASSUME IInv, NEW g \in Gnbs, AmfPduCreated(g)
  PROVE  IInv' /\ Spent \subseteq Spent'
<1> USE Bounds
<1>1. PICK n : n = Len(smf) + 1
  OBVIOUS
<1>2. PICK k \in Candidates(g) :
        /\ smf' = Append(smf, contexts[k].supi)
        /\ contexts' = [contexts EXCEPT ![k].session = n, ![k].pending = n]
        /\ AmfTurn(g, <<[type |-> "setupRequest", amf |-> k, ran |-> SessionRanId, ul |-> n]>>)
  BY <1>1 DEF AmfPduCreated
<1>3. PICK e : e = [type |-> "setupRequest", amf |-> k, ran |-> SessionRanId, ul |-> n]
  OBVIOUS
<1>4. toAmf[g] # <<>>
  BY UplinkFacts DEF AmfPduCreated
<1>5. PICK r \in RanIds : Head(toAmf[g]) \in Requests(r)
  BY UplinkFacts DEF AmfPduCreated
<1>6. k \in DOMAIN contexts /\ KnownId(g, k) /\ contexts[k] \in Context /\ k \in Sessions
  BY ContextTyped DEF IInv, Candidates, KnownId
<1>7. contexts[k].supi \in UEs
  BY <1>6 DEF Context
<1>8. smf \in Seq(UEs) /\ Len(smf) \in Nat /\ Len(smf') = n
  BY <1>1, <1>2, <1>7, LenProperties, AppendProperties DEF IInv, TypeOK
<1>9. n \in Sessions
  BY <1>1, <1>4, <1>5, SessionLeft
<1>10. PICK c : c = [contexts[k] EXCEPT !.session = n, !.pending = n]
  OBVIOUS
<1>11. /\ c \in Context
       /\ c.supi = contexts[k].supi /\ c.gnb = contexts[k].gnb /\ c.ran = contexts[k].ran
  <2>1. n \in 0..MaxIds
    BY <1>9 DEF Sessions
  <2> QED BY <1>6, <1>10, <2>1 DEF Context
<1>12. contexts' = [contexts EXCEPT ![k] = c]
  BY <1>2, <1>10
<1>13. /\ contexts' \in Seq(Context) /\ DOMAIN contexts' = DOMAIN contexts
       /\ \A j \in DOMAIN contexts :
            /\ contexts'[j].gnb = contexts[j].gnb
            /\ contexts'[j].ran = contexts[j].ran /\ contexts'[j].supi = contexts[j].supi
  BY <1>6, <1>11, <1>12, ContextSet
<1>14. e \in DownlinkNgap /\ e.type = "setupRequest" /\ e.amf = k /\ e.ul = n
  BY <1>3, <1>6, <1>9 DEF DownlinkNgap
<1>15. GnbMessageOK(g, e)'
  <2>1. nextDl' = nextDl
    BY <1>2 DEF AmfTurn, gnbVars
  <2>2. nextDl[g] <= n
    BY <1>1 DEF IInv, SessionsOK, TunnelsOK
  <2> QED BY <1>6, <1>8, <1>9, <1>13, <1>14, <2>1, <2>2 DEF GnbMessageOK, KnownId, Sessions
<1>16. Sends({e}, <<e>>) /\ \A s : {e} \cap Answers(s) = {}
  BY <1>14 DEF Sends, Answers
<1>17. ASSUME NEW m \in Range(toGnb[g]), m.type = "setupRequest" PROVE m.ul < e.ul
  <2>1. m \in DownlinkNgap /\ GnbMessageOK(g, m)
    BY <1>17, RangeOfSeq DEF IInv, TypeOK, MessagesOK
  <2>2. m.ul \in Sessions /\ m.ul <= Len(smf)
    BY <1>17, <2>1, DownlinkFields DEF GnbMessageOK
  <2> QED BY <1>1, <1>8, <1>14, <2>2 DEF Sessions
<1> QED BY ZenonT(60), <1>2, <1>3, <1>4, <1>5, <1>7, <1>13, <1>15, <1>16, <1>17, AmfOtherKeeps

LEMMA SetupResponseKeeps ==
  ASSUME IInv, NEW g \in Gnbs, AmfSetupResponse(g)
  PROVE  IInv' /\ Spent \subseteq Spent'
<1> USE Bounds
<1>1. PICK m, n : m = Head(toAmf[g]) /\ n = contexts[m.amf].pending
  OBVIOUS
<1>2. PICK e : e = DownlinkNAS(m.amf, SessionRanId, [nas |-> "pduAccept", ip |-> n, dl |-> m.dl])
  OBVIOUS
<1>3. PICK E, out : /\ E = IF n = 0 THEN {} ELSE {e}
                    /\ out = IF n = 0 THEN <<>> ELSE <<e>>
  OBVIOUS
<1>4. /\ toAmf[g] # <<>> /\ m.type = "setupResponse" /\ m.amf \in DOMAIN contexts
      /\ contexts' = [contexts EXCEPT ![m.amf].pending = 0]
      /\ AmfTurn(g, out) /\ smf' = smf
  BY <1>1, <1>2, <1>3 DEF AmfSetupResponse, AmfMessage
<1>5. m \in UplinkNgap /\ m \in Range(toAmf[g]) /\ AmfMessageOK(g, m)
  <2>1. toAmf[g] \in Seq(UplinkNgap)
    BY DEF IInv, TypeOK
  <2> QED BY <1>1, <1>4, <2>1, TailFacts DEF IInv, MessagesOK
<1>6. m.amf \in Sessions /\ m.dl \in Sessions /\ KnownId(g, m.amf) /\ m.dl < nextDl[g]
  BY <1>4, <1>5, UplinkFields DEF AmfMessageOK
<1>7. contexts[m.amf] \in Context /\ n \in 0..MaxIds
  <2>1. contexts[m.amf] \in Context
    BY <1>4, ContextTyped DEF IInv
  <2> QED BY <1>1, <2>1 DEF Context
<1>8. PICK c : c = [contexts[m.amf] EXCEPT !.pending = 0]
  OBVIOUS
<1>9. /\ c \in Context
      /\ c.supi = contexts[m.amf].supi /\ c.gnb = contexts[m.amf].gnb /\ c.ran = contexts[m.amf].ran
  BY <1>7, <1>8 DEF Context
<1>10. contexts' = [contexts EXCEPT ![m.amf] = c]
  BY <1>4, <1>8
<1>11. /\ contexts' \in Seq(Context) /\ DOMAIN contexts' = DOMAIN contexts
       /\ \A j \in DOMAIN contexts :
            /\ contexts'[j].gnb = contexts[j].gnb
            /\ contexts'[j].ran = contexts[j].ran /\ contexts'[j].supi = contexts[j].supi
  BY <1>4, <1>9, <1>10, ContextSet
<1>12. n # 0 => /\ e \in DownlinkNgap /\ e.type = "downlinkNAS" /\ e.amf = m.amf
                /\ e.pdu = [nas |-> "pduAccept", ip |-> n, dl |-> m.dl]
  <2>1. n # 0 => [nas |-> "pduAccept", ip |-> n, dl |-> m.dl] \in DownlinkNas
    BY <1>6, <1>7 DEF DownlinkNas, Sessions
  <2>2. m.amf \in 0..MaxIds
    BY <1>6 DEF Sessions
  <2> QED BY <1>2, <2>1, <2>2 DEF DownlinkNAS, DownlinkNgap
<1>13. n # 0 => GnbMessageOK(g, e)'
  <2>1. nextDl' = nextDl
    BY <1>4 DEF AmfTurn, gnbVars
  <2> QED BY <1>6, <1>11, <1>12, <2>1 DEF GnbMessageOK, KnownId
<1>14. Sends(E, out) /\ \A s : E \cap Answers(s) = {}
  BY <1>3, <1>12 DEF Sends, Answers
<1>15. /\ \A x \in E : GnbMessageOK(g, x)'
       /\ \A x \in E : x.type # "setupRequest"
  BY <1>3, <1>12, <1>13
<1> QED BY <1>4, <1>11, <1>14, <1>15, AmfOtherKeeps

\* Every step keeps the invariant, and a connection whose request was read stays so.
LEMMA StepKeeps ==
  ASSUME IInv, [Next]_vars
  PROVE  IInv' /\ Spent \subseteq Spent'
<1>1. ASSUME NEW u \in UEs, UeStart(u) \/ UeReceives(u) \/ UeStop(u) PROVE IInv' /\ Spent \subseteq Spent'
  BY <1>1, StartKeeps, RegistrationAcceptKeeps, PduAcceptKeeps, RejectKeeps, StopKeeps
     DEF UeReceives
<1>2. ASSUME NEW g \in Gnbs, GnbReads(g) \/ GnbOpens(g) \/ GnbNotifyUpf(g) PROVE IInv' /\ Spent \subseteq Spent'
  BY <1>2, RelayDownlinkKeeps, DropDownlinkKeeps, SetupRequestKeeps, SetupFailsKeeps,
     OpenTunnelKeeps, OpenFailsKeeps, NotifyUpfKeeps DEF GnbReads, GnbOpens
<1>3. ASSUME NEW g \in Gnbs, AmfReads(g) PROVE IInv' /\ Spent \subseteq Spent'
  BY <1>3, AcceptKeeps, AmfRejectKeeps, CompleteKeeps, PduCreatedKeeps, PduDirectKeeps,
     PduRefusedKeeps, PduLostKeeps, SetupResponseKeeps DEF AmfReads
<1>4. ASSUME NEW g \in Gnbs, NEW r \in RanIds, GnbRelayUplink(g, r) \/ GnbUeGone(g, r)
      PROVE  IInv' /\ Spent \subseteq Spent'
  BY <1>4, RelayUplinkKeeps, UeGoneKeeps
<1>5. CASE UNCHANGED vars
  <2>1. UNCHANGED <<ue, nextRan, conns, nextDl, toAmf, toGnb, contexts, smf>>
    BY <1>5 DEF vars
  <2>2. TypeOK' /\ PeersApart' /\ \A g \in Gnbs : TunnelsOK(g)'
    BY <1>5 DEF vars, IInv, TypeOK, PeersApart, SessionsOK, TunnelsOK
  <2>3. \A g \in Gnbs : tunnels[g] \subseteq tunnels'[g] /\ broken[g] \subseteq broken'[g]
    BY <1>5 DEF vars
  <2> QED BY <2>1, <2>2, <2>3, LoopFrame
<1> QED BY <1>1, <1>2, <1>3, <1>4, <1>5 DEF Next

----------------------------------------------------------------------------
(* The theorems.                                                           *)

\* No interleaving of UEs, gNBs and AMF, with UEs that stop and come back at
\* any moment, breaks the invariant.
THEOREM Invariance == Spec => []IInv
<1>1. Init => IInv
  <2> SUFFICES ASSUME Init PROVE IInv
    OBVIOUS
  <2> USE Bounds DEF Init
  <2>1. TypeOK
    <3>1. /\ UeOff \in [phase : Phases, ran : 0..MaxRan, guti : 0..MaxIds,
                        ip : 0..MaxIds, dl : 0..MaxIds, refused : BOOLEAN]
          /\ Reading \in [pc : {"read", "open", "notify"}, ran : 0..MaxRan,
                          ul : 0..MaxIds, dl : 0..MaxIds]
      BY DEF UeOff, Reading, Phases
    <3>2. /\ <<>> \in Seq(UplinkNgap) /\ <<>> \in Seq(DownlinkNgap)
          /\ <<>> \in Seq(Context) /\ <<>> \in Seq(UEs) /\ Len(<<>>) = 0
      BY EmptySeq
    <3>3. ue \in [UEs -> [phase : Phases, ran : 0..MaxRan, guti : 0..MaxIds,
                          ip : 0..MaxIds, dl : 0..MaxIds, refused : BOOLEAN]]
      BY <3>1
    <3>4. loop \in [Gnbs -> [pc : {"read", "open", "notify"}, ran : 0..MaxRan,
                             ul : 0..MaxIds, dl : 0..MaxIds]]
      BY <3>1
    <3>5. nextRan \in [Gnbs -> 0..MaxRan] /\ nextDl \in [Gnbs -> 1..(MaxIds + 1)]
      OBVIOUS
    <3>6. /\ conns \in [Gnbs -> [RanIds -> Connection \cup {None}]]
          /\ ueSessions \in [Gnbs -> [RanIds -> [ul : Sessions, dl : Sessions] \cup {None}]]
          /\ peer \in [Sessions -> [gnb : Gnbs, dl : Sessions] \cup {None}]
          /\ tunnels \in [Gnbs -> SUBSET Sessions] /\ broken \in [Gnbs -> SUBSET Sessions]
          /\ silent \in [Gnbs -> SUBSET Sessions]
      OBVIOUS
    <3>7. toAmf \in [Gnbs -> Seq(UplinkNgap)] /\ toGnb \in [Gnbs -> Seq(DownlinkNgap)]
      BY <3>2
    <3>8. /\ contexts \in Seq(Context) /\ Len(contexts) <= MaxIds
          /\ smf \in Seq(UEs) /\ Len(smf) <= MaxIds
      BY <3>2
    <3> QED BY <3>3, <3>4, <3>5, <3>6, <3>7, <3>8 DEF TypeOK
  <2>2. DOMAIN contexts = {} /\ Len(smf) = 0
    OBVIOUS
  <2>3. \A u \in UEs : UeOK(u)
    BY DEF UeOK, UeOff
  <2>4. \A k \in DOMAIN contexts : ContextOK(k)
    BY <2>2
  <2>5. ConnsOK /\ MessagesOK
    BY EmptyFacts DEF ConnsOK, UplinkOK, DownlinkOK, MessagesOK
  <2>6. PlacesOK
    <3>1. \A g \in Gnbs, r \in RanIds, x \in Places : IsAt(g, r, x) => x = "fresh"
      BY EmptyFacts DEF IsAt
    <3>2. \A g \in Gnbs, r \in RanIds : ~Known(g, r)
      BY <2>2 DEF Known
    <3>3. \A g \in Gnbs, r \in RanIds : OneMessage(g, r)
      BY EmptyFacts DEF OneMessage
    <3> QED BY <3>1, <3>2, <3>3 DEF PlacesOK, OnePlace
  <2>7. SessionsOK
    BY <2>2 DEF SessionsOK, SetupsInOrder, Ordered, TunnelsOK, Reading, Sessions
  <2>8. Len(smf) <= Cardinality(Spent)
    <3>1. Spent \subseteq Gnbs \X RanIds
      BY DEF Spent
    <3>2. Cardinality(Spent) \in Nat
      BY <3>1, PairsFinite, FS_Subset, FS_CardinalityType
    <3> QED BY <2>2, <3>2
  <2>9. RegisteredAsSelf /\ ContextsApart /\ TunnelBeforeAccept /\ PeersApart
    BY <2>2 DEF RegisteredAsSelf, ContextsApart, TunnelBeforeAccept, PeersApart, UeOff
  <2> QED BY <2>1, <2>3, <2>4, <2>5, <2>6, <2>7, <2>8, <2>9 DEF IInv
<1>2. IInv /\ [Next]_vars => IInv'
  BY StepKeeps
<1> QED BY <1>1, <1>2, PTL DEF Spec

\* The types of N2Attach; with them, that a gNB gives out no more tunnel
\* identifiers, and the AMF and the SMF no more identifiers, than connections.
THEOREM TypeCorrect == Spec => []TypeOK
BY Invariance, PTL DEF IInv

\* A UE that has been accepted is known to the AMF as itself (relayDownlinkNAS,
\* handleRegistrationRequest).
THEOREM RegistersAsSelf == Spec => []RegisteredAsSelf
BY Invariance, PTL DEF IInv

\* A connection has one context at the AMF at most (UEContextStore.New).
THEOREM OneContextEach == Spec => []ContextsApart
BY Invariance, PTL DEF IInv

\* What a gNB relays under an AMF id finds a context of that gNB
\* (HandleUplinkNASTransport, HandlePDUSessionResourceSetupResponse).
THEOREM KnownUplink == Spec => []UplinkKnown
<1>1. IInv => UplinkKnown
  <2> SUFFICES ASSUME IInv, NEW g \in Gnbs, NEW i \in DOMAIN toAmf[g],
                      toAmf[g][i].type # "initialUE"
               PROVE  KnownId(g, toAmf[g][i].amf)
    BY DEF UplinkKnown, KnownId
  <2>1. toAmf[g][i] \in UplinkNgap /\ toAmf[g][i] \in Range(toAmf[g])
    BY LenProperties, ElementOfSeq DEF IInv, TypeOK, Range
  <2> QED BY <2>1, UplinkFields DEF IInv, MessagesOK, AmfMessageOK
<1> QED BY <1>1, Invariance, PTL

\* No UE has a DL TEID its gNB neither listens on nor gave up
\* (HandlePDUSessionResourceSetupRequest, HandlePDUSessionResourceSetupResponse).
THEOREM TunnelFirst == Spec => []TunnelBeforeAccept
BY Invariance, PTL DEF IInv

\* No two sessions' downlink goes into one tunnel, and none into a closed one
\* (notifyUPFOfGNBTunnel).
THEOREM DownlinkApart == Spec => []PeersApart
BY Invariance, PTL DEF IInv

----------------------------------------------------------------------------
(* One UE per gNB: what the parties know of its session.                   *)

OneUePerGnb == \A u, v \in UEs : Home[u] = Home[v] => u = v

\* Session n is to be set up for connection r of g ...
SetupFor(g, r, n) ==
  \/ \E m \in Range(toGnb[g]) : m.type = "setupRequest" /\ m.ran = r /\ m.ul = n
  \/ loop[g].pc # "read" /\ loop[g].ran = r /\ loop[g].ul = n

\* ... and its accept, with DL TEID d or with none (0), is on its way to the
\* connection or has arrived.
AcceptFor(g, r, n, d) ==
  \/ \E m \in Range(toGnb[g]) :
       /\ m.type = "downlinkNAS" /\ m.pdu.nas = "pduAccept"
       /\ m.ran = r /\ m.pdu.ip = n /\ m.pdu.dl = d
  \/ /\ r \in RanIds /\ conns[g][r] # None
     /\ \E m \in Range(conns[g][r].down) : m.nas = "pduAccept" /\ m.ip = n /\ m.dl = d
  \/ \E u \in UEs :
       /\ Home[u] = g /\ ue[u].ran = r /\ (ue[u].ip # 0 \/ ue[u].dl # 0)
       /\ ue[u].ip = n /\ ue[u].dl = d

SetupWaits(g) == \E m \in Range(toGnb[g]) : m.type = "setupRequest"

\* Connection r has asked for a session, and the AMF has not read it.
Asking(g, r) == IsAt(g, r, "wants") \/ IsAt(g, r, "requested")

\* A UE asks once it is accepted, and is on the last connection of its gNB.
AloneOK(u) ==
  ue[u].phase # "off" =>
    /\ ue[u].ran = nextRan[Home[u]]
    /\ ue[u].guti = 0 => ~Asking(Home[u], ue[u].ran)

\* Everybody at g speaks of the session of context k.
OwnSession(g, k) ==
  LET n == contexts[k].session IN
  /\ contexts[k].pending \in {0, n}
  /\ n # 0 =>
       /\ n \in DOMAIN smf /\ smf[n] = contexts[k].supi
       /\ <<g, SessionRanId>> \in Spent
       /\ \A u \in UEs : Home[u] = g /\ ue[u].phase # "off" => ue[u].guti # 0
  /\ \A r, m : SetupFor(g, r, m) => m = n
  /\ \A r, m, d : AcceptFor(g, r, m, d) => m = n

\* An accept is of a session the AMF has, and where it brings no DL TEID the gNB
\* has no part in the session, and will have none.
SoleAccept(g) ==
  /\ ueSessions[g][SessionRanId] # None => SessionRanId \in tunnels[g]
  /\ \A r, n, d : AcceptFor(g, r, n, d) => \E k : KnownId(g, k)
  /\ \A r, n : AcceptFor(g, r, n, 0) => nextDl[g] = 1 /\ \A s, i : ~SetupFor(g, s, i)

\* While no UE has come back to g.
SessionAt(g) ==
  nextRan[g] <= 1 =>
    /\ nextDl[g] # 1 => /\ nextDl[g] = 2 /\ ~SetupWaits(g)
                        /\ \E k : KnownId(g, k) /\ contexts[k].session # 0
    /\ SessionRanId \in tunnels[g] =>
         \E k : /\ KnownId(g, k)
                /\ ueSessions[g][SessionRanId] = [ul |-> contexts[k].session, dl |-> 1]
    /\ SoleAccept(g)
    /\ \A k : KnownId(g, k) => OwnSession(g, k)

\* Session messages speak of connection 1 and of sessions of g's own UE.
GnbOK(g) ==
  /\ \A r, n : SetupFor(g, r, n) => r = SessionRanId /\ n \in DOMAIN smf /\ Home[smf[n]] = g
  /\ \A r, n, d : AcceptFor(g, r, n, d) =>
       r = SessionRanId /\ n # 0 /\ d \in 0..MaxIds /\ d < nextDl[g]
  /\ \A u \in UEs : Home[u] = g => AloneOK(u)
  /\ SessionAt(g)

PeerOK(n) == peer[n] # None => n \in DOMAIN smf /\ Home[smf[n]] = peer[n].gnb

SessionInv == (\A g \in Gnbs : GnbOK(g)) /\ (\A n \in Sessions : PeerOK(n))

\* What a step may leave of a gNB's session: nothing new is set up, accepted or
\* asked for, and the contexts keep their sessions.
SameContexts(g) ==
  /\ \A k : KnownId(g, k)' <=> KnownId(g, k)
  /\ \A k : KnownId(g, k) => /\ contexts'[k].supi = contexts[k].supi
                             /\ contexts'[k].session = contexts[k].session
                             /\ contexts'[k].pending \in {0, contexts[k].pending}

NothingNew(g) ==
  /\ \A r, n : SetupFor(g, r, n)' => SetupFor(g, r, n)
  /\ \A r, n, d : AcceptFor(g, r, n, d)' => AcceptFor(g, r, n, d)
  /\ SetupWaits(g)' => SetupWaits(g)

SameUes(g) ==
  /\ nextRan'[g] = nextRan[g]
  /\ \A u \in UEs : Home[u] = g /\ ue'[u].phase # "off" =>
       /\ ue[u].phase # "off" /\ ue'[u].ran = ue[u].ran
       /\ ue'[u].guti = 0 =>
            /\ ue[u].guti = 0
            /\ \A r \in RanIds : r = ue[u].ran /\ Asking(g, r)' => Asking(g, r)

SameTunnels(g) ==
  nextDl'[g] = nextDl[g] /\ tunnels'[g] = tunnels[g] /\ ueSessions'[g] = ueSessions[g]

Calm(g) == SameContexts(g) /\ NothingNew(g) /\ SameUes(g) /\ SameTunnels(g)

\* The SMF forgets no session.
SmfGrows == \A n \in DOMAIN smf : n \in DOMAIN smf' /\ smf'[n] = smf[n]

----------------------------------------------------------------------------

LEMMA UesKept ==
  ASSUME IInv, NEW g \in Gnbs, SameUes(g), \A u \in UEs : Home[u] = g => AloneOK(u)
  PROVE  \A u \in UEs : Home[u] = g => AloneOK(u)'
<1> SUFFICES ASSUME NEW u \in UEs, Home[u] = g, ue'[u].phase # "off" PROVE AloneOK(u)'
  BY DEF AloneOK
<1>1. ue[u].phase # "off" /\ ue'[u].ran = ue[u].ran /\ (ue'[u].guti = 0 => ue[u].guti = 0)
  BY DEF SameUes
<1>2. ue[u].ran = nextRan[g] /\ (ue[u].guti = 0 => ~Asking(g, ue[u].ran))
  BY <1>1 DEF AloneOK
<1>3. ue[u].ran \in RanIds
  BY <1>1 DEF IInv, UeOK
<1>4. PICK r \in RanIds : r = ue[u].ran
  BY <1>3
<1>5. ue'[u].ran = r /\ nextRan'[g] = r /\ (ue'[u].guti = 0 => ~Asking(g, r)')
  BY <1>1, <1>2, <1>4 DEF SameUes
<1> QED BY <1>5 DEF AloneOK, Asking, IsAt

\* The session of a context after a step that leaves the gNB alone.
LEMMA OwnKept ==
  ASSUME NEW g \in Gnbs, NEW k, KnownId(g, k), OwnSession(g, k), SameContexts(g), SameUes(g),
         SmfGrows, Spent \subseteq Spent',
         \A r, n : SetupFor(g, r, n)' => SetupFor(g, r, n) \/ n = contexts[k].session,
         \A r, n, d : AcceptFor(g, r, n, d)' => AcceptFor(g, r, n, d) \/ n = contexts[k].session
  PROVE  OwnSession(g, k)'
<1>1. PICK n : n = contexts[k].session /\ contexts'[k].session = n
  BY DEF SameContexts
<1>2. contexts'[k].supi = contexts[k].supi /\ contexts'[k].pending \in {0, contexts[k].pending}
  BY DEF SameContexts
<1>3. contexts'[k].pending \in {0, n}
  BY <1>1, <1>2 DEF OwnSession
<1>4. n # 0 => /\ n \in DOMAIN smf' /\ smf'[n] = contexts'[k].supi
               /\ <<g, SessionRanId>> \in Spent'
               /\ \A u \in UEs : Home[u] = g /\ ue'[u].phase # "off" => ue'[u].guti # 0
  BY <1>1, <1>2 DEF OwnSession, SmfGrows, SameUes
<1>5. \A r, m : SetupFor(g, r, m)' => m = n
  BY <1>1 DEF OwnSession
<1>6. \A r, m, d : AcceptFor(g, r, m, d)' => m = n
  BY <1>1 DEF OwnSession
<1> QED BY <1>1, <1>3, <1>4, <1>5, <1>6 DEF OwnSession

LEMMA SoleKept ==
  ASSUME NEW g \in Gnbs, SoleAccept(g), NothingNew(g), SameContexts(g), SameTunnels(g)
  PROVE  SoleAccept(g)'
<1>1. ueSessions'[g][SessionRanId] # None => SessionRanId \in tunnels'[g]
  BY DEF SoleAccept, SameTunnels
<1>2. \A r, n, d : AcceptFor(g, r, n, d)' => \E k : KnownId(g, k)'
  BY DEF SoleAccept, NothingNew, SameContexts
<1>3. \A r, n : AcceptFor(g, r, n, 0)' => nextDl'[g] = 1 /\ \A s, i : ~SetupFor(g, s, i)'
  BY DEF SoleAccept, NothingNew, SameTunnels
<1> QED BY <1>1, <1>2, <1>3 DEF SoleAccept

LEMMA CalmKeeps ==
  ASSUME IInv, NEW g \in Gnbs, GnbOK(g), Calm(g), SmfGrows, Spent \subseteq Spent'
  PROVE  GnbOK(g)'
<1> USE DEF Calm
<1>1. \A r, n : SetupFor(g, r, n)' => r = SessionRanId /\ n \in DOMAIN smf' /\ Home[smf'[n]] = g
  BY DEF GnbOK, NothingNew, SmfGrows
<1>2. \A r, n, d : AcceptFor(g, r, n, d)' =>
        r = SessionRanId /\ n # 0 /\ d \in 0..MaxIds /\ d < nextDl'[g]
  BY DEF GnbOK, NothingNew, SameTunnels
<1>3. \A u \in UEs : Home[u] = g => AloneOK(u)'
  BY UesKept DEF GnbOK, IInv
<1>4. SessionAt(g)'
  <2> SUFFICES ASSUME nextRan[g] <= 1 PROVE SessionAt(g)'
    BY DEF SessionAt, SameUes
  <2>1. /\ nextDl[g] # 1 => /\ nextDl[g] = 2 /\ ~SetupWaits(g)
                            /\ \E k : KnownId(g, k) /\ contexts[k].session # 0
        /\ SessionRanId \in tunnels[g] =>
             \E k : /\ KnownId(g, k)
                    /\ ueSessions[g][SessionRanId] = [ul |-> contexts[k].session, dl |-> 1]
        /\ SoleAccept(g)
        /\ \A k : KnownId(g, k) => OwnSession(g, k)
    BY DEF GnbOK, SessionAt
  <2>2. nextDl'[g] # 1 => /\ nextDl'[g] = 2 /\ ~SetupWaits(g)'
                          /\ \E k : KnownId(g, k)' /\ contexts'[k].session # 0
    BY <2>1 DEF SameTunnels, NothingNew, SameContexts
  <2>3. SessionRanId \in tunnels'[g] =>
          \E k : /\ KnownId(g, k)'
                 /\ ueSessions'[g][SessionRanId] = [ul |-> contexts'[k].session, dl |-> 1]
    BY <2>1 DEF SameTunnels, SameContexts
  <2>4. ASSUME NEW k, KnownId(g, k)' PROVE OwnSession(g, k)'
    <3>1. KnownId(g, k) /\ OwnSession(g, k)
      BY <2>1, <2>4 DEF SameContexts
    <3> QED BY <3>1, OwnKept DEF NothingNew
  <2>5. SoleAccept(g)'
    BY <2>1, SoleKept
  <2> QED BY <2>2, <2>3, <2>4, <2>5 DEF SessionAt
<1> QED BY <1>1, <1>2, <1>3, <1>4 DEF GnbOK

\* Nothing of gNB g changes.
LEMMA ElsewhereCalm ==
  ASSUME NEW g \in Gnbs,
         nextRan'[g] = nextRan[g], conns'[g] = conns[g], loop'[g] = loop[g],
         nextDl'[g] = nextDl[g], tunnels'[g] = tunnels[g], ueSessions'[g] = ueSessions[g],
         toAmf'[g] = toAmf[g], toGnb'[g] = toGnb[g],
         \A u \in UEs : Home[u] = g => ue'[u] = ue[u],
         SameContexts(g)
  PROVE  Calm(g)
<1>1. NothingNew(g)
  <2>1. \A r, n : SetupFor(g, r, n)' => SetupFor(g, r, n)
    BY DEF SetupFor
  <2>2. \A r, n, d : AcceptFor(g, r, n, d)' => AcceptFor(g, r, n, d)
    BY DEF AcceptFor
  <2>3. SetupWaits(g)' => SetupWaits(g)
    BY DEF SetupWaits
  <2> QED BY <2>1, <2>2, <2>3 DEF NothingNew
<1>2. SameUes(g)
  BY DEF SameUes, Asking, IsAt
<1> QED BY <1>1, <1>2 DEF Calm, SameTunnels

LEMMA ContextsSame ==
  ASSUME contexts' = contexts
  PROVE  \A g : SameContexts(g)
BY DEF SameContexts, KnownId

\* The session of a gNB that no UE has come back to is the one of its one context.
LEMMA SoleContext ==
  ASSUME IInv, NEW g \in Gnbs, nextRan[g] <= 1, NEW k, KnownId(g, k)
  PROVE  contexts[k].ran = SessionRanId /\ \A j : KnownId(g, j) => j = k
<1>1. ASSUME NEW j, KnownId(g, j)
      PROVE  j \in DOMAIN contexts /\ contexts[j].gnb = g /\ contexts[j].ran = 1
  <2>1. j \in DOMAIN contexts /\ contexts[j].gnb = g
    BY <1>1 DEF KnownId
  <2>2. contexts[j] \in Context
    BY <2>1, ContextTyped DEF IInv
  <2>3. contexts[j].ran \in RanIds /\ contexts[j].ran <= nextRan[g]
    BY <2>1, <2>2 DEF IInv, ContextOK, Context
  <2>4. nextRan[g] \in 0..MaxRan
    BY DEF IInv, TypeOK
  <2> QED BY <2>1, <2>3, <2>4, Bounds DEF RanIds
<1> QED BY <1>1 DEF IInv, ContextsApart, SessionRanId

\* Before a session is made, nobody speaks of one.
LEMMA NoSession ==
  ASSUME IInv, NEW g \in Gnbs, GnbOK(g), nextRan[g] <= 1,
         \A k : KnownId(g, k) => contexts[k].session = 0
  PROVE  /\ nextDl[g] = 1 /\ SessionRanId \notin tunnels[g]
         /\ ueSessions[g][SessionRanId] = None
         /\ \A r, n : ~SetupFor(g, r, n)
         /\ \A r, n, d : ~AcceptFor(g, r, n, d)
<1>1. nextDl[g] = 1 /\ SoleAccept(g)
  BY DEF GnbOK, SessionAt
<1>2. TunnelsOK(g)
  BY DEF IInv, SessionsOK
<1>3. SessionRanId \notin tunnels[g]
  BY <1>1, <1>2 DEF TunnelsOK, SessionRanId
<1>4. ASSUME NEW r, NEW n, NEW d, AcceptFor(g, r, n, d) PROVE FALSE
  <2>1. PICK k : KnownId(g, k)
    BY <1>1, <1>4 DEF SoleAccept
  <2>2. OwnSession(g, k) /\ contexts[k].session = 0
    BY <2>1 DEF GnbOK, SessionAt
  <2> QED BY <1>4, <2>2 DEF GnbOK, OwnSession
<1>5. ASSUME NEW r, NEW n, SetupFor(g, r, n) PROVE FALSE
  <2>1. n \in DOMAIN smf /\ DOMAIN smf = 1..Len(smf)
    BY <1>5, LenProperties DEF GnbOK, IInv, TypeOK
  <2>2. CASE loop[g].pc # "read"
    BY <1>1, <1>2, <2>2, Bounds DEF TunnelsOK, Sessions
  <2>3. CASE loop[g].pc = "read"
    <3>1. PICK m \in Range(toGnb[g]) : m.type = "setupRequest" /\ m.ran = r /\ m.ul = n
      BY <1>5, <2>3 DEF SetupFor
    <3>2. KnownId(g, m.amf)
      BY <3>1 DEF IInv, MessagesOK, GnbMessageOK
    <3>3. OwnSession(g, m.amf) /\ contexts[m.amf].session = 0
      BY <3>2 DEF GnbOK, SessionAt
    <3>4. n = 0
      BY <1>5, <3>3 DEF OwnSession
    <3> QED BY <2>1, <3>4
  <2> QED BY <2>2, <2>3
<1>6. ueSessions[g][SessionRanId] = None
  BY <1>1, <1>3 DEF SoleAccept
<1> QED BY <1>1, <1>3, <1>4, <1>5, <1>6

----------------------------------------------------------------------------
(* The session and the UE's steps.                                         *)

\* A step of one UE is none for the other gNBs.
LEMMA UeElsewhere ==
  ASSUME OneUePerGnb, IInv, IInv', NEW u \in UEs, NEW r,
         \A v \in UEs : v # u => ue'[v] = ue[v],
         \A h \in Gnbs, s \in RanIds : ~(h = Home[u] /\ s = r) => conns'[h][s] = conns[h][s],
         \A h \in Gnbs : h # Home[u] => nextRan'[h] = nextRan[h],
         UNCHANGED <<loop, nextDl, tunnels, ueSessions, toAmf, toGnb, contexts>>
  PROVE  \A h \in Gnbs : h # Home[u] => Calm(h)
<1> SUFFICES ASSUME NEW h \in Gnbs, h # Home[u] PROVE Calm(h)
  OBVIOUS
<1>1. conns'[h] = conns[h]
  <2>1. conns[h] \in [RanIds -> Connection \cup {None}]
        /\ conns'[h] \in [RanIds -> Connection \cup {None}]
    BY DEF IInv, TypeOK
  <2>2. \A s \in RanIds : conns'[h][s] = conns[h][s]
    OBVIOUS
  <2> QED BY ONLY <2>1, <2>2
<1>2. \A v \in UEs : Home[v] = h => ue'[v] = ue[v]
  OBVIOUS
<1>3. SameContexts(h)
  BY ContextsSame
<1>4. /\ nextRan'[h] = nextRan[h] /\ loop'[h] = loop[h] /\ nextDl'[h] = nextDl[h]
      /\ tunnels'[h] = tunnels[h] /\ ueSessions'[h] = ueSessions[h]
      /\ toAmf'[h] = toAmf[h] /\ toGnb'[h] = toGnb[h]
  OBVIOUS
<1> QED BY <1>1, <1>2, <1>3, <1>4, ElsewhereCalm

\* A UE takes a message; if it is a session accept, with the addresses in it.
LEMMA ReceiveCalm ==
  ASSUME OneUePerGnb, IInv, IInv', NEW u \in UEs, NEW kind, Received(u, kind),
         NEW reply \in Seq(UplinkNas), Exchange(u, reply),
         \A v \in UEs : v # u => ue'[v] = ue[v],
         ue'[u].phase # "off", ue'[u].ran = ue[u].ran,
         ue'[u].guti = 0 => ue[u].guti = 0 /\ reply = <<>>,
         \/ ue'[u].ip = ue[u].ip /\ ue'[u].dl = ue[u].dl
         \/ kind = "pduAccept" /\ ue'[u].ip = Inbox(u).ip /\ ue'[u].dl = Inbox(u).dl,
         UNCHANGED <<nextRan, loop, nextDl, tunnels, ueSessions, toAmf, toGnb, contexts>>
  PROVE  \A h \in Gnbs : Calm(h)
<1>1. PICK g \in Gnbs, r \in RanIds, c \in Connection :
        /\ g = Home[u] /\ r = ue[u].ran /\ c = conns[g][r] /\ c # None
        /\ c.ue = u /\ c.open /\ c.down # <<>> /\ c.down \in Seq(DownlinkNas)
        /\ Inbox(u) = Head(c.down) /\ Inbox(u).nas = kind /\ Inbox(u) \in DownlinkNas
        /\ Inbox(u) \in Range(c.down)
  BY ReceivedFacts
<1>2. PICK d : d = Exchanged(c, reply)
  OBVIOUS
<1>3. /\ d \in Connection
      /\ d.ue = c.ue /\ d.open = c.open /\ d.first = c.first /\ d.amf = c.amf
      /\ d.down = Tail(c.down) /\ d.up = c.up \o reply
  <2>1. c.down # <<>>
    BY <1>1
  <2> QED BY ONLY c \in Connection, reply \in Seq(UplinkNas), <1>2, <2>1, ConnExchanged
<1>4. /\ conns'[g][r] = d
      /\ \A h \in Gnbs, s \in RanIds : ~(h = g /\ s = r) => conns'[h][s] = conns[h][s]
  <2>1. TypeOK /\ g \in Gnbs /\ r \in RanIds /\ d \in Connection
    BY <1>3 DEF IInv
  <2>2. g = Home[u] /\ r = ue[u].ran /\ d = Exchanged(conns[g][r], reply)
    BY <1>1, <1>2
  <2> QED BY ONLY Exchange(u, reply), <2>1, <2>2, ExchangedConns
<1>5. Range(d.down) \subseteq Range(c.down)
  <2>1. PICK q : q = c.down
    OBVIOUS
  <2>2. q \in Seq(DownlinkNas) /\ q # <<>> /\ d.down = Tail(q)
    BY <1>1, <1>3, <2>1
  <2>3. Range(Tail(q)) \subseteq Range(q)
    BY ONLY <2>2, TailFacts
  <2> QED BY <2>1, <2>2, <2>3
<1>6. \A h \in Gnbs : h # g => Calm(h)
  <2>1. g = Home[u]
    BY <1>1
  <2>2. \A h \in Gnbs, s \in RanIds : ~(h = Home[u] /\ s = r) => conns'[h][s] = conns[h][s]
    BY <1>4, <2>1
  <2>3. \A h \in Gnbs : h # Home[u] => nextRan'[h] = nextRan[h]
    OBVIOUS
  <2>4. \A h \in Gnbs : h # Home[u] => Calm(h)
    BY ONLY OneUePerGnb, IInv, IInv', u \in UEs, <2>2, <2>3, UeElsewhere,
            \A v \in UEs : v # u => ue'[v] = ue[v],
            UNCHANGED <<loop, nextDl, tunnels, ueSessions, toAmf, toGnb, contexts>>
  <2> QED BY <2>1, <2>4
<1>7. NothingNew(g)
  <2>1. \A s, n : SetupFor(g, s, n)' => SetupFor(g, s, n)
    BY DEF SetupFor
  <2>2. ASSUME NEW s, NEW n, NEW l, AcceptFor(g, s, n, l)' PROVE AcceptFor(g, s, n, l)
    <3>1. CASE \E m \in Range(toGnb'[g]) :
                 /\ m.type = "downlinkNAS" /\ m.pdu.nas = "pduAccept"
                 /\ m.ran = s /\ m.pdu.ip = n /\ m.pdu.dl = l
      BY <3>1 DEF AcceptFor
    <3>2. CASE /\ s \in RanIds /\ conns'[g][s] # None
               /\ \E m \in Range(conns'[g][s].down) : m.nas = "pduAccept" /\ m.ip = n /\ m.dl = l
      <4>1. conns[g][s] # None /\ Range(conns'[g][s].down) \subseteq Range(conns[g][s].down)
        BY <1>1, <1>4, <1>5, <3>2
      <4> QED BY <3>2, <4>1 DEF AcceptFor
    <3>3. ASSUME NEW v \in UEs, Home[v] = g, ue'[v].ran = s,
                 ue'[v].ip # 0 \/ ue'[v].dl # 0, ue'[v].ip = n, ue'[v].dl = l
          PROVE  AcceptFor(g, s, n, l)
      <4>1. CASE ue[v].ip = ue'[v].ip /\ ue[v].dl = ue'[v].dl
        <5>1. ue[v].ran = s
          BY <3>3
        <5> QED BY <3>3, <4>1, <5>1 DEF AcceptFor
      <4>2. CASE ~(ue[v].ip = ue'[v].ip /\ ue[v].dl = ue'[v].dl)
        <5>1. v = u /\ kind = "pduAccept" /\ ue'[u].ip = Inbox(u).ip /\ ue'[u].dl = Inbox(u).dl
          BY <4>2
        <5>2. s = r /\ Inbox(u) \in Range(conns[g][r].down) /\ conns[g][r] # None
          BY <1>1, <3>3, <5>1
        <5> QED BY <1>1, <3>3, <5>1, <5>2 DEF AcceptFor
      <4> QED BY <4>1, <4>2
    <3> QED BY <2>2, <3>1, <3>2, <3>3 DEF AcceptFor
  <2>3. SetupWaits(g)' => SetupWaits(g)
    BY DEF SetupWaits
  <2> QED BY <2>1, <2>2, <2>3 DEF NothingNew
<1>8. SameUes(g)
  <2>1. ASSUME reply = <<>>, NEW s \in RanIds, Asking(g, s)' PROVE Asking(g, s)
    <3>1. c.up \in Seq(UplinkNas)
      BY DEF Connection
    <3>2. d.up = c.up
      BY <1>3, <2>1, <3>1, ConcatEmptySeq
    <3>3. IsAt(g, s, "wants")' => IsAt(g, s, "wants")
      <4>1. CASE s = r
        <5>1. /\ c = conns[g][r] /\ c # None /\ conns'[g][r] = d
              /\ d.first = c.first /\ d.up = c.up
          BY <1>1, <1>3, <1>4, <3>2
        <5> QED BY ONLY <4>1, <5>1 DEF IsAt
      <4>2. CASE s # r
        BY <1>4, <4>2 DEF IsAt
      <4> QED BY ONLY <4>1, <4>2
    <3>4. IsAt(g, s, "requested")' => IsAt(g, s, "requested")
      BY DEF IsAt
    <3> QED BY <2>1, <3>3, <3>4 DEF Asking
  <2>2. \A v \in UEs : Home[v] = g => v = u
    BY <1>1 DEF OneUePerGnb
  <2>3. ue[u].phase # "off"
    BY DEF Received
  <2> QED BY <1>1, <2>1, <2>2, <2>3 DEF SameUes
<1>9. SameContexts(g) /\ SameTunnels(g)
  BY ContextsSame DEF SameTunnels
<1> QED BY <1>6, <1>7, <1>8, <1>9 DEF Calm

LEMMA UeReceivesCalm ==
  ASSUME OneUePerGnb, IInv, IInv', NEW u \in UEs, UeReceives(u), GnbOK(Home[u])
  PROVE  \A h \in Gnbs : Calm(h)
<1>1. ue \in [UEs -> [phase : Phases, ran : 0..MaxRan, guti : 0..MaxIds,
                      ip : 0..MaxIds, dl : 0..MaxIds, refused : BOOLEAN]]
  BY DEF IInv, TypeOK
<1>2. CASE UeRegistrationAccept(u)
  <2>1. PICK reply : reply = CompleteUp
    OBVIOUS
  <2>2. reply \in Seq(UplinkNas)
    BY <2>1 DEF CompleteUp, UplinkNas
  <2>3. /\ Received(u, "regAccept") /\ Exchange(u, reply)
        /\ ue' = [ue EXCEPT ![u].phase = "registered", ![u].guti = Inbox(u).guti]
        /\ UNCHANGED <<nextRan, loop, nextDl, tunnels, ueSessions, toAmf, toGnb, contexts>>
    BY <1>2, <2>1 DEF UeRegistrationAccept, CompleteUp, n2, amfVars
  <2>4. Inbox(u).guti # 0
    <3>1. Inbox(u) \in DownlinkNas /\ Inbox(u).nas = "regAccept"
      BY <2>3, ReceivedFacts
    <3> QED BY <3>1, DownlinkNasFields, Bounds DEF Sessions
  <2>5. /\ \A v \in UEs : v # u => ue'[v] = ue[v]
        /\ ue'[u].phase = "registered" /\ ue'[u].ran = ue[u].ran /\ ue'[u].guti = Inbox(u).guti
        /\ ue'[u].ip = ue[u].ip /\ ue'[u].dl = ue[u].dl
    BY <1>1, <2>3
  <2> QED BY <2>2, <2>3, <2>4, <2>5, ReceiveCalm
<1>3. CASE UePduAccept(u)
  <2>1. PICK phase : /\ phase \in {"active", ue[u].phase}
                     /\ ue' = [ue EXCEPT ![u].phase = phase, ![u].ip = Inbox(u).ip,
                                         ![u].dl = IF Inbox(u).dl = 0 THEN @ ELSE Inbox(u).dl]
    BY <1>3 DEF UePduAccept
  <2>2. /\ Received(u, "pduAccept") /\ Exchange(u, <<>>)
        /\ UNCHANGED <<nextRan, loop, nextDl, tunnels, ueSessions, toAmf, toGnb, contexts>>
    BY <1>3 DEF UePduAccept, n2, amfVars
  <2>3. /\ \A v \in UEs : v # u => ue'[v] = ue[v]
        /\ ue'[u].phase = phase /\ ue'[u].ran = ue[u].ran /\ ue'[u].guti = ue[u].guti
        /\ ue'[u].ip = Inbox(u).ip
        /\ ue'[u].dl = IF Inbox(u).dl = 0 THEN ue[u].dl ELSE Inbox(u).dl
    BY <1>1, <2>1
  <2>4. <<>> \in Seq(UplinkNas) /\ ue'[u].phase # "off"
    BY <2>1, <2>2, <2>3 DEF Received
  <2>5. ASSUME Inbox(u).dl = 0 PROVE ue[u].dl = 0
    <3>1. PICK g \in Gnbs, r \in RanIds, c \in Connection :
            /\ g = Home[u] /\ r = ue[u].ran /\ c = conns[g][r] /\ c # None
            /\ Inbox(u) \in Range(c.down) /\ Inbox(u).nas = "pduAccept"
      BY <2>2, ReceivedFacts
    <3>2. PICK n : n = Inbox(u).ip
      OBVIOUS
    <3>3. AcceptFor(g, r, n, 0)
      BY <2>5, <3>1, <3>2 DEF AcceptFor
    <3>4. GnbOK(g) /\ ue[u].phase # "off"
      BY <2>2, <3>1 DEF Received
    <3>5. r = SessionRanId /\ nextRan[g] = r
      BY <3>1, <3>3, <3>4 DEF GnbOK, AloneOK
    <3>6. nextDl[g] = 1
      BY <3>3, <3>4, <3>5 DEF GnbOK, SessionAt, SoleAccept, SessionRanId
    <3> SUFFICES ASSUME ue[u].dl # 0 PROVE FALSE
      OBVIOUS
    <3>7. AcceptFor(g, r, ue[u].ip, ue[u].dl)
      BY <3>1 DEF AcceptFor
    <3>8. ue[u].dl \in 0..MaxIds /\ ue[u].dl < 1
      BY <3>4, <3>6, <3>7 DEF GnbOK
    <3> QED BY <3>8, Bounds
  <2>6. ue'[u].ip = Inbox(u).ip /\ ue'[u].dl = Inbox(u).dl
    BY <2>3, <2>5
  <2> QED BY <2>2, <2>3, <2>4, <2>6, ReceiveCalm
<1>4. CASE UeReject(u)
  <2>1. PICK kind : Received(u, kind)
    BY <1>4 DEF UeReject
  <2>2. /\ Exchange(u, <<>>) /\ ue' = [ue EXCEPT ![u].refused = TRUE]
        /\ UNCHANGED <<nextRan, loop, nextDl, tunnels, ueSessions, toAmf, toGnb, contexts>>
    BY <1>4 DEF UeReject, n2, amfVars
  <2>3. /\ \A v \in UEs : v # u => ue'[v] = ue[v]
        /\ ue'[u].phase = ue[u].phase /\ ue'[u].ran = ue[u].ran /\ ue'[u].guti = ue[u].guti
        /\ ue'[u].ip = ue[u].ip /\ ue'[u].dl = ue[u].dl
    BY <1>1, <2>2
  <2>4. <<>> \in Seq(UplinkNas) /\ ue'[u].phase # "off"
    BY <2>1, <2>3 DEF Received
  <2> QED BY <2>1, <2>2, <2>3, <2>4, ReceiveCalm
<1> QED BY <1>2, <1>3, <1>4 DEF UeReceives

LEMMA StopCalm ==
  ASSUME OneUePerGnb, IInv, IInv', NEW u \in UEs, UeStop(u)
  PROVE  \A h \in Gnbs : Calm(h)
<1>1. /\ ue[u].phase # "off" /\ ue' = [ue EXCEPT ![u] = UeOff]
      /\ UNCHANGED <<nextRan, loop, nextDl, tunnels, ueSessions, toAmf, toGnb, contexts>>
  BY DEF UeStop, n2, amfVars
<1>2. PICK g \in Gnbs, r \in RanIds : g = Home[u] /\ r = ue[u].ran
  BY <1>1, N2Assumption DEF IInv, UeOK
<1>3. PICK c : c = conns[g][r]
  OBVIOUS
<1>4. c # None /\ c \in Connection
  BY SMTT(30), <1>1, <1>2, <1>3 DEF IInv, UeOK, TypeOK
<1>5. PICK d : d = [c EXCEPT !.open = FALSE, !.down = <<>>]
  OBVIOUS
<1>6. d \in Connection /\ d.first = c.first /\ d.up = c.up /\ d.down = <<>>
  BY <1>4, <1>5, EmptySeq DEF Connection
<1>7. ConnBecomes(g, r, d)
  BY <1>2, <1>3, <1>5 DEF UeStop, ConnBecomes
<1>8. /\ conns'[g][r] = d
      /\ \A h \in Gnbs, s \in RanIds : ~(h = g /\ s = r) => conns'[h][s] = conns[h][s]
  BY <1>6, <1>7, ConnSet DEF IInv
<1>9. ue'[u] = UeOff /\ \A v \in UEs : v # u => ue'[v] = ue[v]
  BY <1>1 DEF IInv, TypeOK
<1>10. \A h \in Gnbs : h # g => Calm(h)
  BY <1>1, <1>2, <1>8, <1>9, UeElsewhere
<1>11. NothingNew(g)
  <2>1. Range(d.down) = {}
    BY <1>6, EmptyFacts
  <2>2. ASSUME NEW s, NEW n, NEW l, AcceptFor(g, s, n, l)' PROVE AcceptFor(g, s, n, l)
    <3>1. \A v \in UEs : ue'[v].ip # 0 \/ ue'[v].dl # 0 => ue'[v] = ue[v]
      BY <1>9 DEF UeOff
    <3>2. ASSUME s \in RanIds PROVE conns'[g][s] = conns[g][s] \/ conns'[g][s] = d
      BY <1>8, <3>2
    <3> QED BY <1>1, <2>1, <2>2, <3>1, <3>2 DEF AcceptFor
  <2> QED BY <1>1, <2>2 DEF NothingNew, SetupFor, SetupWaits
<1>12. SameUes(g)
  BY <1>1, <1>2, <1>9 DEF SameUes, OneUePerGnb, UeOff
<1> QED BY <1>1, <1>10, <1>11, <1>12, ContextsSame DEF Calm, SameTunnels

\* A UE that starts at a gNB of its own finds no session there, or is not the
\* first to start.
LEMMA StartSession ==
  ASSUME OneUePerGnb, IInv, IInv', NEW u \in UEs, UeStart(u), GnbOK(Home[u])
  PROVE  GnbOK(Home[u])' /\ \A h \in Gnbs : h # Home[u] => Calm(h)
<1>1. PICK g \in Gnbs : g = Home[u]
  BY N2Assumption
<1>2. PICK r \in Nat : r = nextRan[g] + 1
  <2>1. nextRan[g] \in Nat
    BY Bounds DEF IInv, TypeOK
  <2> QED BY <2>1
<1>3. /\ nextRan[g] < MaxRan /\ nextRan' = [nextRan EXCEPT ![g] = @ + 1]
      /\ UNCHANGED <<loop, nextDl, tunnels, ueSessions, toAmf, toGnb, contexts, smf>>
  BY <1>1 DEF UeStart, n2, amfVars
<1>4. /\ nextRan[g] \in Nat /\ nextRan'[g] = r /\ r \in RanIds /\ r > nextRan[g]
      /\ \A h \in Gnbs : h # g => nextRan'[h] = nextRan[h]
  <2>1. TypeOK /\ nextRan[g] < MaxRan /\ nextRan' = [nextRan EXCEPT ![g] = @ + 1] /\ g \in Gnbs
    BY <1>3 DEF IInv
  <2>2. /\ nextRan[g] \in 0..MaxRan /\ nextRan'[g] = nextRan[g] + 1 /\ nextRan'[g] \in RanIds
        /\ \A h \in Gnbs : h # g => nextRan'[h] = nextRan[h]
        /\ nextRan'[g] > nextRan[g]
    BY ONLY <2>1, RanTaken
  <2> QED BY ONLY <1>2, <2>2, Bounds
<1>5. PICK d : d = [ue |-> u, open |-> TRUE, first |-> TRUE, amf |-> 0,
                    up |-> <<[nas |-> "regRequest", supi |-> u]>>, down |-> <<>>]
  OBVIOUS
<1>6. d \in Connection /\ d.first /\ d.down = <<>>
  <2>1. <<[nas |-> "regRequest", supi |-> u]>> \in Seq(UplinkNas)
    BY DEF UplinkNas
  <2>2. <<>> \in Seq(DownlinkNas) /\ 0 \in 0..MaxIds
    BY EmptySeq, Bounds
  <2> QED BY <1>5, <2>1, <2>2 DEF Connection
<1>7. ConnBecomes(g, r, d)
  BY <1>1, <1>4, <1>5 DEF UeStart, ConnBecomes
<1>8. /\ conns'[g][r] = d
      /\ \A h \in Gnbs, s \in RanIds : ~(h = g /\ s = r) => conns'[h][s] = conns[h][s]
  BY <1>4, <1>6, <1>7, ConnSet DEF IInv
<1>9. /\ ue'[u].phase = "registering" /\ ue'[u].ran = r /\ ue'[u].ip = 0 /\ ue'[u].dl = 0
      /\ \A v \in UEs : v # u => ue'[v] = ue[v]
  <2>1. ue' = [ue EXCEPT ![u] = [UeOff EXCEPT !.phase = "registering", !.ran = r]]
    BY <1>1, <1>4 DEF UeStart
  <2>2. ue'[u] = [UeOff EXCEPT !.phase = "registering", !.ran = r]
        /\ \A v \in UEs : v # u => ue'[v] = ue[v]
    BY <2>1 DEF IInv, TypeOK
  <2> QED BY <2>2 DEF UeOff
<1>10. \A h \in Gnbs : h # Home[u] => Calm(h)
  <2>1. \A h \in Gnbs, s \in RanIds : ~(h = Home[u] /\ s = r) => conns'[h][s] = conns[h][s]
    BY <1>1, <1>8
  <2>2. \A h \in Gnbs : h # Home[u] => nextRan'[h] = nextRan[h]
    BY <1>1, <1>4
  <2>3. \A v \in UEs : v # u => ue'[v] = ue[v]
    BY <1>9
  <2> QED BY ONLY OneUePerGnb, IInv, IInv', u \in UEs, <1>3, <2>1, <2>2, <2>3, UeElsewhere
<1>11. NothingNew(g)
  <2>1. Range(d.down) = {}
    BY <1>6, EmptyFacts
  <2>2. ASSUME NEW s, NEW n, NEW l, AcceptFor(g, s, n, l)' PROVE AcceptFor(g, s, n, l)
    <3>1. \A v \in UEs : ue'[v].ip # 0 \/ ue'[v].dl # 0 => ue'[v] = ue[v]
      BY <1>9
    <3>2. ASSUME s \in RanIds PROVE conns'[g][s] = conns[g][s] \/ conns'[g][s] = d
      BY <1>8, <3>2
    <3> QED BY <1>3, <2>1, <2>2, <3>1, <3>2 DEF AcceptFor
  <2> QED BY <1>3, <2>2 DEF NothingNew, SetupFor, SetupWaits
<1>12. \A v \in UEs : Home[v] = g => v = u
  BY <1>1 DEF OneUePerGnb
<1>13. AloneOK(u)'
  <2>1. ~Asking(g, r)'
    <3>1. IsAt(g, r, "fresh") /\ OnePlace(g, r)
      BY <1>4 DEF IsAt, IInv, PlacesOK
    <3>2. ~IsAt(g, r, "requested")
      BY <3>1 DEF OnePlace, Places
    <3> QED BY <1>3, <1>6, <1>8, <3>2 DEF Asking, IsAt
  <2> QED BY <1>1, <1>4, <1>9, <2>1 DEF AloneOK, Asking, IsAt
<1>14. SessionAt(g)'
  <2> SUFFICES ASSUME r <= 1 PROVE SessionAt(g)'
    BY <1>4 DEF SessionAt
  <2>1. nextRan[g] = 0
    BY <1>2, <1>4
  <2>2. \A k : ~KnownId(g, k)
    <3> SUFFICES ASSUME NEW k, KnownId(g, k) PROVE FALSE
      OBVIOUS
    <3>1. contexts[k] \in Context /\ k \in DOMAIN contexts /\ contexts[k].gnb = g
      BY ContextTyped DEF IInv, KnownId
    <3>2. contexts[k].ran \in RanIds /\ contexts[k].ran <= nextRan[g]
      BY <3>1 DEF IInv, ContextOK, Context
    <3> QED BY <2>1, <3>2 DEF RanIds
  <2>3. /\ nextDl[g] = 1 /\ SessionRanId \notin tunnels[g]
        /\ ueSessions[g][SessionRanId] = None
        /\ \A s, n, l : ~AcceptFor(g, s, n, l)
    BY <1>1, <2>1, <2>2, NoSession
  <2>4. SoleAccept(g)'
    BY <1>3, <1>11, <2>3 DEF SoleAccept, NothingNew
  <2> QED BY <1>3, <2>2, <2>3, <2>4 DEF SessionAt, KnownId
<1>15. GnbOK(g)
  BY <1>1
<1>16. /\ \A s, n : SetupFor(g, s, n)' => s = SessionRanId /\ n \in DOMAIN smf' /\ Home[smf'[n]] = g
       /\ \A s, n, l : AcceptFor(g, s, n, l)' =>
            s = SessionRanId /\ n # 0 /\ l \in 0..MaxIds /\ l < nextDl'[g]
  BY <1>3, <1>11, <1>15 DEF GnbOK, NothingNew
<1>17. GnbOK(g)'
  BY <1>12, <1>13, <1>14, <1>16 DEF GnbOK
<1> QED BY <1>1, <1>10, <1>17

----------------------------------------------------------------------------
(* The session and the gNB's steps.                                        *)

\* A step of gNB g that brings no session further than it was.
LEMMA GnbCalm ==
  ASSUME NEW g \in Gnbs, UNCHANGED <<ue, nextRan, nextDl, tunnels, ueSessions, contexts>>,
         \A h \in Gnbs : h # g => /\ conns'[h] = conns[h] /\ loop'[h] = loop[h]
                                  /\ toAmf'[h] = toAmf[h] /\ toGnb'[h] = toGnb[h],
         \A r, n : SetupFor(g, r, n)' => SetupFor(g, r, n),
         \A r, n, d : AcceptFor(g, r, n, d)' => AcceptFor(g, r, n, d),
         SetupWaits(g)' => SetupWaits(g),
         \A r \in RanIds : Asking(g, r)' => Asking(g, r)
  PROVE  \A h \in Gnbs : Calm(h)
<1>1. ASSUME NEW h \in Gnbs, h # g PROVE Calm(h)
  BY <1>1, ElsewhereCalm, ContextsSame
<1>2. NothingNew(g) /\ SameUes(g) /\ SameContexts(g) /\ SameTunnels(g)
  BY ContextsSame DEF NothingNew, SameUes, SameTunnels
<1> QED BY <1>1, <1>2 DEF Calm

LEMMA RelayUplinkCalm ==
  ASSUME IInv, NEW g \in Gnbs, NEW r \in RanIds, GnbRelayUplink(g, r)
  PROVE  \A h \in Gnbs : Calm(h)
<1>1. PICK c : c = conns[g][r]
  OBVIOUS
<1>2. /\ c # None /\ c.up # <<>>
      /\ UNCHANGED <<ue, nextRan, loop, nextDl, tunnels, ueSessions, toGnb, contexts>>
  BY <1>1 DEF GnbRelayUplink, ueVars, amfVars
<1>3. c \in Connection
  BY <1>1, <1>2 DEF IInv, TypeOK
<1>4. PICK p : p = Head(c.up)
  OBVIOUS
<1>5. PICK m : m = IF c.first THEN [type |-> "initialUE", ran |-> r, pdu |-> p]
                   ELSE [type |-> "uplinkNAS", amf |-> c.amf, ran |-> r, pdu |-> p]
  OBVIOUS
<1>6. PICK d : d = [c EXCEPT !.up = Tail(c.up), !.first = FALSE]
  OBVIOUS
<1>7. /\ ConnBecomes(g, r, d)
      /\ toAmf' = [toAmf EXCEPT ![g] = Append(@, m)]
  BY <1>1, <1>4, <1>5, <1>6 DEF GnbRelayUplink, ConnBecomes
<1>8. /\ c.first => Tail(c.up) = <<>>
      /\ p \in UplinkNas /\ Tail(c.up) \in Seq(UplinkNas)
  BY <1>1, <1>2, <1>3, <1>4, NextUplink
<1>9. d \in Connection /\ d.up = Tail(c.up) /\ d.down = c.down
  BY <1>3, <1>6, <1>8 DEF Connection
<1>10. m \in UplinkNgap /\ (c.first => m.type = "initialUE") /\ m.ran = r
  <2>1. c.amf \in 0..MaxIds
    BY <1>3 DEF Connection
  <2> QED BY <1>5, <1>8, <2>1 DEF UplinkNgap
<1>11. /\ conns'[g][r] = d
       /\ \A s \in RanIds : s # r => conns'[g][s] = conns[g][s]
       /\ \A h \in Gnbs : h # g => conns'[h] = conns[h]
  <2>1. \A h \in Gnbs : h # g => conns'[h] = conns[h]
    BY <1>7 DEF ConnBecomes, IInv, TypeOK
  <2> QED BY <1>7, <1>9, <2>1, ConnSet DEF IInv
<1>12. /\ \A M : Has(toAmf'[g], M) <=> Has(toAmf[g], M) \/ m \in M
       /\ \A h \in Gnbs : h # g => toAmf'[h] = toAmf[h]
  <2>1. toAmf[g] \in Seq(UplinkNgap) /\ TypeOK
    BY DEF IInv, TypeOK
  <2>2. /\ Append(toAmf[g], m) \in Seq(UplinkNgap)
        /\ \A M : Has(Append(toAmf[g], m), M) <=> Has(toAmf[g], M) \/ m \in M
    BY <1>10, <2>1, AppendFacts
  <2> QED BY <1>7, <2>1, <2>2, AmfQueueSet
<1>13. \A s, n : SetupFor(g, s, n)' => SetupFor(g, s, n)
  BY <1>2 DEF SetupFor
<1>14. \A s, n, l : AcceptFor(g, s, n, l)' => AcceptFor(g, s, n, l)
  <2>1. \A s \in RanIds : conns'[g][s] # None =>
          conns[g][s] # None /\ conns'[g][s].down = conns[g][s].down
    BY <1>1, <1>2, <1>9, <1>11
  <2> QED BY <1>2, <2>1 DEF AcceptFor
<1>15. ASSUME NEW s \in RanIds, Asking(g, s)' PROVE Asking(g, s)
  <2>1. CASE IsAt(g, s, "wants")'
    <3>1. CASE s = r
      <4>1. d.up # <<>>
        BY <1>11, <2>1, <3>1 DEF IsAt
      <4> QED BY <1>1, <1>2, <1>8, <1>9, <3>1, <4>1 DEF IsAt, Asking
    <3>2. CASE s # r
      BY <1>11, <2>1, <3>2 DEF IsAt, Asking
    <3> QED BY <3>1, <3>2
  <2>2. CASE IsAt(g, s, "requested")'
    <3>1. Has(toAmf[g], Requests(s)) \/ m \in Requests(s)
      BY <1>12, <2>2 DEF IsAt
    <3>2. CASE Has(toAmf[g], Requests(s))
      BY <3>2 DEF IsAt, Asking
    <3>3. CASE m \in Requests(s)
      BY <1>1, <1>2, <1>10, <3>3 DEF IsAt, Asking, Requests
    <3> QED BY <3>1, <3>2, <3>3
  <2> QED BY <1>15, <2>1, <2>2 DEF Asking
<1>16. SetupWaits(g)' => SetupWaits(g)
  BY <1>2 DEF SetupWaits
<1> QED BY <1>2, <1>11, <1>12, <1>13, <1>14, <1>15, <1>16, GnbCalm

LEMMA UeGoneCalm ==
  ASSUME IInv, NEW g \in Gnbs, NEW r \in RanIds, GnbUeGone(g, r)
  PROVE  \A h \in Gnbs : Calm(h)
<1>1. /\ ConnBecomes(g, r, None)
      /\ UNCHANGED <<ue, nextRan, loop, nextDl, tunnels, ueSessions, toAmf, toGnb, contexts>>
  BY DEF GnbUeGone, ueVars, n2, amfVars, ConnBecomes
<1>2. /\ conns'[g][r] = None
      /\ \A s \in RanIds : s # r => conns'[g][s] = conns[g][s]
      /\ \A h \in Gnbs : h # g => conns'[h] = conns[h]
  BY <1>1 DEF ConnBecomes, IInv, TypeOK
<1>3. \A s \in RanIds : conns'[g][s] # None => conns'[g][s] = conns[g][s]
  BY <1>2
<1>4. \A s, n : SetupFor(g, s, n)' => SetupFor(g, s, n)
  BY <1>1 DEF SetupFor
<1>5. \A s, n, l : AcceptFor(g, s, n, l)' => AcceptFor(g, s, n, l)
  BY <1>1, <1>3 DEF AcceptFor
<1>6. \A s \in RanIds : Asking(g, s)' => Asking(g, s)
  BY <1>1, <1>3 DEF Asking, IsAt
<1>7. SetupWaits(g)' => SetupWaits(g)
  BY <1>1 DEF SetupWaits
<1> QED BY <1>1, <1>2, <1>4, <1>5, <1>6, <1>7, GnbCalm

LEMMA DropDownlinkCalm ==
  ASSUME IInv, NEW g \in Gnbs, GnbDropDownlink(g)
  PROVE  \A h \in Gnbs : Calm(h)
<1>1. /\ toGnb[g] # <<>> /\ toGnb' = [toGnb EXCEPT ![g] = Tail(@)]
      /\ UNCHANGED <<ue, nextRan, conns, loop, nextDl, tunnels, ueSessions, toAmf, contexts>>
  BY DEF GnbDropDownlink, Reads, ueVars, gnbVars, amfVars
<1>2. /\ \A h \in Gnbs : h # g => toGnb'[h] = toGnb[h]
      /\ Range(toGnb'[g]) \subseteq Range(toGnb[g])
  BY <1>1, GnbTakes
<1>3. \A s, n : SetupFor(g, s, n)' => SetupFor(g, s, n)
  BY <1>1, <1>2 DEF SetupFor
<1>4. \A s, n, l : AcceptFor(g, s, n, l)' => AcceptFor(g, s, n, l)
  BY <1>1, <1>2 DEF AcceptFor
<1>5. \A s \in RanIds : Asking(g, s)' => Asking(g, s)
  BY <1>1 DEF Asking, IsAt
<1>6. SetupWaits(g)' => SetupWaits(g)
  BY <1>2 DEF SetupWaits
<1> QED BY <1>1, <1>2, <1>3, <1>4, <1>5, <1>6, GnbCalm

LEMMA LoopEndsCalm ==
  ASSUME IInv, NEW g \in Gnbs, loop' = [loop EXCEPT ![g] = Reading],
         UNCHANGED <<ue, nextRan, conns, nextDl, tunnels, ueSessions, toAmf, toGnb, contexts>>
  PROVE  \A h \in Gnbs : Calm(h)
<1>1. loop'[g].pc = "read" /\ \A h \in Gnbs : h # g => loop'[h] = loop[h]
  BY DEF IInv, TypeOK, Reading
<1>2. \A s, n : SetupFor(g, s, n)' => SetupFor(g, s, n)
  BY <1>1 DEF SetupFor
<1>3. \A s, n, l : AcceptFor(g, s, n, l)' => AcceptFor(g, s, n, l)
  BY DEF AcceptFor
<1>4. \A s \in RanIds : Asking(g, s)' => Asking(g, s)
  BY DEF Asking, IsAt
<1>5. SetupWaits(g)' => SetupWaits(g)
  BY DEF SetupWaits
<1> QED BY <1>1, <1>2, <1>3, <1>4, <1>5, GnbCalm

LEMMA RelayDownlinkCalm ==
  ASSUME IInv, NEW g \in Gnbs, GnbRelayDownlink(g)
  PROVE  \A h \in Gnbs : Calm(h)
<1>1. PICK m, r, c : m = Head(toGnb[g]) /\ r = m.ran /\ c = conns[g][r]
  OBVIOUS
<1>2. /\ toGnb[g] # <<>> /\ m.type = "downlinkNAS" /\ c # None
      /\ toGnb' = [toGnb EXCEPT ![g] = Tail(@)]
      /\ UNCHANGED <<ue, nextRan, loop, nextDl, tunnels, ueSessions, toAmf, contexts>>
  BY <1>1 DEF GnbRelayDownlink, Reads, ueVars, amfVars
<1>3. PICK d : d = [c EXCEPT !.amf = m.amf, !.down = IF c.open THEN Append(c.down, m.pdu) ELSE c.down]
  OBVIOUS
<1>4. ConnBecomes(g, r, d)
  BY <1>1, <1>3 DEF GnbRelayDownlink, ConnBecomes
<1>5. /\ m \in DownlinkNgap /\ m \in Range(toGnb[g])
      /\ Range(toGnb'[g]) \subseteq Range(toGnb[g])
      /\ \A h \in Gnbs : h # g => toGnb'[h] = toGnb[h]
  BY <1>1, <1>2, GnbTakes
<1>6. r \in RanIds /\ m.pdu \in DownlinkNas
  BY <1>1, <1>2, <1>5, DownlinkFields
<1>7. c \in Connection /\ c.down \in Seq(DownlinkNas)
  BY <1>1, <1>2, <1>6 DEF IInv, TypeOK, Connection
<1>8. Range(Append(c.down, m.pdu)) = Range(c.down) \cup {m.pdu}
  BY <1>6, <1>7, AppendFacts
<1>9. d.first = c.first /\ d.up = c.up /\ Range(d.down) \subseteq Range(c.down) \cup {m.pdu}
  <2>1. /\ d.first = c.first /\ d.up = c.up
        /\ d.down = IF c.open THEN Append(c.down, m.pdu) ELSE c.down
    BY <1>3, <1>7 DEF Connection
  <2> QED BY <1>8, <2>1
<1>10. /\ conns'[g][r] = d
       /\ \A s \in RanIds : s # r => conns'[g][s] = conns[g][s]
       /\ \A h \in Gnbs : h # g => conns'[h] = conns[h]
  BY <1>4, <1>6 DEF ConnBecomes, IInv, TypeOK
<1>11. \A s, n : SetupFor(g, s, n)' => SetupFor(g, s, n)
  BY <1>2, <1>5 DEF SetupFor
<1>12. ASSUME NEW s, NEW n, NEW l, AcceptFor(g, s, n, l)' PROVE AcceptFor(g, s, n, l)
  <2>1. CASE \E x \in Range(toGnb'[g]) :
               /\ x.type = "downlinkNAS" /\ x.pdu.nas = "pduAccept"
               /\ x.ran = s /\ x.pdu.ip = n /\ x.pdu.dl = l
    BY <1>5, <2>1 DEF AcceptFor
  <2>2. CASE /\ s \in RanIds /\ conns'[g][s] # None
             /\ \E x \in Range(conns'[g][s].down) : x.nas = "pduAccept" /\ x.ip = n /\ x.dl = l
    <3>1. CASE s # r
      BY <1>10, <2>2, <3>1 DEF AcceptFor
    <3>2. CASE s = r
      <4>1. PICK x \in Range(c.down) \cup {m.pdu} : x.nas = "pduAccept" /\ x.ip = n /\ x.dl = l
        BY <1>9, <1>10, <2>2, <3>2
      <4>2. CASE x = m.pdu
        BY <1>1, <1>2, <1>5, <3>2, <4>1, <4>2 DEF AcceptFor
      <4>3. CASE x \in Range(c.down)
        BY <1>1, <1>2, <1>6, <3>2, <4>1, <4>3 DEF AcceptFor
      <4> QED BY <4>1, <4>2, <4>3
    <3> QED BY <3>1, <3>2
  <2>3. CASE \E u \in UEs :
               /\ Home[u] = g /\ ue'[u].ran = s /\ (ue'[u].ip # 0 \/ ue'[u].dl # 0)
               /\ ue'[u].ip = n /\ ue'[u].dl = l
    BY <1>2, <2>3 DEF AcceptFor
  <2> QED BY <1>12, <2>1, <2>2, <2>3 DEF AcceptFor
<1>13. ASSUME NEW s \in RanIds, Asking(g, s)' PROVE Asking(g, s)
  <2>1. conns'[g][s] # None => /\ conns[g][s] # None
                               /\ conns'[g][s].first = conns[g][s].first
                               /\ conns'[g][s].up = conns[g][s].up
    BY <1>1, <1>2, <1>9, <1>10
  <2> QED BY <1>2, <1>13, <2>1 DEF Asking, IsAt
<1>14. SetupWaits(g)' => SetupWaits(g)
  BY <1>5 DEF SetupWaits
<1>15. UNCHANGED <<ue, nextRan, nextDl, tunnels, ueSessions, contexts>>
       /\ \A h \in Gnbs : h # g => /\ conns'[h] = conns[h] /\ loop'[h] = loop[h]
                                   /\ toAmf'[h] = toAmf[h] /\ toGnb'[h] = toGnb[h]
  BY <1>2, <1>5, <1>10
<1> QED BY ONLY g \in Gnbs, <1>11, <1>12, <1>13, <1>14, <1>15, GnbCalm

\* What is left to show of a step that brings nothing new to g.
LEMMA SessionOnly ==
  ASSUME IInv, NEW g \in Gnbs, GnbOK(g), NothingNew(g), SameUes(g), SmfGrows,
         \A l \in 0..MaxIds : l < nextDl[g] => l < nextDl'[g],
         SessionAt(g)'
  PROVE  GnbOK(g)'
<1>1. \A r, n : SetupFor(g, r, n)' => r = SessionRanId /\ n \in DOMAIN smf' /\ Home[smf'[n]] = g
  BY DEF GnbOK, NothingNew, SmfGrows
<1>2. \A r, n, l : AcceptFor(g, r, n, l)' =>
        r = SessionRanId /\ n # 0 /\ l \in 0..MaxIds /\ l < nextDl'[g]
  BY DEF GnbOK, NothingNew
<1>3. \A u \in UEs : Home[u] = g => AloneOK(u)'
  BY UesKept DEF GnbOK
<1> QED BY <1>1, <1>2, <1>3 DEF GnbOK

\* The one resource setup there is gets the first TEID.
LEMMA SetupRequestSession ==
  ASSUME IInv, NEW g \in Gnbs, GnbSetupRequest(g), GnbOK(g), Spent \subseteq Spent'
  PROVE  GnbOK(g)' /\ \A h \in Gnbs : h # g => Calm(h)
<1> USE Bounds
<1>1. PICK m, l : m = Head(toGnb[g]) /\ l = nextDl[g]
  OBVIOUS
<1>2. PICK e : e = [type |-> "setupResponse", amf |-> m.amf, dl |-> l]
  OBVIOUS
<1>3. /\ loop[g].pc = "read" /\ toGnb[g] # <<>> /\ m.type = "setupRequest"
      /\ nextDl' = [nextDl EXCEPT ![g] = @ + 1]
      /\ loop' = [loop EXCEPT ![g] = [pc |-> "open", ran |-> m.ran, ul |-> m.ul, dl |-> l]]
      /\ toGnb' = [toGnb EXCEPT ![g] = Tail(@)]
      /\ toAmf' = [toAmf EXCEPT ![g] = Append(@, e)]
      /\ UNCHANGED <<ue, nextRan, conns, tunnels, ueSessions, contexts, smf>>
  BY <1>1, <1>2 DEF GnbSetupRequest, Reads, ueVars, amfVars
<1>4. /\ m \in DownlinkNgap /\ GnbMessageOK(g, m) /\ m \in Range(toGnb[g])
      /\ toGnb'[g] = Tail(toGnb[g])
      /\ \A h \in Gnbs : h # g => toGnb'[h] = toGnb[h]
      /\ Range(toGnb'[g]) \subseteq Range(toGnb[g])
  BY <1>1, <1>3, GnbTakes
<1>5. m.ran \in RanIds /\ m.amf \in Sessions /\ m.ul \in Sessions
  BY <1>3, <1>4, DownlinkFields
<1>6. KnownId(g, m.amf) /\ l <= m.ul /\ m.ul <= Len(smf)
  BY <1>1, <1>3, <1>4 DEF GnbMessageOK
<1>7. l \in Sessions
  <2>1. Len(smf) \in Nat /\ Len(smf) <= MaxIds
    BY LenProperties DEF IInv, TypeOK
  <2>2. l \in 1..(MaxIds + 1)
    BY <1>1 DEF IInv, TypeOK
  <2> QED BY <1>5, <1>6, <2>1, <2>2 DEF Sessions
<1>8. e \in UplinkNgap /\ e.type = "setupResponse"
  BY <1>2, <1>5, <1>7 DEF UplinkNgap
<1>9. /\ \A M : Has(toAmf'[g], M) <=> Has(toAmf[g], M) \/ e \in M
      /\ \A h \in Gnbs : h # g => toAmf'[h] = toAmf[h]
  <2>1. toAmf[g] \in Seq(UplinkNgap) /\ TypeOK
    BY DEF IInv, TypeOK
  <2>2. /\ Append(toAmf[g], e) \in Seq(UplinkNgap)
        /\ \A M : Has(Append(toAmf[g], e), M) <=> Has(toAmf[g], M) \/ e \in M
    BY <1>8, <2>1, AppendFacts
  <2> QED BY <1>3, <2>1, <2>2, AmfQueueSet
<1>10. /\ nextDl'[g] = l + 1
       /\ \A h \in Gnbs : h # g => nextDl'[h] = nextDl[h]
       /\ \A x \in 0..MaxIds : x < nextDl[g] => x < nextDl'[g]
  <2>1. TypeOK /\ nextDl[g] \in Sessions /\ nextDl' = [nextDl EXCEPT ![g] = @ + 1] /\ g \in Gnbs
    BY <1>1, <1>3, <1>7 DEF IInv
  <2> QED BY ONLY <1>1, <2>1, DlTaken
<1>11. /\ loop'[g].pc = "open" /\ loop'[g].ran = m.ran /\ loop'[g].ul = m.ul
       /\ \A h \in Gnbs : h # g => loop'[h] = loop[h]
  BY <1>3 DEF IInv, TypeOK
<1>12. \A h \in Gnbs : h # g => Calm(h)
  BY <1>3, <1>4, <1>9, <1>10, <1>11, ElsewhereCalm, ContextsSame
<1>13. NothingNew(g)
  <2>1. \A s, n : SetupFor(g, s, n)' => SetupFor(g, s, n)
    BY <1>3, <1>4, <1>11 DEF SetupFor
  <2>2. \A s, n, d : AcceptFor(g, s, n, d)' => AcceptFor(g, s, n, d)
    BY <1>3, <1>4 DEF AcceptFor
  <2>3. SetupWaits(g)' => SetupWaits(g)
    BY <1>4 DEF SetupWaits
  <2> QED BY <2>1, <2>2, <2>3 DEF NothingNew
<1>14. SameUes(g)
  <2>1. \A s : e \notin Requests(s)
    BY <1>8 DEF Requests
  <2>2. \A s \in RanIds : Asking(g, s)' => Asking(g, s)
    BY <1>3, <1>9, <2>1 DEF Asking, IsAt
  <2> QED BY <1>3, <2>2 DEF SameUes
<1>15. SameContexts(g) /\ SmfGrows
  BY <1>3, ContextsSame DEF SmfGrows
<1>16. SessionAt(g)'
  <2> SUFFICES ASSUME nextRan[g] <= 1 PROVE SessionAt(g)'
    BY <1>3 DEF SessionAt
  <2>1. nextDl'[g] = 2
    <3>1. SetupWaits(g)
      BY <1>3, <1>4 DEF SetupWaits
    <3> QED BY <1>1, <1>10, <3>1 DEF GnbOK, SessionAt
  <2>2. \A s, n : SetupFor(g, s, n) => n = contexts[m.amf].session
    BY <1>6 DEF GnbOK, SessionAt, OwnSession
  <2>3. m.ul = contexts[m.amf].session /\ m.ul # 0
    <3>1. SetupFor(g, m.ran, m.ul)
      BY <1>3, <1>4 DEF SetupFor
    <3> QED BY <1>5, <2>2, <3>1 DEF Sessions
  <2>4. ~SetupWaits(g)'
    <3> SUFFICES ASSUME NEW x \in Range(toGnb'[g]), x.type = "setupRequest" PROVE FALSE
      BY DEF SetupWaits
    <3>1. toGnb[g] \in Seq(DownlinkNgap) /\ Ordered(toGnb[g])
      BY DEF IInv, TypeOK, SessionsOK, SetupsInOrder
    <3>2. m.ul < x.ul
      BY <1>1, <1>3, <1>4, <3>1, TailOrdered
    <3>3. SetupFor(g, x.ran, x.ul)
      BY <1>4 DEF SetupFor
    <3>4. x.ul = m.ul
      BY <2>2, <2>3, <3>3
    <3> QED BY <1>5, <3>2, <3>4 DEF Sessions
  <2>5. \E k : KnownId(g, k)' /\ contexts'[k].session # 0
    BY <1>3, <1>6, <2>3 DEF KnownId
  <2>6. SessionRanId \in tunnels'[g] =>
          \E k : /\ KnownId(g, k)'
                 /\ ueSessions'[g][SessionRanId] = [ul |-> contexts'[k].session, dl |-> 1]
    BY <1>3 DEF GnbOK, SessionAt, KnownId
  <2>7. ASSUME NEW k, KnownId(g, k)' PROVE OwnSession(g, k)'
    <3>1. KnownId(g, k) /\ OwnSession(g, k)
      BY <1>3, <2>7 DEF KnownId, GnbOK, SessionAt
    <3> QED BY <1>13, <1>14, <1>15, <3>1, OwnKept DEF NothingNew
  <2>8. SoleAccept(g)'
    <3>1. SetupFor(g, m.ran, m.ul)
      BY <1>3, <1>4 DEF SetupFor
    <3>2. SoleAccept(g)
      BY DEF GnbOK, SessionAt
    <3>3. \A s, n : ~AcceptFor(g, s, n, 0)'
      BY <1>13, <3>1, <3>2 DEF SoleAccept, NothingNew
    <3>4. ueSessions'[g][SessionRanId] # None => SessionRanId \in tunnels'[g]
      BY <1>3, <3>2 DEF SoleAccept
    <3>5. \A s, n, d : AcceptFor(g, s, n, d)' => \E k : KnownId(g, k)'
      BY <2>5
    <3> QED BY <3>3, <3>4, <3>5 DEF SoleAccept
  <2> QED BY <2>1, <2>4, <2>5, <2>6, <2>7, <2>8 DEF SessionAt
<1> QED BY <1>10, <1>12, <1>13, <1>14, <1>15, <1>16, SessionOnly

\* The one resource setup there is goes unanswered.
LEMMA SetupFailsSession ==
  ASSUME IInv, NEW g \in Gnbs, GnbSetupFails(g), GnbOK(g), Spent \subseteq Spent'
  PROVE  GnbOK(g)' /\ \A h \in Gnbs : h # g => Calm(h)
<1> USE Bounds
<1>1. PICK m : m = Head(toGnb[g])
  OBVIOUS
<1>2. /\ Reads(g, "setupRequest") /\ toGnb[g] # <<>> /\ m.type = "setupRequest"
      /\ nextDl' = nextDl \/ nextDl' = [nextDl EXCEPT ![g] = @ + 1]
      /\ toGnb' = [toGnb EXCEPT ![g] = Tail(@)]
      /\ UNCHANGED <<ue, nextRan, conns, loop, tunnels, ueSessions, toAmf, contexts, smf>>
  BY <1>1 DEF GnbSetupFails, Reads, ueVars, amfVars
<1>3. /\ m \in Range(toGnb[g]) /\ toGnb'[g] = Tail(toGnb[g])
      /\ \A h \in Gnbs : h # g => toGnb'[h] = toGnb[h]
      /\ Range(toGnb'[g]) \subseteq Range(toGnb[g])
  BY <1>1, <1>2, GnbTakes
<1>4. /\ m.ul \in Sessions /\ KnownId(g, m.amf) /\ nextDl[g] \in Sessions
      /\ nextDl' = nextDl \/ nextDl'[g] = nextDl[g] + 1
      /\ \A h \in Gnbs : h # g => nextDl'[h] = nextDl[h]
      /\ \A x \in 0..MaxIds : x < nextDl[g] => x < nextDl'[g]
  BY <1>1, <1>2, SetupTaken
<1>5. \A h \in Gnbs : h # g => Calm(h)
  BY <1>2, <1>3, <1>4, ElsewhereCalm, ContextsSame
<1>6. NothingNew(g)
  <2>1. \A s, n : SetupFor(g, s, n)' => SetupFor(g, s, n)
    BY <1>2, <1>3 DEF SetupFor
  <2>2. \A s, n, d : AcceptFor(g, s, n, d)' => AcceptFor(g, s, n, d)
    BY <1>2, <1>3 DEF AcceptFor
  <2>3. SetupWaits(g)' => SetupWaits(g)
    BY <1>3 DEF SetupWaits
  <2> QED BY <2>1, <2>2, <2>3 DEF NothingNew
<1>7. SameUes(g) /\ SameContexts(g) /\ SmfGrows
  BY <1>2, ContextsSame DEF SameUes, Asking, IsAt, SmfGrows
<1>8. SessionAt(g)'
  <2> SUFFICES ASSUME nextRan[g] <= 1 PROVE SessionAt(g)'
    BY <1>2 DEF SessionAt
  <2>1. nextDl[g] = 1 /\ SoleAccept(g) /\ SetupFor(g, m.ran, m.ul)
    <3>1. SetupWaits(g) /\ SetupFor(g, m.ran, m.ul)
      BY <1>2, <1>3 DEF SetupWaits, SetupFor
    <3> QED BY <3>1 DEF GnbOK, SessionAt
  <2>2. \A s, n : SetupFor(g, s, n) => n = contexts[m.amf].session
    BY <1>4 DEF GnbOK, SessionAt, OwnSession
  <2>3. contexts[m.amf].session # 0
    BY <1>4, <2>1, <2>2 DEF Sessions
  <2>4. ~SetupWaits(g)'
    <3> SUFFICES ASSUME NEW x \in Range(toGnb'[g]), x.type = "setupRequest" PROVE FALSE
      BY DEF SetupWaits
    <3>1. toGnb[g] \in Seq(DownlinkNgap) /\ Ordered(toGnb[g])
      BY DEF IInv, TypeOK, SessionsOK, SetupsInOrder
    <3>2. m.ul < x.ul
      BY <1>1, <1>2, <1>3, <3>1, TailOrdered
    <3>3. SetupFor(g, x.ran, x.ul)
      BY <1>3 DEF SetupFor
    <3>4. x.ul = m.ul
      BY <2>1, <2>2, <3>3
    <3> QED BY <1>4, <3>2, <3>4 DEF Sessions
  <2>5. nextDl'[g] # 1 => nextDl'[g] = 2
    BY <1>4, <2>1
  <2>6. \E k : KnownId(g, k)' /\ contexts'[k].session # 0
    BY <1>2, <1>4, <2>3 DEF KnownId
  <2>7. SessionRanId \in tunnels'[g] =>
          \E k : /\ KnownId(g, k)'
                 /\ ueSessions'[g][SessionRanId] = [ul |-> contexts'[k].session, dl |-> 1]
    BY <1>2 DEF GnbOK, SessionAt, KnownId
  <2>8. ASSUME NEW k, KnownId(g, k)' PROVE OwnSession(g, k)'
    <3>1. KnownId(g, k) /\ OwnSession(g, k)
      BY <1>2, <2>8 DEF KnownId, GnbOK, SessionAt
    <3> QED BY <1>6, <1>7, <3>1, OwnKept DEF NothingNew
  <2>9. SoleAccept(g)'
    <3>1. \A s, n : ~AcceptFor(g, s, n, 0)'
      BY <1>6, <2>1 DEF SoleAccept, NothingNew
    <3>2. ueSessions'[g][SessionRanId] # None => SessionRanId \in tunnels'[g]
      BY <1>2, <2>1 DEF SoleAccept
    <3> QED BY <2>6, <3>1, <3>2 DEF SoleAccept
  <2> QED BY <2>4, <2>5, <2>6, <2>7, <2>8, <2>9 DEF SessionAt
<1> QED BY <1>4, <1>5, <1>6, <1>7, <1>8, SessionOnly

\* The tunnel that is opened is the first one, between the session's two TEIDs.
LEMMA OpenTunnelSession ==
  ASSUME IInv, NEW g \in Gnbs, GnbOpenTunnel(g), GnbOK(g), Spent \subseteq Spent'
  PROVE  GnbOK(g)' /\ \A h \in Gnbs : h # g => Calm(h)
<1>1. PICK s : s = loop[g]
  OBVIOUS
<1>2. /\ s.pc = "open"
      /\ tunnels' = [tunnels EXCEPT ![g] = @ \cup {s.dl}]
      /\ ueSessions' = [ueSessions EXCEPT ![g][s.ran] = [ul |-> s.ul, dl |-> s.dl]]
      /\ loop' = [loop EXCEPT ![g].pc = "notify"]
      /\ UNCHANGED <<ue, nextRan, conns, nextDl, toAmf, toGnb, contexts, smf>>
  BY <1>1 DEF GnbOpenTunnel, ueVars, n2, amfVars
<1>3. s.ran \in RanIds /\ s.ul \in Sessions /\ s.dl \in Sessions /\ s.dl < nextDl[g]
  BY <1>1, <1>2 DEF IInv, SessionsOK, TunnelsOK
<1>4. SetupFor(g, s.ran, s.ul)
  BY <1>1, <1>2 DEF SetupFor
<1>5. /\ tunnels'[g] = tunnels[g] \cup {s.dl}
      /\ ueSessions'[g][s.ran] = [ul |-> s.ul, dl |-> s.dl]
      /\ loop'[g].pc = "notify" /\ loop'[g].ran = s.ran /\ loop'[g].ul = s.ul
      /\ \A h \in Gnbs : h # g => /\ tunnels'[h] = tunnels[h]
                                  /\ ueSessions'[h] = ueSessions[h]
                                  /\ loop'[h] = loop[h]
  <2>1. tunnels'[g] = tunnels[g] \cup {s.dl} /\ \A h \in Gnbs : h # g => tunnels'[h] = tunnels[h]
    BY <1>2 DEF IInv, TypeOK
  <2>2. /\ ueSessions'[g][s.ran] = [ul |-> s.ul, dl |-> s.dl]
        /\ \A h \in Gnbs : h # g => ueSessions'[h] = ueSessions[h]
    BY <1>2, <1>3 DEF IInv, TypeOK
  <2>3. /\ loop'[g].pc = "notify" /\ loop'[g].ran = s.ran /\ loop'[g].ul = s.ul
        /\ \A h \in Gnbs : h # g => loop'[h] = loop[h]
    BY <1>1, <1>2 DEF IInv, TypeOK
  <2> QED BY <2>1, <2>2, <2>3
<1>6. \A h \in Gnbs : h # g => Calm(h)
  BY <1>2, <1>5, ElsewhereCalm, ContextsSame
<1>7. NothingNew(g)
  <2>1. \A r, n : SetupFor(g, r, n)' => SetupFor(g, r, n)
    BY <1>1, <1>2, <1>5 DEF SetupFor
  <2>2. \A r, n, d : AcceptFor(g, r, n, d)' => AcceptFor(g, r, n, d)
    BY <1>2 DEF AcceptFor
  <2> QED BY <1>2, <2>1, <2>2 DEF NothingNew, SetupWaits
<1>8. SameUes(g) /\ SameContexts(g) /\ SmfGrows
  BY <1>2, ContextsSame DEF SameUes, Asking, IsAt, SmfGrows
<1>9. SessionAt(g)'
  <2> SUFFICES ASSUME nextRan[g] <= 1 PROVE SessionAt(g)'
    BY <1>2 DEF SessionAt
  <2>1. nextDl[g] # 1
    BY <1>3 DEF Sessions
  <2>2. /\ nextDl[g] = 2 /\ ~SetupWaits(g)
        /\ \E k : KnownId(g, k) /\ contexts[k].session # 0
        /\ \A k : KnownId(g, k) => OwnSession(g, k)
    BY <2>1 DEF GnbOK, SessionAt
  <2>3. s.dl = 1 /\ s.ran = SessionRanId
    BY <1>3, <1>4, <2>2 DEF Sessions, GnbOK
  <2>4. PICK k : KnownId(g, k) /\ contexts[k].session # 0
    BY <2>2
  <2>5. s.ul = contexts[k].session
    BY <1>4, <2>2, <2>4 DEF OwnSession
  <2>6. KnownId(g, k)' /\ ueSessions'[g][SessionRanId] = [ul |-> contexts'[k].session, dl |-> 1]
    BY <1>2, <1>5, <2>3, <2>4, <2>5 DEF KnownId
  <2>7. nextDl'[g] = 2 /\ ~SetupWaits(g)' /\ contexts'[k].session # 0
    BY <1>2, <2>2, <2>4 DEF SetupWaits
  <2>8. ASSUME NEW j, KnownId(g, j)' PROVE OwnSession(g, j)'
    <3>1. KnownId(g, j) /\ OwnSession(g, j)
      BY <1>2, <2>2, <2>8 DEF KnownId
    <3> QED BY <1>7, <1>8, <3>1, OwnKept DEF NothingNew
  <2>9. SoleAccept(g)'
    <3>1. \A r, n : ~AcceptFor(g, r, n, 0)'
      BY <1>4, <1>7 DEF GnbOK, SessionAt, SoleAccept, NothingNew
    <3>2. SessionRanId \in tunnels'[g]
      BY <1>5, <2>3 DEF SessionRanId
    <3> QED BY <2>6, <3>1, <3>2 DEF SoleAccept
  <2> QED BY <2>6, <2>7, <2>8, <2>9 DEF SessionAt
<1> QED BY <1>2, <1>6, <1>7, <1>8, <1>9, SessionOnly

----------------------------------------------------------------------------
(* The session and the AMF's turns.                                        *)

LEMMA AmfElsewhere ==
  ASSUME IInv, NEW g \in Gnbs, NEW out, AmfTurn(g, out),
         \A h \in Gnbs : h # g => SameContexts(h)
  PROVE  \A h \in Gnbs : h # g => Calm(h)
<1>1. \A h \in Gnbs : h # g => toAmf'[h] = toAmf[h] /\ toGnb'[h] = toGnb[h]
  BY DEF AmfTurn, IInv, TypeOK
<1>2. UNCHANGED <<ue, nextRan, conns, loop, nextDl, tunnels, ueSessions>>
  BY DEF AmfTurn, ueVars, gnbVars
<1> QED BY <1>1, <1>2, ElsewhereCalm

\* What a turn of the AMF leaves of the UEs and tunnels of its gNB.
LEMMA AmfTurnUes ==
  ASSUME IInv, NEW g \in Gnbs, toAmf[g] # <<>>, NEW E, NEW out, Sends(E, out), AmfTurn(g, out)
  PROVE  /\ SameUes(g) /\ SameTunnels(g)
         /\ \A r, n : SetupFor(g, r, n)' =>
              \/ SetupFor(g, r, n)
              \/ \E e \in E : e.type = "setupRequest" /\ e.ran = r /\ e.ul = n
         /\ \A r, n, d : AcceptFor(g, r, n, d)' =>
              \/ AcceptFor(g, r, n, d)
              \/ \E e \in E : /\ e.type = "downlinkNAS" /\ e.pdu.nas = "pduAccept"
                              /\ e.ran = r /\ e.pdu.ip = n /\ e.pdu.dl = d
         /\ SetupWaits(g)' => SetupWaits(g) \/ \E e \in E : e.type = "setupRequest"
<1>1. /\ \A M : Has(toAmf'[g], M) => Has(toAmf[g], M)
      /\ Range(toGnb'[g]) = Range(toGnb[g]) \cup E
  BY AmfTurnFacts
<1>2. UNCHANGED <<ue, nextRan, conns, loop, nextDl, tunnels, ueSessions>>
  BY DEF AmfTurn, ueVars, gnbVars
<1>3. SameUes(g)
  <2>1. \A r \in RanIds : Asking(g, r)' => Asking(g, r)
    BY <1>1, <1>2 DEF Asking, IsAt
  <2> QED BY <1>2, <2>1 DEF SameUes
<1>4. SameTunnels(g)
  BY <1>2 DEF SameTunnels
<1>5. ASSUME NEW r, NEW n, SetupFor(g, r, n)'
      PROVE  \/ SetupFor(g, r, n)
             \/ \E e \in E : e.type = "setupRequest" /\ e.ran = r /\ e.ul = n
  BY <1>1, <1>2, <1>5 DEF SetupFor
<1>6. ASSUME NEW r, NEW n, NEW d, AcceptFor(g, r, n, d)'
      PROVE  \/ AcceptFor(g, r, n, d)
             \/ \E e \in E : /\ e.type = "downlinkNAS" /\ e.pdu.nas = "pduAccept"
                             /\ e.ran = r /\ e.pdu.ip = n /\ e.pdu.dl = d
  BY <1>1, <1>2, <1>6 DEF AcceptFor
<1>7. SetupWaits(g)' => SetupWaits(g) \/ \E e \in E : e.type = "setupRequest"
  BY <1>1 DEF SetupWaits
<1> QED BY <1>3, <1>4, <1>5, <1>6, <1>7

\* A turn that sends no session message.
LEMMA AmfCalm ==
  ASSUME IInv, NEW g \in Gnbs, toAmf[g] # <<>>, NEW E, NEW out, Sends(E, out), AmfTurn(g, out),
         \A h \in Gnbs : SameContexts(h),
         \A e \in E : e.type = "downlinkNAS" /\ e.pdu.nas # "pduAccept"
  PROVE  \A h \in Gnbs : Calm(h)
<1>1. \A h \in Gnbs : h # g => Calm(h)
  BY AmfElsewhere
<1>2. SameUes(g) /\ SameTunnels(g) /\ NothingNew(g)
  BY AmfTurnUes DEF NothingNew
<1> QED BY <1>1, <1>2 DEF Calm

LEMMA RejectCalm ==
  ASSUME IInv, NEW g \in Gnbs, AmfReject(g)
  PROVE  \A h \in Gnbs : Calm(h)
<1>1. PICK m, e : m = Head(toAmf[g]) /\ e = DownlinkNAS(0, m.ran, [nas |-> "regReject"])
  OBVIOUS
<1>2. /\ toAmf[g] # <<>> /\ m.type = "initialUE" /\ AmfTurn(g, <<e>>) /\ contexts' = contexts
  BY <1>1 DEF AmfReject, AmfMessage, amfVars
<1>3. m \in UplinkNgap
  BY <1>1, <1>2, TailFacts DEF IInv, TypeOK
<1>4. m.ran \in RanIds
  BY <1>2, <1>3, UplinkFields
<1>5. e \in DownlinkNgap /\ e.type = "downlinkNAS" /\ e.pdu = [nas |-> "regReject"]
  <2>1. [nas |-> "regReject"] \in DownlinkNas /\ 0 \in 0..MaxIds
    BY Bounds DEF DownlinkNas
  <2> QED BY <1>1, <1>4, <2>1 DEF DownlinkNAS, DownlinkNgap
<1>6. Sends({e}, <<e>>)
  BY <1>5 DEF Sends
<1> QED BY <1>2, <1>5, <1>6, AmfCalm, ContextsSame

LEMMA CompleteCalm ==
  ASSUME IInv, NEW g \in Gnbs, AmfComplete(g)
  PROVE  \A h \in Gnbs : Calm(h)
<1>1. PICK k : k = Head(toAmf[g]).amf
  OBVIOUS
<1>2. /\ toAmf[g] # <<>> /\ k \in DOMAIN contexts
      /\ contexts' = [contexts EXCEPT ![k].state = "registered"]
      /\ AmfTurn(g, <<>>)
  BY <1>1, UplinkFacts DEF AmfComplete
<1>3. contexts[k] \in Context
  BY <1>2, ContextTyped DEF IInv
<1>4. PICK c : c = [contexts[k] EXCEPT !.state = "registered"]
  OBVIOUS
<1>5. /\ c.gnb = contexts[k].gnb /\ c.supi = contexts[k].supi
      /\ c.session = contexts[k].session /\ c.pending = contexts[k].pending
  BY <1>3, <1>4 DEF Context
<1>6. contexts' = [contexts EXCEPT ![k] = c]
  BY <1>2, <1>4
<1>7. \A h \in Gnbs : SameContexts(h)
  BY <1>2, <1>5, <1>6 DEF SameContexts, KnownId
<1>8. Sends({}, <<>>)
  BY DEF Sends
<1> QED BY <1>2, <1>7, <1>8, AmfCalm

LEMMA PduRejectCalm ==
  ASSUME IInv, NEW g \in Gnbs, AmfPduRefused(g) \/ AmfPduLost(g)
  PROVE  \A h \in Gnbs : Calm(h)
<1>1. PICK k \in Candidates(g) : AmfTurn(g, <<PduReject(k)>>)
  BY DEF AmfPduRefused, AmfPduLost
<1>2. toAmf[g] # <<>> /\ contexts' = contexts
  BY UplinkFacts DEF AmfPduRefused, AmfPduLost, amfVars
<1>3. Sends({PduReject(k)}, <<PduReject(k)>>) /\ PduReject(k).type = "downlinkNAS"
  BY <1>2, PduRejectSent
<1>4. PduReject(k).pdu.nas = "pduReject"
  BY DEF PduReject, DownlinkNAS
<1> QED BY <1>1, <1>2, <1>3, <1>4, AmfCalm, ContextsSame

\* A gNB that no UE has come back to gets its one context, and has no session yet.
LEMMA AcceptSession ==
  ASSUME IInv, NEW g \in Gnbs, AmfAccept(g), GnbOK(g)
  PROVE  GnbOK(g)' /\ \A h \in Gnbs : h # g => Calm(h)
<1>1. PICK m, k, r, c, e :
        /\ m = Head(toAmf[g]) /\ k = Len(contexts) + 1 /\ r = m.ran
        /\ c = [supi |-> m.pdu.supi, gnb |-> g, ran |-> m.ran,
                state |-> "registering", session |-> 0, pending |-> 0]
        /\ e = DownlinkNAS(k, m.ran, [nas |-> "regAccept", guti |-> k])
  OBVIOUS
<1>2. /\ toAmf[g] # <<>> /\ m.type = "initialUE" /\ m.pdu.nas = "regRequest"
      /\ contexts' = Append(contexts, c) /\ AmfTurn(g, <<e>>) /\ smf' = smf
  BY <1>1 DEF AmfAccept, AmfMessage
<1>3. m \in UplinkNgap /\ m \in Range(toAmf[g]) /\ AmfMessageOK(g, m)
  <2>1. toAmf[g] \in Seq(UplinkNgap)
    BY DEF IInv, TypeOK
  <2> QED BY <1>1, <1>2, <2>1, TailFacts DEF IInv, MessagesOK
<1>4. r \in RanIds /\ m.pdu \in UplinkNas /\ m.pdu.supi \in UEs
  BY <1>1, <1>2, <1>3, UplinkFields, UplinkNasFields
<1>5. ~Known(g, r) /\ r <= nextRan[g]
  <2>1. m \in Initials(r) /\ IsAt(g, r, "initial")
    BY <1>1, <1>2, <1>3 DEF Initials, IsAt, Has
  <2>2. OnePlace(g, r)
    BY <1>4 DEF IInv, PlacesOK
  <2> QED BY <1>1, <1>2, <1>3, <2>1, <2>2 DEF OnePlace, AmfMessageOK
<1>6. Len(contexts) \in Nat /\ k \in Sessions /\ DOMAIN contexts = 1..Len(contexts)
  <2>1. Len(contexts) < MaxIds
    BY <1>4, <1>5, RoomForContext DEF IInv
  <2> QED BY <1>1, <2>1, LenProperties, Bounds DEF IInv, TypeOK, Sessions
<1>7. c \in Context /\ c.gnb = g /\ c.session = 0 /\ c.pending = 0
  BY <1>1, <1>4, Bounds DEF Context
<1>8. /\ DOMAIN contexts' = DOMAIN contexts \cup {k} /\ k \notin DOMAIN contexts
      /\ contexts'[k] = c
      /\ \A j \in DOMAIN contexts : contexts'[j] = contexts[j]
  <2>1. contexts \in Seq(Context)
    BY DEF IInv, TypeOK
  <2>2. /\ contexts' \in Seq(Context) /\ Len(contexts') = Len(contexts) + 1
        /\ \A j \in 1..Len(contexts) : contexts'[j] = contexts[j]
        /\ contexts'[Len(contexts) + 1] = c
    BY <1>2, <1>7, <2>1, AppendProperties
  <2>3. DOMAIN contexts' = 1..(Len(contexts) + 1)
    BY <2>2, LenProperties
  <2> QED BY <1>1, <1>6, <2>2, <2>3
<1>9. e \in DownlinkNgap /\ e.type = "downlinkNAS" /\ e.pdu = [nas |-> "regAccept", guti |-> k]
  <2>1. k \in 0..MaxIds
    BY <1>6 DEF Sessions
  <2> QED BY <1>1, <1>4, <1>6, <2>1, MessagesMade DEF DownlinkNAS
<1>10. Sends({e}, <<e>>)
  BY <1>9 DEF Sends
<1>11. \A h \in Gnbs : h # g => Calm(h)
  <2>1. \A h \in Gnbs : h # g => SameContexts(h)
    BY <1>7, <1>8 DEF SameContexts, KnownId
  <2> QED BY <1>2, <2>1, AmfElsewhere
<1>12. SameUes(g) /\ SameTunnels(g) /\ NothingNew(g) /\ SmfGrows
  <2>1. \A x \in {e} : x.type = "downlinkNAS" /\ x.pdu.nas = "regAccept"
    BY <1>9
  <2> QED BY <1>2, <1>10, <2>1, AmfTurnUes DEF NothingNew, SmfGrows
<1>13. SessionAt(g)'
  <2> SUFFICES ASSUME nextRan[g] <= 1 PROVE SessionAt(g)'
    BY <1>12 DEF SessionAt, SameUes
  <2>1. r = SessionRanId
    <3>1. nextRan[g] \in Nat /\ r \in Nat /\ r >= 1
      BY <1>4, Bounds DEF IInv, TypeOK, RanIds
    <3> QED BY <1>5, <3>1 DEF SessionRanId
  <2>2. \A j : ~KnownId(g, j)
    BY <1>5, <2>1, SoleContext DEF Known, KnownId
  <2>3. /\ nextDl[g] = 1 /\ SessionRanId \notin tunnels[g]
        /\ ueSessions[g][SessionRanId] = None
        /\ \A s, n : ~SetupFor(g, s, n)
        /\ \A s, n, d : ~AcceptFor(g, s, n, d)
    BY <2>2, NoSession
  <2>4. nextDl'[g] = 1 /\ SessionRanId \notin tunnels'[g]
    BY <1>12, <2>3 DEF SameTunnels
  <2>5. (\A s, n : ~SetupFor(g, s, n)') /\ (\A s, n, d : ~AcceptFor(g, s, n, d)')
    BY <1>12, <2>3 DEF NothingNew
  <2>6. ASSUME NEW j, KnownId(g, j)' PROVE OwnSession(g, j)'
    <3>1. contexts'[j].session = 0 /\ contexts'[j].pending = 0
      BY <1>7, <1>8, <2>2, <2>6 DEF KnownId
    <3> QED BY <2>5, <3>1 DEF OwnSession
  <2>7. SoleAccept(g)'
    BY <1>12, <2>3, <2>5 DEF SoleAccept, SameTunnels
  <2> QED BY <2>4, <2>6, <2>7 DEF SessionAt
<1> QED BY <1>11, <1>12, <1>13, SessionOnly DEF SameTunnels

LEMMA SmfAppended ==
  ASSUME IInv, NEW x \in UEs, smf' = Append(smf, x)
  PROVE  /\ SmfGrows
         /\ Len(smf) + 1 \in DOMAIN smf' /\ smf'[Len(smf) + 1] = x /\ Len(smf) + 1 # 0
<1>1. smf \in Seq(UEs)
  BY DEF IInv, TypeOK
<1>2. /\ smf' \in Seq(UEs) /\ Len(smf') = Len(smf) + 1 /\ smf'[Len(smf) + 1] = x
      /\ \A i \in 1..Len(smf) : smf'[i] = smf[i]
  BY <1>1, AppendProperties
<1>3. DOMAIN smf = 1..Len(smf) /\ DOMAIN smf' = 1..Len(smf') /\ Len(smf) \in Nat
  BY <1>1, <1>2, LenProperties
<1>4. \A n \in DOMAIN smf : n \in DOMAIN smf' /\ smf'[n] = smf[n]
  BY <1>2, <1>3
<1> QED BY <1>2, <1>3, <1>4 DEF SmfGrows

\* The one request of a gNB that no UE has come back to makes its first session.
LEMMA PduCreatedSession ==
  ASSUME OneUePerGnb, IInv, NEW g \in Gnbs, AmfPduCreated(g), GnbOK(g)
  PROVE  SmfGrows /\ GnbOK(g)' /\ \A h \in Gnbs : h # g => Calm(h)
<1>1. PICK n : n = Len(smf) + 1
  OBVIOUS
<1>2. PICK k \in Candidates(g) :
        /\ smf' = Append(smf, contexts[k].supi)
        /\ contexts' = [contexts EXCEPT ![k].session = n, ![k].pending = n]
        /\ AmfTurn(g, <<[type |-> "setupRequest", amf |-> k, ran |-> SessionRanId, ul |-> n]>>)
  BY <1>1 DEF AmfPduCreated
<1>3. PICK e : e = [type |-> "setupRequest", amf |-> k, ran |-> SessionRanId, ul |-> n]
  OBVIOUS
<1>4. toAmf[g] # <<>> /\ AmfUplink(g, "pduRequest")
  BY UplinkFacts DEF AmfPduCreated
<1>5. PICK r \in RanIds : Head(toAmf[g]) \in Requests(r)
  BY <1>4, UplinkFacts
<1>6. k \in DOMAIN contexts /\ KnownId(g, k) /\ contexts[k] \in Context /\ k \in Sessions
  BY ContextTyped DEF IInv, Candidates, KnownId
<1>7. contexts[k].supi \in UEs /\ Home[contexts[k].supi] = g
  BY <1>6 DEF Context, IInv, ContextOK, KnownId
<1>8. SmfGrows /\ n \in DOMAIN smf' /\ smf'[n] = contexts[k].supi /\ n # 0
  BY <1>1, <1>2, <1>7, SmfAppended
<1>9. n \in Sessions
  <2>1. smf' \in Seq(UEs) /\ Len(smf') <= MaxIds /\ Len(smf') = n
    <3>1. IInv'
      BY PduCreatedKeeps
    <3>2. smf \in Seq(UEs)
      BY DEF IInv, TypeOK
    <3>3. Len(smf') = Len(smf) + 1
      BY ONLY <1>2, <1>7, <3>2, AppendProperties
    <3> QED BY <1>1, <3>1, <3>3 DEF IInv, TypeOK
  <2>2. n \in Nat /\ n # 0
    BY <1>8, <2>1, LenProperties
  <2> QED BY <2>1, <2>2, Bounds DEF Sessions
<1>10. /\ e \in DownlinkNgap /\ e.type = "setupRequest" /\ e.amf = k /\ e.ul = n
       /\ e.ran = SessionRanId
  BY <1>3, <1>6, <1>9, Bounds DEF DownlinkNgap
<1>11. Sends({e}, <<e>>) /\ AmfTurn(g, <<e>>) /\ \A s : {e} \cap Answers(s) = {}
  BY <1>2, <1>3, <1>10 DEF Sends, Answers
<1>12. PICK c : c = [contexts[k] EXCEPT !.session = n, !.pending = n]
  OBVIOUS
<1>13. c.supi = contexts[k].supi /\ c.gnb = g /\ c.session = n /\ c.pending = n
  BY <1>6, <1>12 DEF Context, KnownId
<1>14. /\ contexts'[k] = c /\ DOMAIN contexts' = DOMAIN contexts
       /\ \A j \in DOMAIN contexts : j # k => contexts'[j] = contexts[j]
  BY <1>2, <1>6, <1>12
<1>15. \A h \in Gnbs : h # g => Calm(h)
  <2>1. \A h \in Gnbs : h # g => SameContexts(h)
    BY <1>6, <1>13, <1>14 DEF SameContexts, KnownId
  <2> QED BY <1>11, <2>1, AmfElsewhere
<1>16. /\ SameUes(g) /\ SameTunnels(g)
       /\ \A s, i : SetupFor(g, s, i)' => SetupFor(g, s, i) \/ (s = SessionRanId /\ i = n)
       /\ \A s, i, d : AcceptFor(g, s, i, d)' => AcceptFor(g, s, i, d)
  <2>1. \A x \in {e} : x.type = "setupRequest" /\ x.ran = SessionRanId /\ x.ul = n
    BY <1>10
  <2> QED BY <1>4, <1>11, <2>1, AmfTurnUes
<1>17. \A s, i : SetupFor(g, s, i)' => s = SessionRanId /\ i \in DOMAIN smf' /\ Home[smf'[i]] = g
  <2>1. \A s, i : SetupFor(g, s, i) => s = SessionRanId /\ i \in DOMAIN smf' /\ Home[smf'[i]] = g
    BY <1>8 DEF GnbOK, SmfGrows
  <2> QED BY <1>7, <1>8, <1>16, <2>1
<1>18. \A s, i, d : AcceptFor(g, s, i, d)' =>
         s = SessionRanId /\ i # 0 /\ d \in 0..MaxIds /\ d < nextDl'[g]
  BY <1>16 DEF GnbOK, SameTunnels
<1>19. \A u \in UEs : Home[u] = g => AloneOK(u)'
  BY <1>16, UesKept DEF GnbOK
<1>20. SessionAt(g)'
  <2> SUFFICES ASSUME nextRan[g] <= 1 PROVE SessionAt(g)'
    BY <1>16 DEF SessionAt, SameUes
  <2>1. r = SessionRanId
    <3>1. Head(toAmf[g]) \in Range(toAmf[g])
      BY <1>4, TailFacts DEF IInv, TypeOK
    <3>2. Known(g, r)
      BY <1>5, <3>1 DEF IInv, MessagesOK, AmfMessageOK, Requests
    <3> QED BY <3>2, SoleContext DEF Known, KnownId
  <2>2. <<g, SessionRanId>> \in Spent' /\ <<g, SessionRanId>> \notin Spent
    BY <1>4, <1>5, <1>11, <2>1, RequestSpent
  <2>3. \A j : KnownId(g, j) => contexts[j].session = 0
    BY <2>2 DEF GnbOK, SessionAt, OwnSession
  <2>4. /\ nextDl[g] = 1 /\ SessionRanId \notin tunnels[g]
        /\ ueSessions[g][SessionRanId] = None
        /\ \A s, i : ~SetupFor(g, s, i)
        /\ \A s, i, d : ~AcceptFor(g, s, i, d)
    BY <2>3, NoSession
  <2>5. ASSUME NEW u \in UEs, Home[u] = g, ue'[u].phase # "off" PROVE ue'[u].guti # 0
    <3>1. UNCHANGED ue
      BY <1>11 DEF AmfTurn, ueVars
    <3>2. ue[u].ran \in RanIds /\ ue[u].ran = nextRan[g]
      BY <2>5, <3>1 DEF IInv, UeOK, GnbOK, AloneOK
    <3>3. ue[u].ran = SessionRanId
      BY <3>2, Bounds DEF RanIds, SessionRanId
    <3>4. Asking(g, SessionRanId)
      <4>1. Head(toAmf[g]) \in Range(toAmf[g])
        BY <1>4, TailFacts DEF IInv, TypeOK
      <4> QED BY <1>5, <2>1, <4>1 DEF Asking, IsAt, Has
    <3> QED BY <2>5, <3>1, <3>3, <3>4 DEF GnbOK, AloneOK
  <2>6. OwnSession(g, k)'
    <3>1. contexts'[k].session = n /\ contexts'[k].pending = n /\ contexts'[k].supi = contexts[k].supi
      BY <1>13, <1>14
    <3>2. (\A s, i : SetupFor(g, s, i)' => i = n) /\ (\A s, i, d : ~AcceptFor(g, s, i, d)')
      BY <1>16, <2>4
    <3> QED BY <1>8, <2>2, <2>5, <3>1, <3>2 DEF OwnSession
  <2>7. ASSUME NEW j, KnownId(g, j)' PROVE j = k
    <3>1. KnownId(g, j)
      BY <1>6, <1>14, <2>7 DEF KnownId
    <3> QED BY <1>6, <3>1, SoleContext
  <2>8. nextDl'[g] = 1 /\ SessionRanId \notin tunnels'[g]
    BY <1>16, <2>4 DEF SameTunnels
  <2>9. SoleAccept(g)'
    BY <1>16, <2>4 DEF SoleAccept, SameTunnels
  <2> QED BY <2>6, <2>7, <2>8, <2>9 DEF SessionAt
<1>21. GnbOK(g)'
  BY <1>17, <1>18, <1>19, <1>20 DEF GnbOK
<1> QED BY <1>8, <1>15, <1>21

\* The same, and the session is the AMF's and the UE's alone.
LEMMA PduDirectSession ==
  ASSUME OneUePerGnb, IInv, NEW g \in Gnbs, AmfPduDirect(g), GnbOK(g)
  PROVE  SmfGrows /\ GnbOK(g)' /\ \A h \in Gnbs : h # g => Calm(h)
<1>1. PICK n : n = Len(smf) + 1
  OBVIOUS
<1>2. PICK pdu : pdu = [nas |-> "pduAccept", ip |-> n, dl |-> 0]
  OBVIOUS
<1>3. PICK k \in Candidates(g) :
        /\ smf' = Append(smf, contexts[k].supi)
        /\ contexts' = [contexts EXCEPT ![k].session = n, ![k].pending = 0]
        /\ AmfTurn(g, <<DownlinkNAS(k, SessionRanId, pdu)>>)
  BY <1>1, <1>2 DEF AmfPduDirect
<1>4. PICK e : e = DownlinkNAS(k, SessionRanId, pdu)
  OBVIOUS
<1>5. toAmf[g] # <<>>
  BY UplinkFacts DEF AmfPduDirect
<1>6. PICK r \in RanIds : Head(toAmf[g]) \in Requests(r)
  BY UplinkFacts DEF AmfPduDirect
<1>7. k \in DOMAIN contexts /\ KnownId(g, k) /\ contexts[k] \in Context /\ k \in Sessions
  BY ContextTyped DEF IInv, Candidates, KnownId
<1>8. contexts[k].supi \in UEs
  BY <1>7 DEF Context
<1>9. SmfGrows /\ n \in DOMAIN smf' /\ smf'[n] = contexts[k].supi /\ n # 0
  BY <1>1, <1>3, <1>8, SmfAppended
<1>10. n \in Sessions
  BY <1>1, <1>5, <1>6, SessionLeft
<1>11. /\ e \in DownlinkNgap /\ e.type = "downlinkNAS" /\ e.ran = SessionRanId
       /\ e.pdu = pdu /\ pdu.nas = "pduAccept" /\ pdu.ip = n /\ pdu.dl = 0
  <2>1. pdu \in DownlinkNas
    BY <1>2, <1>10, Bounds DEF DownlinkNas
  <2>2. k \in 0..MaxIds
    BY <1>7, Bounds DEF Sessions
  <2> QED BY <1>2, <1>4, <2>1, <2>2, Bounds DEF DownlinkNAS, DownlinkNgap
<1>12. Sends({e}, <<e>>) /\ AmfTurn(g, <<e>>) /\ \A s : {e} \cap Answers(s) = {}
  BY <1>3, <1>4, <1>11 DEF Sends, Answers
<1>13. PICK c : c = [contexts[k] EXCEPT !.session = n, !.pending = 0]
  OBVIOUS
<1>14. c.supi = contexts[k].supi /\ c.gnb = g /\ c.session = n /\ c.pending = 0
  BY <1>7, <1>13 DEF Context, KnownId
<1>15. /\ contexts'[k] = c /\ DOMAIN contexts' = DOMAIN contexts
       /\ \A j \in DOMAIN contexts : j # k => contexts'[j] = contexts[j]
  BY <1>3, <1>7, <1>13
<1>16. \A h \in Gnbs : h # g => Calm(h)
  <2>1. \A h \in Gnbs : h # g => SameContexts(h)
    BY <1>7, <1>14, <1>15 DEF SameContexts, KnownId
  <2> QED BY <1>12, <2>1, AmfElsewhere
<1>17. /\ SameUes(g) /\ SameTunnels(g)
       /\ \A s, i : SetupFor(g, s, i)' => SetupFor(g, s, i)
       /\ \A s, i, d : AcceptFor(g, s, i, d)' =>
            AcceptFor(g, s, i, d) \/ (s = SessionRanId /\ i = n /\ d = 0)
  <2>1. \A x \in {e} : /\ x.type = "downlinkNAS" /\ x.ran = SessionRanId
                       /\ x.pdu.ip = n /\ x.pdu.dl = 0
    BY <1>11
  <2> QED BY <1>5, <1>12, <2>1, AmfTurnUes
<1>18. \A s, i : SetupFor(g, s, i)' => s = SessionRanId /\ i \in DOMAIN smf' /\ Home[smf'[i]] = g
  BY <1>9, <1>17 DEF GnbOK, SmfGrows
<1>19. \A s, i, d : AcceptFor(g, s, i, d)' =>
         s = SessionRanId /\ i # 0 /\ d \in 0..MaxIds /\ d < nextDl'[g]
  <2>1. 0 \in 0..MaxIds /\ 0 < nextDl[g]
    BY Bounds DEF IInv, TypeOK
  <2> QED BY <1>9, <1>17, <2>1 DEF GnbOK, SameTunnels
<1>20. \A u \in UEs : Home[u] = g => AloneOK(u)'
  BY <1>17, UesKept DEF GnbOK
<1>21. SessionAt(g)'
  <2> SUFFICES ASSUME nextRan[g] <= 1 PROVE SessionAt(g)'
    BY <1>17 DEF SessionAt, SameUes
  <2>1. Head(toAmf[g]) \in Range(toAmf[g])
    BY <1>5, TailFacts DEF IInv, TypeOK
  <2>2. r = SessionRanId
    <3>1. Known(g, r)
      BY <1>6, <2>1 DEF IInv, MessagesOK, AmfMessageOK, Requests
    <3> QED BY <3>1, SoleContext DEF Known, KnownId
  <2>3. <<g, SessionRanId>> \in Spent' /\ <<g, SessionRanId>> \notin Spent
    BY <1>5, <1>6, <1>12, <2>2, RequestSpent
  <2>4. \A j : KnownId(g, j) => contexts[j].session = 0
    BY <2>3 DEF GnbOK, SessionAt, OwnSession
  <2>5. /\ nextDl[g] = 1 /\ SessionRanId \notin tunnels[g]
        /\ ueSessions[g][SessionRanId] = None
        /\ \A s, i : ~SetupFor(g, s, i)
        /\ \A s, i, d : ~AcceptFor(g, s, i, d)
    BY <2>4, NoSession
  <2>6. ASSUME NEW u \in UEs, Home[u] = g, ue'[u].phase # "off" PROVE ue'[u].guti # 0
    <3>1. UNCHANGED ue
      BY <1>12 DEF AmfTurn, ueVars
    <3>2. ue[u].ran \in RanIds /\ ue[u].ran = nextRan[g]
      BY <2>6, <3>1 DEF IInv, UeOK, GnbOK, AloneOK
    <3>3. ue[u].ran = SessionRanId
      BY <3>2, Bounds DEF RanIds, SessionRanId
    <3>4. Asking(g, SessionRanId)
      BY <1>6, <2>1, <2>2 DEF Asking, IsAt, Has
    <3> QED BY <2>6, <3>1, <3>3, <3>4 DEF GnbOK, AloneOK
  <2>7. (\A s, i : ~SetupFor(g, s, i)') /\ (\A s, i, d : AcceptFor(g, s, i, d)' => i = n /\ d = 0)
    BY <1>17, <2>5
  <2>8. OwnSession(g, k)'
    <3>1. contexts'[k].session = n /\ contexts'[k].pending = 0 /\ contexts'[k].supi = contexts[k].supi
      BY <1>14, <1>15
    <3> QED BY <1>9, <2>3, <2>6, <2>7, <3>1 DEF OwnSession
  <2>9. KnownId(g, k)' /\ \A j : KnownId(g, j)' => j = k
    <3>1. \A j : KnownId(g, j)' <=> KnownId(g, j)
      BY <1>7, <1>14, <1>15 DEF KnownId
    <3> QED BY <1>7, <3>1, SoleContext
  <2>10. /\ nextDl'[g] = 1 /\ SessionRanId \notin tunnels'[g]
         /\ ueSessions'[g][SessionRanId] = None
    BY <1>17, <2>5 DEF SameTunnels
  <2>11. SoleAccept(g)'
    BY <2>7, <2>9, <2>10 DEF SoleAccept
  <2> QED BY <2>8, <2>9, <2>10, <2>11 DEF SessionAt
<1>22. GnbOK(g)'
  BY <1>18, <1>19, <1>20, <1>21 DEF GnbOK
<1> QED BY <1>9, <1>16, <1>22

\* The accept that leaves is of the session its context has.
LEMMA SetupResponseSession ==
  ASSUME IInv, NEW g \in Gnbs, AmfSetupResponse(g), GnbOK(g), Spent \subseteq Spent'
  PROVE  GnbOK(g)' /\ \A h \in Gnbs : h # g => Calm(h)
<1>1. PICK m, n : m = Head(toAmf[g]) /\ n = contexts[m.amf].pending
  OBVIOUS
<1>2. PICK e : e = DownlinkNAS(m.amf, SessionRanId, [nas |-> "pduAccept", ip |-> n, dl |-> m.dl])
  OBVIOUS
<1>3. PICK E, out : /\ E = IF n = 0 THEN {} ELSE {e}
                    /\ out = IF n = 0 THEN <<>> ELSE <<e>>
  OBVIOUS
<1>4. /\ toAmf[g] # <<>> /\ m.type = "setupResponse" /\ m.amf \in DOMAIN contexts
      /\ contexts' = [contexts EXCEPT ![m.amf].pending = 0]
      /\ AmfTurn(g, out) /\ smf' = smf
  BY <1>1, <1>2, <1>3 DEF AmfSetupResponse, AmfMessage
<1>5. m \in UplinkNgap /\ m \in Range(toAmf[g]) /\ AmfMessageOK(g, m)
  <2>1. toAmf[g] \in Seq(UplinkNgap)
    BY DEF IInv, TypeOK
  <2> QED BY <1>1, <1>4, <2>1, TailFacts DEF IInv, MessagesOK
<1>6. m.amf \in Sessions /\ m.dl \in Sessions /\ KnownId(g, m.amf) /\ m.dl < nextDl[g]
  BY <1>4, <1>5, UplinkFields DEF AmfMessageOK
<1>7. contexts[m.amf] \in Context /\ n \in 0..MaxIds
  <2>1. contexts[m.amf] \in Context
    BY <1>4, ContextTyped DEF IInv
  <2> QED BY <1>1, <2>1 DEF Context
<1>8. PICK c : c = [contexts[m.amf] EXCEPT !.pending = 0]
  OBVIOUS
<1>9. /\ c.gnb = contexts[m.amf].gnb /\ c.supi = contexts[m.amf].supi
      /\ c.session = contexts[m.amf].session /\ c.pending = 0
  BY <1>7, <1>8 DEF Context
<1>10. contexts' = [contexts EXCEPT ![m.amf] = c]
  BY <1>4, <1>8
<1>11. \A h \in Gnbs : SameContexts(h)
  BY <1>4, <1>9, <1>10 DEF SameContexts, KnownId
<1>12. n # 0 => /\ e \in DownlinkNgap /\ e.type = "downlinkNAS" /\ e.ran = SessionRanId
                /\ e.pdu = [nas |-> "pduAccept", ip |-> n, dl |-> m.dl]
  <2>1. n # 0 => [nas |-> "pduAccept", ip |-> n, dl |-> m.dl] \in DownlinkNas
    BY <1>6, <1>7, Bounds DEF DownlinkNas, Sessions
  <2>2. m.amf \in 0..MaxIds
    BY <1>6, Bounds DEF Sessions
  <2> QED BY <1>2, <2>1, <2>2, Bounds DEF DownlinkNAS, DownlinkNgap
<1>13. Sends(E, out)
  BY <1>3, <1>12 DEF Sends
<1>14. \A h \in Gnbs : h # g => Calm(h)
  BY <1>4, <1>11, AmfElsewhere
<1>15. /\ SameUes(g) /\ SameTunnels(g)
       /\ \A s, i : SetupFor(g, s, i)' => SetupFor(g, s, i)
       /\ SetupWaits(g)' => SetupWaits(g)
       /\ \A s, i, d : AcceptFor(g, s, i, d)' =>
            \/ AcceptFor(g, s, i, d)
            \/ n # 0 /\ s = SessionRanId /\ i = n /\ d = m.dl
  <2>1. \A x \in E : /\ n # 0 /\ x.type = "downlinkNAS" /\ x.ran = SessionRanId
                     /\ x.pdu.ip = n /\ x.pdu.dl = m.dl
    BY <1>3, <1>12
  <2> QED BY <1>4, <1>13, <2>1, AmfTurnUes
<1>16. SmfGrows
  BY <1>4 DEF SmfGrows
<1>17. \A s, i : SetupFor(g, s, i)' => s = SessionRanId /\ i \in DOMAIN smf' /\ Home[smf'[i]] = g
  BY <1>15, <1>16 DEF GnbOK, SmfGrows
<1>18. \A s, i, d : AcceptFor(g, s, i, d)' =>
         s = SessionRanId /\ i # 0 /\ d \in 0..MaxIds /\ d < nextDl'[g]
  <2>1. m.dl \in 0..MaxIds
    BY <1>6, Bounds DEF Sessions
  <2> QED BY <1>6, <1>15, <2>1 DEF GnbOK, SameTunnels
<1>19. \A u \in UEs : Home[u] = g => AloneOK(u)'
  BY <1>15, UesKept DEF GnbOK
<1>20. SessionAt(g)'
  <2> SUFFICES ASSUME nextRan[g] <= 1 PROVE SessionAt(g)'
    BY <1>15 DEF SessionAt, SameUes
  <2>1. /\ nextDl[g] # 1 => /\ nextDl[g] = 2 /\ ~SetupWaits(g)
                            /\ \E k : KnownId(g, k) /\ contexts[k].session # 0
        /\ SessionRanId \in tunnels[g] =>
             \E k : /\ KnownId(g, k)
                    /\ ueSessions[g][SessionRanId] = [ul |-> contexts[k].session, dl |-> 1]
        /\ SoleAccept(g)
        /\ \A k : KnownId(g, k) => OwnSession(g, k)
    BY DEF GnbOK, SessionAt
  <2>2. nextDl'[g] # 1 => /\ nextDl'[g] = 2 /\ ~SetupWaits(g)'
                          /\ \E k : KnownId(g, k)' /\ contexts'[k].session # 0
    BY <1>11, <1>15, <2>1 DEF SameTunnels, SameContexts
  <2>3. SessionRanId \in tunnels'[g] =>
          \E k : /\ KnownId(g, k)'
                 /\ ueSessions'[g][SessionRanId] = [ul |-> contexts'[k].session, dl |-> 1]
    BY <1>11, <1>15, <2>1 DEF SameTunnels, SameContexts
  <2>4. ASSUME NEW k, KnownId(g, k)' PROVE OwnSession(g, k)'
    <3>1. KnownId(g, k) /\ OwnSession(g, k)
      BY <1>11, <2>1, <2>4 DEF SameContexts
    <3>2. k = m.amf
      BY <1>6, <3>1, SoleContext
    <3>3. n # 0 => n = contexts[k].session
      BY <1>1, <3>1, <3>2 DEF OwnSession
    <3>4. SameContexts(g)
      BY <1>11
    <3>5. \A s, i, d : AcceptFor(g, s, i, d)' => AcceptFor(g, s, i, d) \/ i = contexts[k].session
      BY <1>15, <3>3
    <3> QED BY <1>15, <1>16, <3>1, <3>4, <3>5, OwnKept
  <2>5. SoleAccept(g)'
    <3>1. ueSessions'[g][SessionRanId] # None => SessionRanId \in tunnels'[g]
      BY <1>15, <2>1 DEF SoleAccept, SameTunnels
    <3>2. KnownId(g, m.amf)'
      BY <1>6, <1>11 DEF SameContexts
    <3>3. \A s, i : AcceptFor(g, s, i, 0)' => AcceptFor(g, s, i, 0)
      BY <1>6, <1>15, Bounds DEF Sessions
    <3>4. \A s, i : AcceptFor(g, s, i, 0)' => nextDl'[g] = 1 /\ \A x, j : ~SetupFor(g, x, j)'
      BY <1>15, <2>1, <3>3 DEF SoleAccept, SameTunnels
    <3> QED BY <3>1, <3>2, <3>4 DEF SoleAccept
  <2> QED BY <2>2, <2>3, <2>4, <2>5 DEF SessionAt
<1>21. GnbOK(g)'
  BY <1>17, <1>18, <1>19, <1>20 DEF GnbOK
<1> QED BY <1>14, <1>21

----------------------------------------------------------------------------
(* The four parties' agreement on the session.                             *)

LEMMA SessionStep ==
  ASSUME OneUePerGnb, IInv, SessionInv, [Next]_vars
  PROVE  SessionInv'
<1>1. IInv' /\ Spent \subseteq Spent'
  BY StepKeeps
<1>2. \A g \in Gnbs : GnbOK(g)
  BY DEF SessionInv
<1>3. ASSUME SmfGrows, \A h \in Gnbs : Calm(h) PROVE \A h \in Gnbs : GnbOK(h)'
  BY <1>1, <1>2, <1>3, CalmKeeps
<1>4. ASSUME SmfGrows, NEW g \in Gnbs, GnbOK(g)', \A h \in Gnbs : h # g => Calm(h)
      PROVE  \A h \in Gnbs : GnbOK(h)'
  BY <1>1, <1>2, <1>4, CalmKeeps
<1>5. ASSUME SmfGrows, peer' = peer PROVE \A n \in Sessions : PeerOK(n)'
  BY <1>5 DEF SessionInv, PeerOK, SmfGrows
<1>6. smf' = smf => SmfGrows
  BY DEF SmfGrows
<1>7. ASSUME NEW u \in UEs, UeStart(u) PROVE SessionInv'
  <2>1. peer' = peer /\ smf' = smf /\ Home[u] \in Gnbs
    BY <1>7, N2Assumption DEF UeStart, amfVars
  <2>2. GnbOK(Home[u])' /\ \A h \in Gnbs : h # Home[u] => Calm(h)
    BY <1>1, <1>2, <1>7, <2>1, StartSession
  <2>3. PICK g \in Gnbs : g = Home[u]
    BY <2>1
  <2>4. GnbOK(g)' /\ \A h \in Gnbs : h # g => Calm(h)
    <3>1. GnbOK(g)'
      <4>1. Home' = Home
        OBVIOUS
      <4> QED BY <2>2, <2>3, <4>1
    <3> QED BY <2>2, <2>3, <3>1
  <2> QED BY <1>4, <1>5, <1>6, <2>1, <2>4 DEF SessionInv
<1>8. ASSUME NEW u \in UEs, UeReceives(u) \/ UeStop(u) PROVE SessionInv'
  <2>1. peer' = peer /\ smf' = smf
    BY <1>8 DEF UeReceives, UeRegistrationAccept, UePduAccept, UeReject, UeStop, amfVars
  <2>2. \A h \in Gnbs : Calm(h)
    BY <1>1, <1>2, <1>8, N2Assumption, UeReceivesCalm, StopCalm
  <2> QED BY <1>3, <1>5, <1>6, <2>1, <2>2 DEF SessionInv
<1>9. ASSUME NEW g \in Gnbs, GnbRelayDownlink(g) \/ GnbDropDownlink(g) \/ GnbOpenFails(g)
      PROVE  SessionInv'
  <2>1. peer' = peer /\ smf' = smf
    BY <1>9 DEF GnbRelayDownlink, GnbDropDownlink, GnbOpenFails, amfVars
  <2>2. \A h \in Gnbs : Calm(h)
    <3>1. CASE GnbOpenFails(g)
      BY <3>1, LoopEndsCalm DEF GnbOpenFails, ueVars, n2, amfVars
    <3> QED BY <1>9, <3>1, RelayDownlinkCalm, DropDownlinkCalm
  <2> QED BY <1>3, <1>5, <1>6, <2>1, <2>2 DEF SessionInv
<1>10. ASSUME NEW g \in Gnbs, GnbSetupRequest(g) \/ GnbSetupFails(g) \/ GnbOpenTunnel(g)
       PROVE  SessionInv'
  <2>1. peer' = peer /\ smf' = smf
    BY <1>10 DEF GnbSetupRequest, GnbSetupFails, GnbOpenTunnel, amfVars
  <2>2. GnbOK(g)' /\ \A h \in Gnbs : h # g => Calm(h)
    BY <1>1, <1>2, <1>10, SetupRequestSession, SetupFailsSession, OpenTunnelSession
  <2> QED BY <1>4, <1>5, <1>6, <2>1, <2>2 DEF SessionInv
<1>11. ASSUME NEW g \in Gnbs, GnbNotifyUpf(g) PROVE SessionInv'
  <2>1. PICK ul, p : ul = loop[g].ul /\ p = [gnb |-> g, dl |-> loop[g].dl]
    OBVIOUS
  <2>2. /\ loop[g].pc = "notify"
        /\ loop' = [loop EXCEPT ![g] = Reading]
        /\ peer' = [peer EXCEPT ![ul] = p] \/ peer' = peer
        /\ UNCHANGED <<ue, nextRan, conns, nextDl, tunnels, ueSessions, toAmf, toGnb, contexts, smf>>
    BY <1>11, <2>1 DEF GnbNotifyUpf, ueVars, n2, amfVars
  <2>3. \A h \in Gnbs : Calm(h)
    BY <2>2, LoopEndsCalm
  <2>4. ul \in DOMAIN smf /\ Home[smf[ul]] = g
    <3>1. SetupFor(g, loop[g].ran, ul)
      BY <2>1, <2>2 DEF SetupFor
    <3> QED BY <1>2, <3>1 DEF GnbOK
  <2>5. \A n \in Sessions : PeerOK(n)'
    <3> SUFFICES ASSUME NEW n \in Sessions PROVE PeerOK(n)'
      OBVIOUS
    <3>1. PeerOK(n)
      BY DEF SessionInv
    <3>2. peer'[n] = peer[n] \/ (n = ul /\ peer'[n] = p)
      BY <2>2 DEF IInv, TypeOK
    <3>3. p.gnb = g
      BY <2>1
    <3> QED BY <2>2, <2>4, <3>1, <3>2, <3>3 DEF PeerOK
  <2> QED BY <1>3, <1>6, <2>2, <2>3, <2>5 DEF SessionInv
<1>12. ASSUME NEW g \in Gnbs, AmfReads(g) PROVE SessionInv'
  <2>1. peer' = peer
    BY <1>12 DEF AmfReads, AmfAccept, AmfReject, AmfComplete, AmfPduCreated, AmfPduDirect,
              AmfPduRefused, AmfPduLost, AmfSetupResponse, AmfTurn
  <2>2. CASE AmfReject(g) \/ AmfComplete(g) \/ AmfPduRefused(g) \/ AmfPduLost(g)
    <3>1. SmfGrows
      <4>1. CASE AmfPduLost(g)
        <5>1. PICK k \in Candidates(g) : smf' = Append(smf, contexts[k].supi)
          BY <4>1 DEF AmfPduLost
        <5>2. contexts[k].supi \in UEs
          BY ContextTyped DEF IInv, Candidates, Context
        <5> QED BY <5>1, <5>2, SmfAppended
      <4> QED BY <1>6, <2>2, <4>1 DEF AmfReject, AmfComplete, AmfPduRefused, amfVars
    <3>2. \A h \in Gnbs : Calm(h)
      BY <2>2, RejectCalm, CompleteCalm, PduRejectCalm
    <3> QED BY <1>3, <1>5, <2>1, <3>1, <3>2 DEF SessionInv
  <2>3. CASE AmfAccept(g) \/ AmfSetupResponse(g)
    <3>1. smf' = smf
      BY <2>3 DEF AmfAccept, AmfSetupResponse
    <3>2. GnbOK(g)' /\ \A h \in Gnbs : h # g => Calm(h)
      BY <1>1, <1>2, <2>3, AcceptSession, SetupResponseSession
    <3> QED BY <1>4, <1>5, <1>6, <2>1, <3>1, <3>2 DEF SessionInv
  <2>4. CASE AmfPduCreated(g) \/ AmfPduDirect(g)
    <3>1. SmfGrows /\ GnbOK(g)' /\ \A h \in Gnbs : h # g => Calm(h)
      BY <1>2, <2>4, PduCreatedSession, PduDirectSession
    <3> QED BY <1>4, <1>5, <2>1, <3>1 DEF SessionInv
  <2> QED BY <1>12, <2>2, <2>3, <2>4 DEF AmfReads
<1>13. ASSUME NEW g \in Gnbs, NEW r \in RanIds, GnbRelayUplink(g, r) \/ GnbUeGone(g, r)
       PROVE  SessionInv'
  <2>1. peer' = peer /\ smf' = smf
    BY <1>13 DEF GnbRelayUplink, GnbUeGone, amfVars
  <2>2. \A h \in Gnbs : Calm(h)
    BY <1>13, RelayUplinkCalm, UeGoneCalm
  <2> QED BY <1>3, <1>5, <1>6, <2>1, <2>2 DEF SessionInv
<1>14. CASE UNCHANGED vars
  <2>1. peer' = peer /\ smf' = smf
    BY <1>14 DEF vars
  <2>2. UNCHANGED <<ue, nextRan, conns, loop, nextDl, tunnels, ueSessions, toAmf, toGnb, contexts>>
    BY <1>14 DEF vars
  <2>3. \A h \in Gnbs : Calm(h)
    BY <2>2, ElsewhereCalm, ContextsSame
  <2> QED BY <1>3, <1>5, <1>6, <2>1, <2>3 DEF SessionInv
<1> QED BY <1>7, <1>8, <1>9, <1>10, <1>11, <1>12, <1>13, <1>14 DEF Next, GnbReads, GnbOpens

LEMMA SessionAgrees ==
  ASSUME OneUePerGnb, IInv, SessionInv
  PROVE  SessionAgreement
<1> SUFFICES ASSUME NEW u \in UEs, ue[u].ip # 0
             PROVE  LET g == Home[u]
                        n == ue[u].ip
                        dl == ue[u].dl
                    IN  /\ n \in DOMAIN smf /\ smf[n] = u
                        /\ contexts[ue[u].guti].session = n
                        /\ dl # 0 =>
                             /\ \/ dl \in broken[g]
                                \/ ueSessions[g][ue[u].ran] = [ul |-> n, dl |-> dl]
                             /\ peer[n] \in {None, [gnb |-> g, dl |-> dl]}
                        /\ dl = 0 => ueSessions[g][ue[u].ran] = None /\ peer[n] = None
  BY DEF SessionAgreement
<1>1. PICK g \in Gnbs : g = Home[u]
  BY N2Assumption
<1>2. PICK n, dl : g = Home[u] /\ n = ue[u].ip /\ dl = ue[u].dl
  BY <1>1
<1>3. GnbOK(g)
  BY DEF SessionInv
<1>4. AcceptFor(g, ue[u].ran, n, dl)
  BY <1>2 DEF AcceptFor
<1>5. ue[u].ran = SessionRanId /\ dl \in 0..MaxIds /\ dl < nextDl[g] /\ n # 0
  BY <1>3, <1>4 DEF GnbOK
<1>6. ue[u].phase # "off"
  BY DEF IInv, UeOK, UeOff
<1>7. nextRan[g] = 1
  BY <1>2, <1>3, <1>5, <1>6 DEF GnbOK, AloneOK, SessionRanId
<1>8. /\ nextDl[g] # 1 => nextDl[g] = 2
      /\ SessionRanId \in tunnels[g] =>
           \E k : /\ KnownId(g, k)
                  /\ ueSessions[g][SessionRanId] = [ul |-> contexts[k].session, dl |-> 1]
      /\ SoleAccept(g)
      /\ \A k : KnownId(g, k) => OwnSession(g, k)
  BY <1>3, <1>7 DEF GnbOK, SessionAt
<1>9. PICK k : KnownId(g, k)
  BY <1>4, <1>8 DEF SoleAccept
<1>10. contexts[k].session = n /\ n \in DOMAIN smf /\ smf[n] = contexts[k].supi /\ ue[u].guti # 0
  BY <1>2, <1>4, <1>5, <1>6, <1>8, <1>9 DEF OwnSession
<1>11. ue[u].guti = k /\ contexts[k].supi = u
  <2>1. KnownId(g, ue[u].guti) /\ contexts[ue[u].guti].supi = u
    BY <1>2, <1>10 DEF IInv, RegisteredAsSelf, KnownId
  <2>2. ue[u].guti = k
    BY <1>7, <1>9, <2>1, SoleContext
  <2> QED BY <2>1, <2>2
<1>12. n \in Sessions
  <2>1. DOMAIN smf = 1..Len(smf) /\ Len(smf) \in Nat /\ Len(smf) <= MaxIds
    BY LenProperties DEF IInv, TypeOK
  <2> QED BY ONLY <1>10, <2>1, Bounds DEF Sessions
<1>13. peer[n] # None => /\ peer[n] \in [gnb : Gnbs, dl : Sessions]
                         /\ peer[n].gnb = g /\ peer[n].dl \in tunnels[g]
                         /\ peer[n].dl < nextDl[g]
  <2> SUFFICES ASSUME peer[n] # None
               PROVE  /\ peer[n] \in [gnb : Gnbs, dl : Sessions]
                      /\ peer[n].gnb = g /\ peer[n].dl \in tunnels[g]
                      /\ peer[n].dl < nextDl[g]
    OBVIOUS
  <2>1. peer[n] \in [gnb : Gnbs, dl : Sessions]
    BY <1>12 DEF IInv, TypeOK
  <2>2. peer[n].gnb = g
    BY <1>2, <1>10, <1>11, <1>12 DEF SessionInv, PeerOK
  <2>3. peer[n].dl \in tunnels[g]
    BY <1>12, <2>2 DEF IInv, PeersApart
  <2> QED BY <2>1, <2>2, <2>3 DEF IInv, SessionsOK, TunnelsOK
<1>14. ASSUME dl = 0 PROVE ueSessions[g][SessionRanId] = None /\ peer[n] = None
  <2>1. nextDl[g] = 1
    BY <1>4, <1>8, <1>14 DEF SoleAccept
  <2>2. tunnels[g] \subseteq Sessions /\ \A d \in tunnels[g] : d < 1
    BY <2>1 DEF IInv, TypeOK, SessionsOK, TunnelsOK
  <2>3. tunnels[g] = {}
    BY <2>2, Bounds DEF Sessions
  <2> QED BY <1>8, <1>13, <2>3 DEF SoleAccept
<1>15. ASSUME dl # 0
       PROVE  /\ dl \in broken[g] \/ ueSessions[g][SessionRanId] = [ul |-> n, dl |-> dl]
              /\ peer[n] \in {None, [gnb |-> g, dl |-> dl]}
  <2>1. nextDl[g] = 2 /\ dl = 1
    <3>1. nextDl[g] \in Nat /\ dl \in Nat
      BY <1>5, Bounds DEF IInv, TypeOK
    <3> QED BY <1>5, <1>8, <1>15, <3>1
  <2>2. dl \in tunnels[g] \cup broken[g]
    <3>1. ue[u].dl # 0 => ue[u].dl \in tunnels[Home[u]] \cup broken[Home[u]]
      BY DEF IInv, TunnelBeforeAccept
    <3> QED BY <1>2, <1>15, <3>1
  <2>3. dl \in tunnels[g] => ueSessions[g][SessionRanId] = [ul |-> n, dl |-> dl]
    <3> SUFFICES ASSUME dl \in tunnels[g]
                 PROVE  ueSessions[g][SessionRanId] = [ul |-> n, dl |-> dl]
      OBVIOUS
    <3>1. PICK j : /\ KnownId(g, j)
                   /\ ueSessions[g][SessionRanId] = [ul |-> contexts[j].session, dl |-> 1]
      BY <1>8, <2>1 DEF SessionRanId
    <3>2. j = k
      BY <1>7, <1>9, <3>1, SoleContext
    <3> QED BY <1>10, <2>1, <3>1, <3>2
  <2>4. peer[n] # None => peer[n] = [gnb |-> g, dl |-> dl]
    <3> SUFFICES ASSUME peer[n] # None PROVE peer[n] = [gnb |-> g, dl |-> dl]
      OBVIOUS
    <3>1. peer[n].dl \in Sessions /\ peer[n].dl < 2
      BY <1>13, <2>1
    <3>2. peer[n].dl = dl
      BY <2>1, <3>1 DEF Sessions
    <3> QED BY <1>13, <3>2
  <2> QED BY <2>2, <2>3, <2>4
<1> QED BY <1>2, <1>5, <1>10, <1>11, <1>14, <1>15

\* With one UE per gNB, however many of them attach at once and stop and come
\* back: UE, gNB, AMF, SMF and UPF mean the same session, which is the UE's own
\* (a UE that has come back is given none: sendPDUSessionResourceSetupRequest
\* addresses the gNB's first connection).  Where the AMF told the UE without
\* asking the gNB, neither gNB nor UPF has a session at all.
THEOREM SessionAgreed ==
  ASSUME OneUePerGnb
  PROVE  Spec => []SessionAgreement
<1>1. Init => SessionInv
  <2> SUFFICES ASSUME Init PROVE SessionInv
    OBVIOUS
  <2>1. /\ \A g \in Gnbs : Range(toGnb[g]) = {} /\ loop[g].pc = "read" /\ nextDl[g] = 1
                             /\ tunnels[g] = {} /\ ueSessions[g][SessionRanId] = None
                             /\ \A r \in RanIds : conns[g][r] = None
        /\ \A u \in UEs : ue[u].phase = "off" /\ ue[u].ip = 0 /\ ue[u].dl = 0
        /\ \A g, k : ~KnownId(g, k)
        /\ \A n \in Sessions : peer[n] = None
    BY EmptyFacts, Bounds DEF Init, Reading, UeOff, KnownId, SessionRanId, RanIds
  <2>2. ASSUME NEW g \in Gnbs PROVE GnbOK(g)
    <3>1. \A r, n : ~SetupFor(g, r, n)
      BY <2>1 DEF SetupFor
    <3>2. \A r, n, d : ~AcceptFor(g, r, n, d)
      BY <2>1 DEF AcceptFor
    <3>3. \A u \in UEs : AloneOK(u)
      BY <2>1 DEF AloneOK
    <3>4. SessionAt(g)
      <4>1. SessionRanId \notin tunnels[g] /\ nextDl[g] = 1
        BY <2>1
      <4>2. \A k : ~KnownId(g, k)
        BY <2>1
      <4>3. SoleAccept(g)
        BY <2>1, <3>2 DEF SoleAccept
      <4> QED BY <4>1, <4>2, <4>3 DEF SessionAt
    <3> QED BY <3>1, <3>2, <3>3, <3>4 DEF GnbOK
  <2> QED BY <2>1, <2>2 DEF SessionInv, PeerOK
<1>2. IInv /\ SessionInv /\ [Next]_vars => SessionInv'
  BY SessionStep
<1>3. IInv /\ SessionInv => SessionAgreement
  BY SessionAgrees
<1> QED BY <1>1, <1>2, <1>3, Invariance, PTL DEF Spec
=============================================================================
