--------------------------- MODULE EventHubProofs ---------------------------
(***************************************************************************)
(* Proofs about EventHub: its types, that no client sees an event twice,   *)
(* and that a connected client misses one for a reason.                    *)
(*                                                                         *)
(* The invariant places everything in history.  The buffer and each        *)
(* snapshot are stretches of it; the events a subscriber has been shown,   *)
(* has in its channel, is yet to be sent or found the channel full for are *)
(* exactly those stored after it subscribed, and no event is in two of     *)
(* these that could make it appear twice.                                  *)
(***************************************************************************)
EXTENDS EventHub, TLAPS, FiniteSetTheorems, SequenceTheorems

Least(a, b) == IF a < b THEN a ELSE b

Stored == {e \in Events : post[e] = "stored"}

HistoryOK ==
  /\ IsInjective(history)
  /\ Elements(history) = Stored
  /\ Len(history) = Cardinality(Stored)

\* The buffer is the end of history ...
BufferOK ==
  /\ Len(events) = Least(BufferMax, Len(history))
  /\ \A i \in 1..Len(events) : events[i] = history[Len(history) - Len(events) + i]

\* ... and a snapshot the end of what it was when it was taken.
SnapshotOK(c) ==
  /\ client[c] \in {"snapshot", "subscribed"} =>
       /\ snapAt[c] <= Len(history)
       /\ Len(snapshot[c]) = Least(Window, Least(BufferMax, snapAt[c]))
       /\ \A i \in 1..Len(snapshot[c]) :
            snapshot[c][i] = history[snapAt[c] - Len(snapshot[c]) + i]
  /\ client[c] \notin {"snapshot", "subscribed"} => snapshot[c] = <<>>

\* What is in h after its n-th event.
After(h, n) == {h[i] : i \in {j \in 1..Len(h) : n < j}}

Pending(c) == {e \in Events : c \in todo[e]}

Live(c) == Elements(shown[c]) \cup Elements(chan[c])

\* What was stored since client c subscribed.
LiveOK(c) ==
  /\ client[c] = "subscribed" =>
       /\ snapAt[c] <= since[c] /\ since[c] <= Len(history)
       /\ IsInjective(shown[c]) /\ IsInjective(chan[c])
       /\ Elements(shown[c]) \cap Elements(chan[c]) = {}
       /\ Live(c) \cap Pending(c) = {}
       /\ Live(c) \cup Pending(c) \subseteq After(history, since[c])
       /\ After(history, since[c]) \subseteq Live(c) \cup Pending(c) \cup full[c]
  /\ client[c] # "subscribed" => shown[c] = <<>> /\ chan[c] = <<>>

\* A handler sends to connections that have subscribed at some time.
PendingOK(c) ==
  /\ Pending(c) \subseteq Stored
  /\ Pending(c) # {} => client[c] \in {"subscribed", "gone"}

IInv ==
  /\ TypeOK /\ HistoryOK /\ BufferOK
  /\ \A c \in Clients : SnapshotOK(c) /\ LiveOK(c) /\ PendingOK(c)

----------------------------------------------------------------------------
(* Sequences.                                                              *)

\* What Append adds.
LEMMA AppendFacts ==
  ASSUME NEW S, NEW s \in Seq(S), NEW e \in S
  PROVE  /\ Append(s, e) \in Seq(S) /\ Len(Append(s, e)) = Len(s) + 1
         /\ \A i \in 1..Len(s) : Append(s, e)[i] = s[i]
         /\ Append(s, e)[Len(s) + 1] = e
         /\ Elements(Append(s, e)) = Elements(s) \cup {e}
         /\ IsInjective(s) /\ e \notin Elements(s) => IsInjective(Append(s, e))
<1>1. /\ Append(s, e) \in Seq(S) /\ Len(Append(s, e)) = Len(s) + 1
      /\ \A i \in 1..Len(s) : Append(s, e)[i] = s[i]
      /\ Append(s, e)[Len(s) + 1] = e
  BY AppendProperties
<1>2. Len(s) \in Nat /\ DOMAIN s = 1..Len(s) /\ DOMAIN Append(s, e) = 1..(Len(s) + 1)
  BY <1>1, LenProperties
<1>3. Elements(Append(s, e)) = Elements(s) \cup {e}
  BY <1>1, <1>2 DEF Elements
<1>4. ASSUME IsInjective(s), e \notin Elements(s) PROVE IsInjective(Append(s, e))
  BY <1>1, <1>2, <1>4 DEF IsInjective, Elements
<1> QED BY <1>1, <1>3, <1>4

\* What Tail takes away.
LEMMA TailFacts ==
  ASSUME NEW S, NEW s \in Seq(S), s # <<>>
  PROVE  /\ Tail(s) \in Seq(S) /\ Len(Tail(s)) <= Len(s) /\ Head(s) \in S
         /\ Elements(s) = Elements(Tail(s)) \cup {Head(s)}
         /\ IsInjective(s) => IsInjective(Tail(s)) /\ Head(s) \notin Elements(Tail(s))
<1>1. /\ Tail(s) \in Seq(S) /\ Len(Tail(s)) = Len(s) - 1 /\ Len(s) \in Nat /\ Len(s) # 0
      /\ Head(s) = s[1] /\ \A i \in 1..Len(Tail(s)) : Tail(s)[i] = s[i + 1]
  BY HeadTailProperties, EmptySeq, LenProperties
<1>2. DOMAIN s = 1..Len(s) /\ DOMAIN Tail(s) = 1..(Len(s) - 1)
  BY <1>1, LenProperties
<1>3. Head(s) \in S
  BY <1>1, ElementOfSeq
<1>4. Elements(s) = Elements(Tail(s)) \cup {Head(s)}
  <2>1. Elements(Tail(s)) \cup {Head(s)} \subseteq Elements(s)
    BY <1>1, <1>2 DEF Elements
  <2>2. ASSUME NEW i \in 1..Len(s) PROVE s[i] \in Elements(Tail(s)) \cup {Head(s)}
    <3>1. CASE i = 1
      BY <3>1, <1>1
    <3>2. CASE i # 1
      <4>1. i - 1 \in 1..(Len(s) - 1) /\ Tail(s)[i - 1] = s[i]
        BY <3>2, <1>1
      <4> QED BY <4>1, <1>2 DEF Elements
    <3> QED BY <3>1, <3>2
  <2> QED BY <2>1, <2>2, <1>2 DEF Elements
<1>5. ASSUME IsInjective(s) PROVE IsInjective(Tail(s)) /\ Head(s) \notin Elements(Tail(s))
  BY <1>1, <1>2, <1>5 DEF IsInjective, Elements
<1> QED BY <1>1, <1>3, <1>4, <1>5

\* Nothing is in the empty sequence.
LEMMA EmptyFacts ==
  /\ Elements(<<>>) = {} /\ IsInjective(<<>>) /\ Len(<<>>) = 0
  /\ \A S : <<>> \in Seq(S)
BY EmptySeq DEF Elements, IsInjective

\* The last n of a sequence, or all of it.
LEMMA LastNFacts ==
  ASSUME NEW S, NEW s \in Seq(S), NEW n \in Nat
  PROVE  /\ LastN(s, n) \in Seq(S)
         /\ Len(LastN(s, n)) = Least(n, Len(s))
         /\ \A i \in 1..Len(LastN(s, n)) :
              LastN(s, n)[i] = s[Len(s) - Len(LastN(s, n)) + i]
<1>1. Len(s) \in Nat
  BY LenProperties
<1>a. PICK k : k = IF n < Len(s) THEN n ELSE Len(s)
  OBVIOUS
<1>b. k \in 0..Len(s) /\ k = Least(n, Len(s))
  BY <1>1, <1>a DEF Least
<1>2. PICK a : a = Len(s) - k + 1
  OBVIOUS
<1>c. LastN(s, n) = SubSeq(s, a, Len(s))
  BY <1>a, <1>2 DEF LastN
<1>3. a \in 1..(Len(s) + 1) /\ LastN(s, n) = SubSeq(s, a, Len(s)) /\ Len(s) - a + 1 = k
  BY SMTT(30), <1>1, <1>b, <1>c, <1>2
<1>4. SubSeq(s, a, Len(s)) = [i \in 1..(Len(s) - a + 1) |-> s[i + a - 1]]
  BY <1>1, <1>3 DEF SubSeq
<1>5. \A i \in 1..(Len(s) - a + 1) : i + a - 1 \in 1..Len(s)
  BY <1>1, <1>3
<1>6. \A i \in 1..Len(s) : s[i] \in S
  BY ElementOfSeq
<1>7. SubSeq(s, a, Len(s)) \in [1..(Len(s) - a + 1) -> S]
  BY <1>4, <1>5, <1>6
<1>8. Len(s) - a + 1 \in Nat
  BY <1>1, <1>3
<1>9. LastN(s, n) \in Seq(S) /\ Len(LastN(s, n)) = Len(s) - a + 1
  BY <1>3, <1>7, <1>8, LenProperties, SeqDef
<1>10. ASSUME NEW i \in 1..Len(LastN(s, n))
       PROVE  LastN(s, n)[i] = s[Len(s) - Len(LastN(s, n)) + i]
  <2>1. LastN(s, n)[i] = s[i + a - 1]
    BY <1>3, <1>4, <1>9
  <2>2. i + a - 1 = Len(s) - Len(LastN(s, n)) + i
    BY <1>1, <1>3, <1>9
  <2> QED BY <2>1, <2>2
<1> QED BY <1>3, <1>9, <1>10, <1>b

\* Three sequences that are injective and share nothing are so together.
LEMMA ConcatInjective ==
  ASSUME NEW S, NEW s \in Seq(S), NEW t \in Seq(S), NEW u \in Seq(S),
         IsInjective(s), IsInjective(t), IsInjective(u),
         Elements(s) \cap Elements(t) = {}, Elements(s) \cap Elements(u) = {},
         Elements(t) \cap Elements(u) = {}
  PROVE  IsInjective(s \o t \o u)
<1>1. ASSUME NEW a \in Seq(S), NEW b \in Seq(S), IsInjective(a), IsInjective(b),
             Elements(a) \cap Elements(b) = {}
      PROVE  /\ a \o b \in Seq(S) /\ IsInjective(a \o b)
             /\ Elements(a \o b) \subseteq Elements(a) \cup Elements(b)
  <2>1. /\ a \o b \in Seq(S) /\ Len(a \o b) = Len(a) + Len(b)
        /\ \A i \in 1..(Len(a) + Len(b)) :
             (a \o b)[i] = IF i <= Len(a) THEN a[i] ELSE b[i - Len(a)]
    BY ConcatProperties
  <2>2. /\ Len(a) \in Nat /\ Len(b) \in Nat /\ DOMAIN a = 1..Len(a) /\ DOMAIN b = 1..Len(b)
        /\ DOMAIN (a \o b) = 1..(Len(a) + Len(b))
    BY <2>1, LenProperties
  <2>3. ASSUME NEW i \in 1..(Len(a) + Len(b))
        PROVE  \/ i \in DOMAIN a /\ (a \o b)[i] = a[i] /\ a[i] \in Elements(a)
               \/ /\ i - Len(a) \in DOMAIN b /\ i \notin DOMAIN a
                  /\ (a \o b)[i] = b[i - Len(a)] /\ b[i - Len(a)] \in Elements(b)
    <3>1. CASE i <= Len(a)
      BY SMTT(30), <3>1, <2>1, <2>2 DEF Elements
    <3>2. CASE ~(i <= Len(a))
      <4>1. i - Len(a) \in 1..Len(b) /\ (a \o b)[i] = b[i - Len(a)]
        BY <3>2, <2>1, <2>2
      <4> QED BY <4>1, <3>2, <2>2 DEF Elements
    <3> QED BY <3>1, <3>2
  <2>4. ASSUME NEW i \in 1..(Len(a) + Len(b)), NEW j \in 1..(Len(a) + Len(b)),
               (a \o b)[i] = (a \o b)[j]
        PROVE  i = j
    <3>1. CASE i \in DOMAIN a /\ j \in DOMAIN a
      BY <3>1, <2>3, <2>4, <1>1 DEF IsInjective
    <3>2. CASE i \notin DOMAIN a /\ j \notin DOMAIN a
      <4>1. i - Len(a) = j - Len(a)
        BY <3>2, <2>3, <2>4, <1>1 DEF IsInjective
      <4> QED BY <4>1, <2>2
    <3> QED BY <3>1, <3>2, <2>3, <2>4, <1>1
  <2>5. IsInjective(a \o b)
    BY <2>2, <2>4 DEF IsInjective
  <2>6. Elements(a \o b) \subseteq Elements(a) \cup Elements(b)
    BY <2>2, <2>3 DEF Elements
  <2> QED BY <2>1, <2>5, <2>6
<1>2. /\ s \o t \in Seq(S) /\ IsInjective(s \o t)
      /\ Elements(s \o t) \cap Elements(u) = {}
  BY <1>1
<1> QED BY <1>1, <1>2

\* What follows a place in history grows by what is appended to it.
LEMMA AfterFacts ==
  ASSUME NEW S, NEW h \in Seq(S), NEW e \in S, NEW n \in Nat
  PROVE  /\ After(h, n) \subseteq Elements(h)
         /\ n <= Len(h) => After(Append(h, e), n) = After(h, n) \cup {e}
         /\ After(h, Len(h)) = {}
<1>1. Len(h) \in Nat /\ DOMAIN h = 1..Len(h)
  BY LenProperties
<1>2. After(h, n) \subseteq Elements(h) /\ After(h, Len(h)) = {}
  BY <1>1 DEF After, Elements
<1>3. ASSUME n <= Len(h) PROVE After(Append(h, e), n) = After(h, n) \cup {e}
  BY <1>1, <1>3, AppendFacts DEF After
<1> QED BY <1>2, <1>3

\* The buffer keeps the last BufferMax events.
LEMMA TrimmedFacts ==
  ASSUME NEW S, NEW s \in Seq(S)
  PROVE  /\ Trimmed(s) \in Seq(S)
         /\ Len(Trimmed(s)) = Least(BufferMax, Len(s))
         /\ \A i \in 1..Len(Trimmed(s)) : Trimmed(s)[i] = s[Len(s) - Len(Trimmed(s)) + i]
<1>1. Len(s) \in Nat /\ BufferMax \in Nat
  BY LenProperties, HubAssumption
<1>2. CASE Len(s) > BufferMax
  BY <1>1, <1>2, LastNFacts DEF Trimmed
<1>3. CASE ~(Len(s) > BufferMax)
  <2>1. Trimmed(s) = s /\ Least(BufferMax, Len(s)) = Len(s)
    BY <1>1, <1>3 DEF Trimmed, Least
  <2>2. \A i \in 1..Len(s) : Len(s) - Len(s) + i = i
    BY <1>1
  <2> QED BY <2>1, <2>2
<1> QED BY <1>2, <1>3

\* No more events are stored than there are.
LEMMA StoredFacts ==
  /\ IsFiniteSet(Stored)
  /\ Cardinality(Stored) \in 0..MaxEvents
<1>1. IsFiniteSet(Events) /\ Cardinality(Events) = MaxEvents
  BY HubAssumption, FS_Interval DEF Events
<1>2. IsFiniteSet(Stored) /\ Cardinality(Stored) <= Cardinality(Events)
  BY <1>1, FS_Subset DEF Stored
<1> QED BY <1>1, <1>2, FS_CardinalityType, HubAssumption

\* An invariant on a client stands while nothing of it changes.
LEMMA ClientFrame ==
  ASSUME NEW c \in Clients, SnapshotOK(c), LiveOK(c), PendingOK(c),
         client'[c] = client[c], snapshot'[c] = snapshot[c], shown'[c] = shown[c],
         chan'[c] = chan[c], snapAt'[c] = snapAt[c], since'[c] = since[c],
         full'[c] = full[c], Pending(c)' = Pending(c), Stored' = Stored, history' = history
  PROVE  SnapshotOK(c)' /\ LiveOK(c)' /\ PendingOK(c)'
<1>1. SnapshotOK(c)'
  BY DEF SnapshotOK
<1>2. Live(c)' = Live(c)
  BY DEF Live
<1>3. LiveOK(c)'
  BY <1>2 DEF LiveOK
<1>4. PendingOK(c)'
  BY DEF PendingOK
<1> QED BY <1>1, <1>3, <1>4

----------------------------------------------------------------------------
(* The invariant holds in every state.                                     *)

LEMMA Initially == Init => IInv
<1> SUFFICES ASSUME Init PROVE IInv
  OBVIOUS
<1> USE DEF Init
<1>1. TypeOK
  <2>1. 0 \in 0..MaxEvents /\ 0 <= BufferMax /\ 0 <= Capacity /\ 0 <= Window
    BY HubAssumption
  <2>2. chan \in [Clients -> Seq(Events)] /\ \A c \in Clients : Len(chan[c]) <= Capacity
    BY <2>1, EmptyFacts
  <2>3. snapshot \in [Clients -> Seq(Events)] /\ \A c \in Clients : Len(snapshot[c]) <= Window
    BY <2>1, EmptyFacts
  <2>4. shown \in [Clients -> Seq(Events)]
    BY EmptyFacts
  <2>5. events \in Seq(Events) /\ Len(events) <= BufferMax /\ history \in Seq(Events)
    BY <2>1, EmptyFacts
  <2>6. snapAt \in [Clients -> 0..MaxEvents] /\ since \in [Clients -> 0..MaxEvents]
    BY <2>1
  <2>7. /\ post \in [Events -> {"posted", "stored", "lost"}]
        /\ todo \in [Events -> SUBSET Clients]
        /\ client \in [Clients -> {"away", "snapshot", "subscribed", "gone"}]
        /\ full \in [Clients -> SUBSET Events]
    OBVIOUS
  <2>8. subscribers = {c \in Clients : client[c] = "subscribed"}
    OBVIOUS
  <2> QED BY <2>2, <2>3, <2>4, <2>5, <2>6, <2>7, <2>8 DEF TypeOK
<1>2. HistoryOK
  <2>1. Stored = {}
    BY DEF Stored
  <2> QED BY <2>1, EmptyFacts, FS_EmptySet DEF HistoryOK
<1>3. BufferOK
  BY EmptyFacts, HubAssumption DEF BufferOK, Least
<1>4. ASSUME NEW c \in Clients PROVE SnapshotOK(c) /\ LiveOK(c) /\ PendingOK(c)
  <2>1. client[c] = "away" /\ snapshot[c] = <<>> /\ shown[c] = <<>> /\ chan[c] = <<>>
    OBVIOUS
  <2>2. Pending(c) = {}
    BY DEF Pending
  <2> QED BY <2>1, <2>2 DEF SnapshotOK, LiveOK, PendingOK
<1> QED BY <1>1, <1>2, <1>3, <1>4 DEF IInv

\* A POST that is lost.
LEMMA LoseStep ==
  ASSUME IInv, NEW e \in Events, Lose(e)
  PROVE  IInv'
<1> USE DEF Lose, hubVars, clientVars, ghosts
<1>1. TypeOK'
  BY DEF IInv, TypeOK
<1>2. Stored' = Stored
  BY DEF IInv, TypeOK, Stored
<1>3. HistoryOK' /\ BufferOK'
  BY <1>2 DEF IInv, HistoryOK, BufferOK
<1>4. ASSUME NEW c \in Clients PROVE SnapshotOK(c)' /\ LiveOK(c)' /\ PendingOK(c)'
  <2>1. Pending(c)' = Pending(c)
    BY DEF Pending
  <2> QED BY <1>2, <2>1, ClientFrame DEF IInv
<1> QED BY <1>1, <1>3, <1>4 DEF IInv

\* An event that is stored is the last of the history, and every subscriber's.
LEMMA StoreStep ==
  ASSUME IInv, NEW e \in Events, Store(e)
  PROVE  IInv'
<1> USE DEF Store, clientVars
<1>1. /\ TypeOK /\ HistoryOK /\ BufferOK
      /\ history \in Seq(Events) /\ events \in Seq(Events)
      /\ Len(history) \in Nat /\ Len(events) \in Nat
  BY LenProperties DEF IInv, TypeOK
<1>2. e \notin Stored /\ Stored' = Stored \cup {e}
  BY <1>1 DEF TypeOK, Stored
<1>3. e \notin Elements(history)
  BY <1>1, <1>2 DEF HistoryOK
<1>4. /\ history' \in Seq(Events) /\ Len(history') = Len(history) + 1
      /\ \A i \in 1..Len(history) : history'[i] = history[i]
      /\ history'[Len(history) + 1] = e
      /\ Elements(history') = Elements(history) \cup {e}
      /\ IsInjective(history')
  BY <1>1, <1>3, AppendFacts DEF HistoryOK
<1>5. HistoryOK'
  <2>1. Cardinality(Stored') = Cardinality(Stored) + 1
    BY <1>2, StoredFacts, FS_AddElement
  <2> QED BY <1>1, <1>2, <1>4, <2>1 DEF HistoryOK
<1>6. PICK a : a = Append(events, e)
  OBVIOUS
<1>7. /\ a \in Seq(Events) /\ Len(a) = Len(events) + 1
      /\ \A i \in 1..Len(events) : a[i] = events[i]
      /\ a[Len(events) + 1] = e
  BY <1>1, <1>6, AppendFacts
<1>8. /\ events' \in Seq(Events) /\ Len(events') = Least(BufferMax, Len(a))
      /\ \A i \in 1..Len(events') : events'[i] = a[Len(a) - Len(events') + i]
  BY <1>6, <1>7, TrimmedFacts
<1>9. /\ Len(events) = Least(BufferMax, Len(history))
      /\ \A i \in 1..Len(events) : events[i] = history[Len(history) - Len(events) + i]
  BY <1>1 DEF BufferOK
<1>10. /\ Len(events') = Least(BufferMax, Len(history')) /\ Len(events') \in Nat
       /\ Len(events') <= BufferMax /\ Len(events') <= Len(a) /\ Len(events) <= Len(history)
  BY <1>1, <1>4, <1>7, <1>8, <1>9, HubAssumption DEF Least
<1>11. BufferOK'
  <2>1. ASSUME NEW i \in 1..Len(events')
        PROVE  events'[i] = history'[Len(history') - Len(events') + i]
    <3>1. PICK j : j = Len(a) - Len(events') + i
      OBVIOUS
    <3>2. j \in 1..(Len(events) + 1) /\ events'[i] = a[j]
      <4>1. events'[i] = a[j]
        BY <3>1, <1>8
      <4>2. j \in 1..(Len(events) + 1)
        BY <3>1, <1>1, <1>7, <1>10
      <4> QED BY <4>1, <4>2
    <3>3. Len(history') - Len(events') + i = Len(history) - Len(events) + j
      BY <3>1, <1>1, <1>4, <1>7, <1>10
    <3>4. CASE j = Len(events) + 1
      <4>1. Len(history) - Len(events) + j = Len(history) + 1
        BY <3>4, <1>1
      <4> QED BY <4>1, <3>2, <3>3, <3>4, <1>4, <1>7
    <3>5. CASE j # Len(events) + 1
      <4>1. j \in 1..Len(events) /\ Len(history) - Len(events) + j \in 1..Len(history)
        BY <3>2, <3>5, <1>1, <1>10
      <4> QED BY <4>1, <3>2, <3>3, <1>4, <1>7, <1>9
    <3> QED BY <3>4, <3>5
  <2> QED BY <2>1, <1>10 DEF BufferOK
<1>12. TypeOK'
  <2>1. post' \in [Events -> {"posted", "stored", "lost"}]
    BY <1>1 DEF TypeOK
  <2>2. todo' \in [Events -> SUBSET Clients]
    BY <1>1 DEF TypeOK
  <2> QED BY <2>1, <2>2, <1>1, <1>4, <1>8, <1>10 DEF TypeOK
<1>13. ASSUME NEW c \in Clients PROVE SnapshotOK(c)' /\ LiveOK(c)' /\ PendingOK(c)'
  <2>1. SnapshotOK(c) /\ LiveOK(c) /\ PendingOK(c)
    BY DEF IInv
  <2>2. /\ snapAt[c] \in Nat /\ since[c] \in Nat /\ snapshot[c] \in Seq(Events)
        /\ Len(snapshot[c]) \in Nat
    BY <1>1, LenProperties DEF TypeOK
  <2>3. SnapshotOK(c)'
    <3>1. CASE client[c] \notin {"snapshot", "subscribed"}
      BY <3>1, <2>1 DEF SnapshotOK
    <3>2. CASE client[c] \in {"snapshot", "subscribed"}
      <4>1. snapAt[c] <= Len(history) /\ Len(snapshot[c]) <= snapAt[c]
        BY <3>2, <2>1, <2>2, HubAssumption DEF SnapshotOK, Least
      <4>2. ASSUME NEW i \in 1..Len(snapshot[c])
            PROVE  snapshot[c][i] = history'[snapAt[c] - Len(snapshot[c]) + i]
        <5>1. snapAt[c] - Len(snapshot[c]) + i \in 1..Len(history)
          BY <4>1, <2>2, <1>1
        <5> QED BY <5>1, <1>4, <3>2, <2>1 DEF SnapshotOK
      <4> QED BY SMTT(30), <4>1, <4>2, <3>2, <2>1, <2>2, <1>1, <1>4 DEF SnapshotOK
    <3> QED BY <3>1, <3>2
  <2>4. Pending(c)' = IF client[c] = "subscribed" THEN Pending(c) \cup {e} ELSE Pending(c)
    <3>1. c \in subscribers <=> client[c] = "subscribed"
      BY <1>1 DEF TypeOK
    <3>2. c \notin todo[e]
      BY <2>1, <1>2 DEF PendingOK, Pending
    <3>3. todo'[e] = subscribers /\ \A x \in Events : x # e => todo'[x] = todo[x]
      BY <1>1 DEF TypeOK
    <3> QED BY <3>1, <3>2, <3>3 DEF Pending
  <2>5. Live(c)' = Live(c)
    BY DEF Live
  <2>6. LiveOK(c)'
    <3>1. CASE client[c] # "subscribed"
      BY <3>1, <2>1 DEF LiveOK
    <3>2. CASE client[c] = "subscribed"
      <4>1. After(history', since[c]) = After(history, since[c]) \cup {e}
        BY <3>2, <2>1, <2>2, <1>1, AfterFacts DEF LiveOK
      <4>2. e \notin Live(c)
        BY <3>2, <2>1, <2>2, <1>1, <1>3, AfterFacts DEF LiveOK
      <4>3. since[c] <= Len(history')
        BY <3>2, <2>1, <2>2, <1>1, <1>4 DEF LiveOK
      <4> QED BY <4>1, <4>2, <4>3, <2>4, <2>5, <3>2, <2>1 DEF LiveOK
    <3> QED BY <3>1, <3>2
  <2>7. PendingOK(c)'
    BY <2>1, <2>4, <1>2 DEF PendingOK
  <2> QED BY <2>3, <2>6, <2>7
<1> QED BY <1>5, <1>11, <1>12, <1>13 DEF IInv

\* An event that is sent to a client comes into its channel, or meets it full.
LEMMA SendStep ==
  ASSUME IInv, NEW e \in Events, NEW d \in Clients, Send(e, d)
  PROVE  IInv'
<1> USE DEF Send, hubVars, clientVars
<1>1. TypeOK /\ HistoryOK /\ BufferOK
  BY DEF IInv
<1>2. chan[d] \in Seq(Events) /\ Len(chan[d]) \in Nat
  BY <1>1, LenProperties DEF TypeOK
<1>3. PICK a : a = Append(chan[d], e)
  OBVIOUS
<1>4. /\ a \in Seq(Events) /\ Len(a) = Len(chan[d]) + 1 /\ Elements(a) = Elements(chan[d]) \cup {e}
      /\ IsInjective(chan[d]) /\ e \notin Elements(chan[d]) => IsInjective(a)
  BY <1>2, <1>3, AppendFacts
<1>5. chan' \in {chan, [chan EXCEPT ![d] = a]}
  BY <1>3
<1>6. \A c \in Clients : c # d => chan'[c] = chan[c] /\ full'[c] = full[c]
  BY <1>1 DEF TypeOK
<1>7. TypeOK'
  <2>1. todo' \in [Events -> SUBSET Clients]
    BY <1>1 DEF TypeOK
  <2>2. chan' \in [Clients -> Seq(Events)]
    BY <1>1, <1>4, <1>5 DEF TypeOK
  <2>3. ASSUME NEW c \in Clients PROVE Len(chan'[c]) <= Capacity
    <3>1. CASE chan' = chan \/ c # d
      BY <3>1, <1>1, <1>6 DEF TypeOK
    <3>2. CASE chan' # chan /\ c = d
      <4>1. Len(chan[d]) < Capacity /\ chan'[d] = a
        BY <3>2, <1>1, <1>5 DEF TypeOK
      <4> QED BY <4>1, <3>2, <1>2, <1>4, HubAssumption
    <3> QED BY <3>1, <3>2
  <2>4. full' \in [Clients -> SUBSET Events]
    <3>1. full \in [Clients -> SUBSET Events]
      BY <1>1 DEF TypeOK
    <3>2. full' = full \/ full' = [full EXCEPT ![d] = @ \cup {e}]
      OBVIOUS
    <3> QED BY <3>1, <3>2
  <2> QED BY <2>1, <2>2, <2>3, <2>4, <1>1 DEF TypeOK
<1>8. Stored' = Stored
  BY DEF Stored
<1>9. HistoryOK' /\ BufferOK'
  BY <1>1, <1>8 DEF HistoryOK, BufferOK
<1>10. /\ e \in Pending(d) /\ Pending(d)' = Pending(d) \ {e}
       /\ \A c \in Clients : c # d => Pending(c)' = Pending(c)
  BY <1>1 DEF Pending, TypeOK
<1>11. SnapshotOK(d)' /\ LiveOK(d)' /\ PendingOK(d)'
  <2>1. SnapshotOK(d) /\ LiveOK(d) /\ PendingOK(d)
    BY DEF IInv
  <2>2. SnapshotOK(d)'
    BY <2>1 DEF SnapshotOK
  <2>3. PendingOK(d)'
    BY <2>1, <1>8, <1>10 DEF PendingOK
  <2>4. CASE client[d] # "subscribed"
    <3>1. client[d] = "gone" /\ chan[d] = <<>>
      BY <2>1, <2>4, <1>10 DEF PendingOK, LiveOK
    <3>2. chan' = chan
      BY <3>1
    <3> QED BY <2>1, <2>2, <2>3, <2>4, <3>2 DEF LiveOK
  <2>5. CASE client[d] = "subscribed"
    <3>1. e \notin Elements(shown[d]) /\ e \notin Elements(chan[d])
      BY <2>1, <2>5, <1>10 DEF LiveOK, Live
    <3>2. CASE Len(chan[d]) < Capacity
      <4>1. chan'[d] = a /\ full' = full
        BY <3>2, <2>5, <1>1, <1>3 DEF TypeOK
      <4>2. Live(d)' = Live(d) \cup {e} /\ Elements(chan'[d]) = Elements(chan[d]) \cup {e}
        BY <4>1, <1>4 DEF Live
      <4>3. IsInjective(chan'[d])
        BY <4>1, <3>1, <1>4, <2>1, <2>5 DEF LiveOK
      <4> QED BY <4>1, <4>2, <4>3, <3>1, <2>1, <2>2, <2>3, <2>5, <1>10 DEF LiveOK
    <3>3. CASE ~(Len(chan[d]) < Capacity)
      <4>1. chan' = chan /\ full'[d] = full[d] \cup {e} /\ Live(d)' = Live(d)
        BY <3>3, <1>1 DEF TypeOK, Live
      <4> QED BY <4>1, <2>1, <2>2, <2>3, <2>5, <1>10 DEF LiveOK
    <3> QED BY <3>2, <3>3
  <2> QED BY <2>4, <2>5
<1>12. ASSUME NEW c \in Clients, c # d PROVE SnapshotOK(c)' /\ LiveOK(c)' /\ PendingOK(c)'
  BY <1>6, <1>8, <1>10, <1>12, ClientFrame DEF IInv
<1> QED BY <1>7, <1>9, <1>11, <1>12 DEF IInv

\* A snapshot is the end of the history as it is then.
LEMMA SnapshotStep ==
  ASSUME IInv, NEW d \in Clients, Snapshot(d)
  PROVE  IInv'
<1> USE DEF Snapshot, hubVars
<1>1. /\ TypeOK /\ HistoryOK /\ BufferOK
      /\ events \in Seq(Events) /\ Len(events) \in Nat
      /\ history \in Seq(Events) /\ Len(history) \in Nat
  BY LenProperties DEF IInv, TypeOK
<1>2. /\ Recent \in Seq(Events) /\ Len(Recent) = Least(Window, Len(events))
      /\ \A i \in 1..Len(Recent) : Recent[i] = events[Len(events) - Len(Recent) + i]
  BY <1>1, LastNFacts, HubAssumption DEF Recent
<1>3. /\ Len(events) = Least(BufferMax, Len(history))
      /\ \A i \in 1..Len(events) : events[i] = history[Len(history) - Len(events) + i]
  BY <1>1 DEF BufferOK
<1>4. Len(Recent) \in Nat /\ Len(Recent) <= Len(events) /\ Len(Recent) <= Window
  BY <1>1, <1>2, HubAssumption DEF Least
<1>5. Len(history) \in 0..MaxEvents
  BY <1>1, StoredFacts DEF HistoryOK
<1>6. /\ client'[d] = "snapshot" /\ snapshot'[d] = Recent /\ snapAt'[d] = Len(history)
      /\ client[d] = "away"
      /\ \A c \in Clients : c # d => /\ client'[c] = client[c] /\ snapshot'[c] = snapshot[c]
                                     /\ snapAt'[c] = snapAt[c]
  BY <1>1 DEF TypeOK
<1>7. TypeOK'
  <2>1. client' \in [Clients -> {"away", "snapshot", "subscribed", "gone"}]
    BY <1>1 DEF TypeOK
  <2>2. subscribers' = {c \in Clients : client'[c] = "subscribed"}
    BY <1>1, <1>6 DEF TypeOK
  <2>3. snapshot' \in [Clients -> Seq(Events)] /\ \A c \in Clients : Len(snapshot'[c]) <= Window
    BY <1>1, <1>2, <1>4, <1>6 DEF TypeOK
  <2>4. snapAt' \in [Clients -> 0..MaxEvents]
    BY <1>1, <1>5 DEF TypeOK
  <2> QED BY <2>1, <2>2, <2>3, <2>4, <1>1 DEF TypeOK
<1>8. Stored' = Stored /\ HistoryOK' /\ BufferOK'
  BY <1>1 DEF HistoryOK, BufferOK, Stored
<1>9. \A c \in Clients : Pending(c)' = Pending(c)
  BY DEF Pending
<1>10. SnapshotOK(d)' /\ LiveOK(d)' /\ PendingOK(d)'
  <2>1. LiveOK(d) /\ PendingOK(d)
    BY DEF IInv
  <2>2. ASSUME NEW i \in 1..Len(Recent)
        PROVE  Recent[i] = history[Len(history) - Len(Recent) + i]
    <3>1. PICK j : j = Len(events) - Len(Recent) + i
      OBVIOUS
    <3>2. j \in 1..Len(events)
      BY <3>1, <1>1, <1>4
    <3>3. Recent[i] = history[Len(history) - Len(events) + j]
      BY <3>1, <3>2, <1>2, <1>3
    <3>4. Len(history) - Len(events) + j = Len(history) - Len(Recent) + i
      BY <3>1, <1>1, <1>4
    <3> QED BY <3>3, <3>4
  <2>3. SnapshotOK(d)'
    BY <2>2, <1>1, <1>2, <1>3, <1>6 DEF SnapshotOK
  <2>4. LiveOK(d)' /\ PendingOK(d)'
    BY <2>1, <1>6, <1>8, <1>9 DEF LiveOK, PendingOK
  <2> QED BY <2>3, <2>4
<1>11. ASSUME NEW c \in Clients, c # d PROVE SnapshotOK(c)' /\ LiveOK(c)' /\ PendingOK(c)'
  BY <1>6, <1>8, <1>9, <1>11, ClientFrame DEF IInv
<1> QED BY <1>7, <1>8, <1>10, <1>11 DEF IInv

\* A client that subscribes is owed what is stored from then on.
LEMMA SubscribeStep ==
  ASSUME IInv, NEW d \in Clients, Subscribe(d)
  PROVE  IInv'
<1> USE DEF Subscribe
<1>1. /\ TypeOK /\ HistoryOK /\ BufferOK
      /\ history \in Seq(Events) /\ Len(history) \in Nat
  BY LenProperties DEF IInv, TypeOK
<1>2. Len(history) \in 0..MaxEvents
  BY <1>1, StoredFacts DEF HistoryOK
<1>3. /\ client[d] = "snapshot" /\ client'[d] = "subscribed" /\ since'[d] = Len(history)
      /\ \A c \in Clients : c # d => client'[c] = client[c] /\ since'[c] = since[c]
  BY <1>1 DEF TypeOK
<1>4. TypeOK'
  <2>1. client' \in [Clients -> {"away", "snapshot", "subscribed", "gone"}]
    BY <1>1 DEF TypeOK
  <2>2. subscribers' = {c \in Clients : client'[c] = "subscribed"}
    BY <1>1, <1>3 DEF TypeOK
  <2>3. since' \in [Clients -> 0..MaxEvents]
    BY <1>1, <1>2 DEF TypeOK
  <2> QED BY <2>1, <2>2, <2>3, <1>1 DEF TypeOK
<1>5. Stored' = Stored /\ HistoryOK' /\ BufferOK'
  BY <1>1 DEF HistoryOK, BufferOK, Stored
<1>6. \A c \in Clients : Pending(c)' = Pending(c)
  BY DEF Pending
<1>7. SnapshotOK(d)' /\ LiveOK(d)' /\ PendingOK(d)'
  <2>1. SnapshotOK(d) /\ LiveOK(d) /\ PendingOK(d)
    BY DEF IInv
  <2>2. SnapshotOK(d)'
    BY <2>1, <1>3 DEF SnapshotOK
  <2>3. Pending(d) = {} /\ shown[d] = <<>> /\ chan[d] = <<>>
    BY <2>1, <1>3 DEF PendingOK, LiveOK
  <2>4. After(history, Len(history)) = {}
    BY <1>1 DEF After
  <2>5. snapAt[d] <= Len(history)
    BY <2>1, <1>3 DEF SnapshotOK
  <2>6. LiveOK(d)'
    BY <2>3, <2>4, <2>5, <1>1, <1>3, <1>6, EmptyFacts DEF LiveOK, Live
  <2>7. PendingOK(d)'
    BY <2>1, <1>3, <1>5, <1>6 DEF PendingOK
  <2> QED BY <2>2, <2>6, <2>7
<1>8. ASSUME NEW c \in Clients, c # d PROVE SnapshotOK(c)' /\ LiveOK(c)' /\ PendingOK(c)'
  BY <1>3, <1>5, <1>6, <1>8, ClientFrame DEF IInv
<1> QED BY <1>4, <1>5, <1>7, <1>8 DEF IInv

\* An event goes from the channel to what was shown.
LEMMA ShowStep ==
  ASSUME IInv, NEW d \in Clients, Show(d)
  PROVE  IInv'
<1> USE DEF Show, hubVars, ghosts
<1>1. TypeOK /\ HistoryOK /\ BufferOK /\ chan[d] \in Seq(Events) /\ shown[d] \in Seq(Events)
  BY DEF IInv, TypeOK
<1>2. PICK t, e : t = Tail(chan[d]) /\ e = Head(chan[d])
  OBVIOUS
<1>3. /\ t \in Seq(Events) /\ Len(t) <= Len(chan[d]) /\ e \in Events
      /\ Elements(chan[d]) = Elements(t) \cup {e}
      /\ IsInjective(chan[d]) => IsInjective(t) /\ e \notin Elements(t)
  BY <1>1, <1>2, TailFacts
<1>4. PICK a : a = Append(shown[d], e)
  OBVIOUS
<1>5. /\ a \in Seq(Events) /\ Elements(a) = Elements(shown[d]) \cup {e}
      /\ IsInjective(shown[d]) /\ e \notin Elements(shown[d]) => IsInjective(a)
  BY <1>1, <1>3, <1>4, AppendFacts
<1>6. /\ chan'[d] = t /\ shown'[d] = a
      /\ \A c \in Clients : c # d => chan'[c] = chan[c] /\ shown'[c] = shown[c]
  BY <1>1, <1>2, <1>4 DEF TypeOK
<1>7. TypeOK'
  <2>1. chan' \in [Clients -> Seq(Events)]
    BY <1>1, <1>2, <1>3 DEF TypeOK
  <2>2. ASSUME NEW c \in Clients PROVE Len(chan'[c]) <= Capacity
    <3>1. Len(t) \in Nat /\ Len(chan[d]) \in Nat /\ Capacity \in Nat
      BY <1>1, <1>3, LenProperties, HubAssumption
    <3>2. Len(chan[c]) <= Capacity /\ Len(chan[d]) <= Capacity
      BY <1>1 DEF TypeOK
    <3> QED BY <3>1, <3>2, <1>3, <1>6
  <2>3. shown' \in [Clients -> Seq(Events)]
    BY <1>1, <1>2, <1>4, <1>5 DEF TypeOK
  <2> QED BY <2>1, <2>2, <2>3, <1>1 DEF TypeOK
<1>8. Stored' = Stored /\ HistoryOK' /\ BufferOK'
  BY <1>1 DEF HistoryOK, BufferOK, Stored
<1>9. \A c \in Clients : Pending(c)' = Pending(c)
  BY DEF Pending
<1>10. SnapshotOK(d)' /\ LiveOK(d)' /\ PendingOK(d)'
  <2>1. SnapshotOK(d) /\ LiveOK(d) /\ PendingOK(d)
    BY DEF IInv
  <2>2. SnapshotOK(d)' /\ PendingOK(d)'
    BY <2>1, <1>8, <1>9 DEF SnapshotOK, PendingOK
  <2>3. Live(d)' = Live(d)
    BY <1>3, <1>5, <1>6 DEF Live
  <2>4. IsInjective(t) /\ IsInjective(a) /\ Elements(a) \cap Elements(t) = {}
    BY <2>1, <1>3, <1>5 DEF LiveOK
  <2>5. LiveOK(d)'
    BY <2>1, <2>3, <2>4, <1>6, <1>9 DEF LiveOK
  <2> QED BY <2>2, <2>5
<1>11. ASSUME NEW c \in Clients, c # d PROVE SnapshotOK(c)' /\ LiveOK(c)' /\ PendingOK(c)'
  BY <1>6, <1>8, <1>9, <1>11, ClientFrame DEF IInv
<1> QED BY <1>7, <1>8, <1>10, <1>11 DEF IInv

\* Nothing is left of a connection that has gone but what is being sent to it.
LEMMA DisconnectStep ==
  ASSUME IInv, NEW d \in Clients, Disconnect(d)
  PROVE  IInv'
<1> USE DEF Disconnect
<1>1. TypeOK /\ HistoryOK /\ BufferOK
  BY DEF IInv
<1>2. /\ client'[d] = "gone" /\ chan'[d] = <<>> /\ snapshot'[d] = <<>> /\ shown'[d] = <<>>
      /\ \A c \in Clients : c # d =>
           /\ client'[c] = client[c] /\ chan'[c] = chan[c] /\ snapshot'[c] = snapshot[c]
           /\ shown'[c] = shown[c] /\ full'[c] = full[c] /\ snapAt'[c] = snapAt[c]
           /\ since'[c] = since[c]
  BY <1>1 DEF TypeOK
<1>3. TypeOK'
  <2>1. client' \in [Clients -> {"away", "snapshot", "subscribed", "gone"}]
    BY <1>1 DEF TypeOK
  <2>2. subscribers' = {c \in Clients : client'[c] = "subscribed"}
    BY <1>1, <1>2 DEF TypeOK
  <2>3. chan' \in [Clients -> Seq(Events)] /\ \A c \in Clients : Len(chan'[c]) <= Capacity
    BY <1>1, <1>2, EmptyFacts, HubAssumption DEF TypeOK
  <2>4. snapshot' \in [Clients -> Seq(Events)] /\ \A c \in Clients : Len(snapshot'[c]) <= Window
    BY <1>1, <1>2, EmptyFacts, HubAssumption DEF TypeOK
  <2>5. shown' \in [Clients -> Seq(Events)]
    BY <1>1, EmptyFacts DEF TypeOK
  <2>6. snapAt' \in [Clients -> 0..MaxEvents] /\ since' \in [Clients -> 0..MaxEvents]
    BY <1>1, HubAssumption DEF TypeOK
  <2>7. full' \in [Clients -> SUBSET Events]
    BY <1>1 DEF TypeOK
  <2> QED BY <2>1, <2>2, <2>3, <2>4, <2>5, <2>6, <2>7, <1>1 DEF TypeOK
<1>4. Stored' = Stored /\ HistoryOK' /\ BufferOK'
  BY <1>1 DEF HistoryOK, BufferOK, Stored
<1>5. \A c \in Clients : Pending(c)' = Pending(c)
  BY DEF Pending
<1>6. SnapshotOK(d)' /\ LiveOK(d)' /\ PendingOK(d)'
  <2>1. PendingOK(d)
    BY DEF IInv
  <2> QED BY <2>1, <1>2, <1>4, <1>5 DEF SnapshotOK, LiveOK, PendingOK
<1>7. ASSUME NEW c \in Clients, c # d PROVE SnapshotOK(c)' /\ LiveOK(c)' /\ PendingOK(c)'
  BY <1>2, <1>4, <1>5, <1>7, ClientFrame DEF IInv
<1> QED BY <1>3, <1>4, <1>6, <1>7 DEF IInv

\* The invariant holds in every state that is reached.
THEOREM Invariance == Spec => []IInv
<1>1. ASSUME IInv, [Next]_vars PROVE IInv'
  <2>1. ASSUME NEW e \in Events, Lose(e) PROVE IInv'
    BY <1>1, <2>1, LoseStep
  <2>2. ASSUME NEW e \in Events, Store(e) PROVE IInv'
    BY <1>1, <2>2, StoreStep
  <2>3. ASSUME NEW e \in Events, NEW c \in Clients, Send(e, c) PROVE IInv'
    BY <1>1, <2>3, SendStep
  <2>4. ASSUME NEW c \in Clients, Snapshot(c) PROVE IInv'
    BY <1>1, <2>4, SnapshotStep
  <2>5. ASSUME NEW c \in Clients, Subscribe(c) PROVE IInv'
    BY <1>1, <2>5, SubscribeStep
  <2>6. ASSUME NEW c \in Clients, Show(c) PROVE IInv'
    BY <1>1, <2>6, ShowStep
  <2>7. ASSUME NEW c \in Clients, Disconnect(c) PROVE IInv'
    BY <1>1, <2>7, DisconnectStep
  <2>8. CASE UNCHANGED vars
    <3>1. TypeOK' /\ Stored' = Stored
      BY <1>1, <2>8 DEF IInv, TypeOK, Stored, vars
    <3>2. HistoryOK' /\ BufferOK'
      BY <1>1, <2>8, <3>1 DEF IInv, HistoryOK, BufferOK, vars
    <3>3. ASSUME NEW c \in Clients PROVE SnapshotOK(c)' /\ LiveOK(c)' /\ PendingOK(c)'
      <4>1. Pending(c)' = Pending(c)
        BY <2>8 DEF Pending, vars
      <4> QED BY <1>1, <2>8, <3>1, <4>1, ClientFrame DEF IInv, vars
    <3> QED BY <3>1, <3>2, <3>3 DEF IInv
  <2> QED BY <1>1, <2>1, <2>2, <2>3, <2>4, <2>5, <2>6, <2>7, <2>8 DEF Next, Handle
<1> QED BY Initially, <1>1, PTL DEF Spec

----------------------------------------------------------------------------
(* What it means for the clients.                                          *)

\* The types of the hub and of its connections: above all, that no channel, no
\* snapshot and no buffer is longer than it may be.
THEOREM TypeCorrect == Spec => []TypeOK
<1>1. IInv => TypeOK
  BY DEF IInv
<1> QED BY Invariance, <1>1, PTL

\* A snapshot's events were stored before the subscription of the client, all that
\* comes over its channel after it: no event is seen twice.
THEOREM NoneTwice == Spec => []SeenOnce
<1>1. ASSUME IInv, NEW c \in Clients
      PROVE  IsInjective(snapshot[c] \o shown[c] \o chan[c])
  <2>1. /\ TypeOK /\ HistoryOK /\ SnapshotOK(c) /\ LiveOK(c)
        /\ snapshot[c] \in Seq(Events) /\ shown[c] \in Seq(Events) /\ chan[c] \in Seq(Events)
        /\ history \in Seq(Events) /\ DOMAIN history = 1..Len(history) /\ Len(history) \in Nat
        /\ Len(snapshot[c]) \in Nat /\ DOMAIN snapshot[c] = 1..Len(snapshot[c])
        /\ snapAt[c] \in Nat /\ since[c] \in Nat
    BY <1>1, LenProperties, HubAssumption DEF IInv, TypeOK
  <2>2. ASSUME client[c] \in {"snapshot", "subscribed"}
        PROVE  /\ snapAt[c] <= Len(history)
               /\ \A i \in 1..Len(snapshot[c]) :
                    /\ snapAt[c] - Len(snapshot[c]) + i \in 1..snapAt[c]
                    /\ snapAt[c] - Len(snapshot[c]) + i \in DOMAIN history
                    /\ snapshot[c][i] = history[snapAt[c] - Len(snapshot[c]) + i]
    <3>1. snapAt[c] <= Len(history) /\ Len(snapshot[c]) <= snapAt[c]
      BY <2>1, <2>2, HubAssumption DEF SnapshotOK, Least
    <3> QED BY <2>1, <2>2, <3>1 DEF SnapshotOK
  <2>3. IsInjective(snapshot[c])
    <3>1. CASE client[c] \notin {"snapshot", "subscribed"}
      BY <3>1, <2>1, EmptyFacts DEF SnapshotOK
    <3>2. CASE client[c] \in {"snapshot", "subscribed"}
      <4>1. ASSUME NEW i \in 1..Len(snapshot[c]), NEW j \in 1..Len(snapshot[c]),
                   snapshot[c][i] = snapshot[c][j]
            PROVE  i = j
        <5>1. snapAt[c] - Len(snapshot[c]) + i = snapAt[c] - Len(snapshot[c]) + j
          BY <2>1, <2>2, <3>2, <4>1 DEF HistoryOK, IsInjective
        <5> QED BY <5>1, <2>1
      <4> QED BY <4>1, <2>1 DEF IsInjective
    <3> QED BY <3>1, <3>2
  <2>4. CASE client[c] # "subscribed"
    BY <2>1, <2>3, <2>4, EmptyFacts, ConcatInjective DEF LiveOK
  <2>5. CASE client[c] = "subscribed"
    <3>1. Elements(snapshot[c]) \cap After(history, since[c]) = {}
      <4>1. ASSUME NEW i \in 1..Len(snapshot[c]), NEW j \in 1..Len(history), since[c] < j,
                   snapshot[c][i] = history[j]
            PROVE  FALSE
        <5>1. snapAt[c] - Len(snapshot[c]) + i = j
          BY <2>1, <2>2, <2>5, <4>1 DEF HistoryOK, IsInjective
        <5>2. j \in 1..snapAt[c] /\ snapAt[c] <= since[c]
          BY <2>1, <2>2, <2>5, <5>1 DEF LiveOK
        <5> QED BY <5>2, <2>1, <4>1
      <4> QED BY <4>1, <2>1 DEF Elements, After
    <3>2. /\ Elements(snapshot[c]) \cap Elements(shown[c]) = {}
          /\ Elements(snapshot[c]) \cap Elements(chan[c]) = {}
          /\ Elements(shown[c]) \cap Elements(chan[c]) = {}
          /\ IsInjective(shown[c]) /\ IsInjective(chan[c])
      BY <3>1, <2>1, <2>5 DEF LiveOK, Live
    <3> QED BY <3>2, <2>1, <2>3, ConcatInjective
  <2> QED BY <2>4, <2>5
<1>2. IInv => SeenOnce
  BY <1>1 DEF SeenOnce
<1> QED BY Invariance, <1>2, PTL

\* A connected client knows, or is yet to be sent, every event but those stored
\* between its snapshot and its subscription, those the snapshot's window had left
\* behind, and those that met its own channel full.
THEOREM MissedOnlyFor == Spec => []MissedForAReason
<1>1. ASSUME IInv, NEW c \in Clients, NEW i \in DOMAIN history, client[c] = "subscribed",
             ~(snapAt[c] < i /\ i <= since[c])
      PROVE  \/ history[i] \in Elements(snapshot[c]) \cup Elements(shown[c]) \cup Elements(chan[c])
             \/ history[i] \in full[c] \/ c \in todo[history[i]]
             \/ i <= snapAt[c] /\ i + Least(Window, BufferMax) <= snapAt[c]
  <2>1. /\ TypeOK /\ SnapshotOK(c) /\ LiveOK(c)
        /\ history \in Seq(Events) /\ DOMAIN history = 1..Len(history) /\ Len(history) \in Nat
        /\ snapshot[c] \in Seq(Events)
        /\ Len(snapshot[c]) \in Nat /\ DOMAIN snapshot[c] = 1..Len(snapshot[c])
        /\ snapAt[c] \in Nat /\ since[c] \in Nat
    BY <1>1, LenProperties, HubAssumption DEF IInv, TypeOK
  <2>2. i \in 1..Len(history)
    BY <2>1
  <2>3. CASE since[c] < i
    <3>1. history[i] \in After(history, since[c])
      BY <2>2, <2>3 DEF After
    <3> QED BY <3>1, <2>1, <1>1 DEF LiveOK, Live, Pending
  <2>4. CASE ~(since[c] < i)
    <3>1. i <= snapAt[c]
      BY <2>1, <2>2, <2>4, <1>1
    <3>2. PICK k : k = Least(Window, BufferMax)
      OBVIOUS
    <3>3. k \in Nat /\ Len(snapshot[c]) = Least(k, snapAt[c])
      BY <3>2, <2>1, <1>1, HubAssumption DEF SnapshotOK, Least
    <3>4. CASE i + k <= snapAt[c]
      BY <3>1, <3>2, <3>4
    <3>5. CASE ~(i + k <= snapAt[c])
      <4>1. PICK j : j = i - (snapAt[c] - Len(snapshot[c]))
        OBVIOUS
      <4>2. j \in 1..Len(snapshot[c]) /\ snapAt[c] - Len(snapshot[c]) + j = i
        BY <4>1, <3>1, <3>3, <3>5, <2>1, <2>2 DEF Least
      <4>3. snapshot[c][j] = history[i]
        BY <4>2, <2>1, <1>1 DEF SnapshotOK
      <4>4. history[i] \in Elements(snapshot[c])
        BY <4>2, <4>3, <2>1 DEF Elements
      <4> QED BY <4>4
    <3> QED BY <3>4, <3>5
  <2> QED BY <2>3, <2>4
<1>2. IInv => MissedForAReason
  BY <1>1 DEF MissedForAReason, Least
<1> QED BY Invariance, <1>2, PTL

=============================================================================
