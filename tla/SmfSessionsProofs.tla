------------------------- MODULE SmfSessionsProofs -------------------------
(***************************************************************************)
(* Proofs about SmfSessions, for every number of handlers, subscribers,    *)
(* addresses and TEIDs.                                                    *)
(*                                                                         *)
(* The handlers take the pool, the TEID counter and the store one after    *)
(* the other, so none of the invariants is inductive alone.  IInv adds     *)
(*   - Counting: every address handed out is, up to the handlers still on  *)
(*     their way, one TEID and one session id.  This bounds the session    *)
(*     ids, and keeps the TEID counter from wrapping, by the pool alone;   *)
(*   - what a handler on its way holds, and that nobody else has it.       *)
(***************************************************************************)
EXTENDS SmfSessions, FiniteSetTheorems, TLAPS

\* Handlers that hold an address and no TEID yet, or no session id yet.
WantTeid == {h \in Handlers : req[h].pc = "teid"}
WantId   == {h \in Handlers : req[h].pc \in {"teid", "add"}}

Counting ==
  /\ teidCounter + Cardinality(WantTeid) = next - 1
  /\ counter + Cardinality(WantId) = next - 1

Messages == wire \cup upf

\* What handlers that create a session hold is theirs alone.
CreatorsApart ==
  /\ \A h \in WantId :
       /\ req[h].ip \in 1..(next - 1)
       /\ req[h].supi \in Supis
       /\ \A g \in WantId : g # h => req[g].ip # req[h].ip
       /\ \A i \in SessionIds : Live(i) => sessions[i].ip # req[h].ip
  /\ \A h \in Handlers : req[h].pc \in {"add", "post"} =>
       /\ req[h].teid \in 1..teidCounter
       /\ \A g \in Handlers :
            (g # h /\ req[g].pc \in {"add", "post"}) => req[g].teid # req[h].teid
       /\ \A m \in Messages : m.teid # req[h].teid
  /\ \A h \in Handlers : req[h].pc = "add" =>
       \A i \in SessionIds : Live(i) => sessions[i].teid # req[h].teid
  /\ \A h \in Handlers : req[h].pc \in {"post", "await"} =>
       /\ req[h].ip \in Addresses
       /\ req[h].ref \in 1..counter

\* What is stored or was sent comes from the part of each counter used up.
UsedUp ==
  /\ \A i \in SessionIds : Live(i) =>
       /\ i \in 1..counter
       /\ sessions[i].ip \in 1..(next - 1)
       /\ sessions[i].teid \in 1..teidCounter
  /\ \A m \in Messages : m.teid \in 1..teidCounter

\* A release works on one session's address, whoever else releases it too.
ReleasersApart ==
  \A h \in Handlers : req[h].pc \in {"release", "delete"} =>
    /\ req[h].ref \in 1..counter
    /\ req[h].ip \in 1..(next - 1)
    /\ \A g \in WantId : req[g].ip # req[h].ip
    /\ \A i \in SessionIds : Live(i) => (sessions[i].ip = req[h].ip <=> i = req[h].ref)

IInv ==
  /\ TypeOK
  /\ Counting
  /\ CreatorsApart
  /\ UsedUp
  /\ ReleasersApart
  /\ UniqueSessions
  /\ UpfTeidOwner
  /\ PoolTracksSessions
----------------------------------------------------------------------------
(* Counting handlers.                                                      *)

LEMMA WantFinite ==
  ASSUME NEW S, S \subseteq Handlers
  PROVE  /\ IsFiniteSet(S)
         /\ Cardinality(S) \in Nat
         /\ \A h : h \in S => Cardinality(S \ {h}) = Cardinality(S) - 1
         /\ \A h : h \in S => Cardinality(S) >= 1
         /\ \A h : h \notin S => Cardinality(S \cup {h}) = Cardinality(S) + 1
<1>1. IsFiniteSet(S)
  BY SmfAssumption, FS_Subset
<1>2. Cardinality(S) \in Nat
  BY <1>1, FS_CardinalityType
<1>3. \A h : h \in S => Cardinality(S \ {h}) = Cardinality(S) - 1
  BY <1>1, FS_RemoveElement
<1>4. \A h : h \notin S => Cardinality(S \cup {h}) = Cardinality(S) + 1
  BY <1>1, FS_AddElement
<1>5. ASSUME NEW h \in S PROVE Cardinality(S) >= 1
  <2>1. Cardinality(S \ {h}) \in Nat
    BY <1>1, FS_RemoveElement, FS_CardinalityType
  <2> QED BY <2>1, <1>2, <1>3
<1> QED BY <1>1, <1>2, <1>3, <1>4, <1>5

\* Nobody is on its way in the initial state, and no address is handed out.
LEMMA InitIInv == Init => IInv
<1> SUFFICES ASSUME Init PROVE IInv
  OBVIOUS
<1> USE SmfAssumption DEF Init
<1>1. TypeOK
  BY DEF TypeOK, RequestType, Idle, Request, Stages, Codes, Addresses, SessionIds, Teids
<1>2. WantTeid = {} /\ WantId = {}
  BY DEF WantTeid, WantId, Idle, Request
<1>3. Counting
  BY <1>2, FS_EmptySet DEF Counting
<1>4. CreatorsApart /\ UsedUp /\ ReleasersApart
  BY <1>2 DEF CreatorsApart, UsedUp, ReleasersApart, Idle, Request, Live, Messages
<1>5. UniqueSessions /\ UpfTeidOwner
  BY DEF UniqueSessions, UpfTeidOwner, Live
<1>6. PoolTracksSessions
  BY DEF PoolTracksSessions, Holding, HalfReleased, Live, Idle, Request
<1> QED BY <1>1, <1>3, <1>4, <1>5, <1>6 DEF IInv

----------------------------------------------------------------------------
(* Every step keeps IInv: one lemma per action that changes what it speaks *)
(* about.                                                                  *)

LEMMA AllocateKeeps ==
  ASSUME IInv, NEW h \in Handlers, NEW s \in Supis, Allocate(h, s)
  PROVE  IInv'
<1> USE SmfAssumption
<1>0. /\ req[h].pc = "idle"
      /\ next \in 1..PoolSize
      /\ next' = next + 1
      /\ allocated' = [allocated EXCEPT ![next] = s]
      /\ req' = [req EXCEPT ![h] =
                   [pc |-> "teid", supi |-> s, ip |-> next, teid |-> 0, ref |-> 0]]
      /\ answer' = [answer EXCEPT ![h] = "none"]
      /\ UNCHANGED <<teidCounter, counter, sessions, wire, upf>>
  <2>1. next \in 1..PoolSize
    BY DEF IInv, TypeOK, RequestType, Allocate, PoolExhausted
  <2>2. UNCHANGED <<teidCounter, counter, sessions, wire, upf>>
    BY DEF Allocate, store, n4
  <2> QED BY <2>1, <2>2 DEF Allocate, Request
<1>1. TypeOK'
  BY <1>0 DEF IInv, TypeOK, RequestType, Addresses, Teids, Stages, Codes
<1>2. Counting'
  <2>1. WantTeid' = WantTeid \cup {h} /\ h \notin WantTeid
    BY <1>0 DEF WantTeid, IInv, TypeOK, RequestType
  <2>2. WantId' = WantId \cup {h} /\ h \notin WantId
    BY <1>0 DEF WantId, IInv, TypeOK, RequestType
  <2>3. WantTeid \subseteq Handlers /\ WantId \subseteq Handlers
    BY DEF WantTeid, WantId
  <2>4. /\ Cardinality(WantTeid') = Cardinality(WantTeid) + 1
        /\ Cardinality(WantId') = Cardinality(WantId) + 1
        /\ Cardinality(WantTeid) \in Nat
        /\ Cardinality(WantId) \in Nat
    BY <2>1, <2>2, <2>3, WantFinite
  <2> QED BY <1>0, <2>4 DEF Counting, IInv, TypeOK, RequestType, Teids
<1>3. CreatorsApart'
  BY <1>0, <1>1 DEF IInv, TypeOK, RequestType, CreatorsApart, UsedUp, WantId, Live, Messages
<1>4. UsedUp' /\ UniqueSessions' /\ UpfTeidOwner'
  BY <1>0 DEF IInv, TypeOK, RequestType, UsedUp, UniqueSessions, UpfTeidOwner, Live, Messages
<1>5. ReleasersApart'
  BY <1>0 DEF IInv, TypeOK, RequestType, ReleasersApart, WantId, Live
<1>6. PoolTracksSessions'
  BY <1>0 DEF IInv, TypeOK, RequestType, PoolTracksSessions, CreatorsApart, UsedUp, WantId,
              Holding, HalfReleased, Live, Addresses
<1> QED BY <1>1, <1>2, <1>3, <1>4, <1>5, <1>6 DEF IInv

LEMMA AllocateTEIDKeeps ==
  ASSUME IInv, NEW h \in Handlers, AllocateTEID(h)
  PROVE  IInv'
<1> USE SmfAssumption
<1>1. /\ WantTeid' = WantTeid \ {h}
      /\ h \in WantTeid
      /\ WantId' = WantId
  BY DEF AllocateTEID, WantTeid, WantId, IInv, TypeOK, RequestType
<1>2. WantTeid \subseteq Handlers
  BY DEF WantTeid
<1>3. Cardinality(WantTeid') = Cardinality(WantTeid) - 1 /\ Cardinality(WantTeid) \in Nat
      /\ Cardinality(WantTeid) >= 1
  BY <1>1, <1>2, WantFinite
<1>4. teidCounter + 1 <= PoolSize
  BY <1>3 DEF Counting, IInv, TypeOK, RequestType, Teids
<1>5. teidCounter \in Nat /\ teidCounter + 1 < TeidSpace
  BY <1>4 DEF IInv, TypeOK, RequestType, Teids
<1>6. (teidCounter + 1) % TeidSpace = teidCounter + 1
  BY <1>5
<1>7. /\ req[h].pc = "teid"
      /\ teidCounter' = teidCounter + 1
      /\ req' = [req EXCEPT ![h].pc = "add", ![h].teid = teidCounter + 1]
      /\ UNCHANGED <<next, allocated, counter, sessions, answer, wire, upf>>
  BY <1>6 DEF AllocateTEID, pool, store, n4, IInv, TypeOK, RequestType
<1>8. TypeOK'
  <2>1. teidCounter + 1 \in Teids /\ "add" \in Stages
    BY <1>5 DEF Teids, Stages
  <2>2. req \in [Handlers -> RequestType]
    BY DEF IInv, TypeOK
  <2>3. req' \in [Handlers -> RequestType]
    BY <1>7, <2>1, <2>2 DEF RequestType
  <2> QED BY <1>7, <2>1, <2>3 DEF IInv, TypeOK
<1>9. Counting'
  BY <1>1, <1>3, <1>7 DEF Counting, IInv, TypeOK, RequestType, Teids
<1>10. CreatorsApart'
  BY <1>5, <1>7 DEF IInv, TypeOK, RequestType, CreatorsApart, UsedUp, WantId, Live, Messages
<1>11. UsedUp' /\ UniqueSessions' /\ UpfTeidOwner'
  BY <1>5, <1>7 DEF IInv, TypeOK, RequestType, UsedUp, UniqueSessions, UpfTeidOwner, Live, Messages
<1>12. ReleasersApart'
  BY <1>7 DEF IInv, TypeOK, RequestType, ReleasersApart, WantId, Live
<1>13. PoolTracksSessions'
  BY <1>7 DEF IInv, TypeOK, RequestType, PoolTracksSessions, Holding, HalfReleased, Live
<1> QED BY <1>8, <1>9, <1>10, <1>11, <1>12, <1>13 DEF IInv

LEMMA AddSessionKeeps ==
  ASSUME IInv, NEW h \in Handlers, AddSession(h)
  PROVE  IInv'
<1> USE SmfAssumption
<1> DEFINE new == [supi |-> req[h].supi, ip |-> req[h].ip, teid |-> req[h].teid]
<1>0. PICK k : k = counter + 1
  OBVIOUS
<1>1. /\ req[h].pc = "add"
      /\ counter' = k
      /\ sessions' = [sessions EXCEPT ![k] = new]
      /\ req' = [req EXCEPT ![h].pc = "post", ![h].ref = k]
      /\ UNCHANGED <<next, allocated, teidCounter, answer, wire, upf>>
  BY <1>0 DEF AddSession, pool, n4, IInv, TypeOK, RequestType
<1>2. /\ WantId' = WantId \ {h}
      /\ h \in WantId
      /\ WantTeid' = WantTeid
      /\ WantId \subseteq Handlers
  BY <1>1 DEF WantTeid, WantId, IInv, TypeOK, RequestType
<1>3. Cardinality(WantId') = Cardinality(WantId) - 1 /\ Cardinality(WantId) \in Nat
      /\ Cardinality(WantId) >= 1
  BY <1>2, WantFinite
<1>4. counter \in Nat /\ k = counter + 1 /\ k \in SessionIds
  BY <1>0, <1>3 DEF Counting, IInv, TypeOK, RequestType, SessionIds
<1>5. new \in Session /\ new # NoSession
  BY <1>1, <1>2, NoSessionIsNone DEF Session, IInv, TypeOK, RequestType, CreatorsApart, Addresses
<1>6. TypeOK'
  <2>1. k \in 0..PoolSize /\ "post" \in Stages
    BY <1>4 DEF SessionIds, Stages
  <2>2. req \in [Handlers -> RequestType]
    BY DEF IInv, TypeOK
  <2>3. req' \in [Handlers -> RequestType]
    BY <1>1, <2>1, <2>2 DEF RequestType
  <2>4. sessions' \in [SessionIds -> Session \cup {NoSession}]
    BY <1>1, <1>5 DEF IInv, TypeOK, RequestType
  <2> QED BY <1>1, <2>1, <2>3, <2>4 DEF IInv, TypeOK
<1>7. Counting'
  BY <1>1, <1>2, <1>3, <1>4 DEF Counting, IInv, TypeOK, RequestType, Teids
<1>8. \A i \in SessionIds : i # k => sessions'[i] = sessions[i]
  BY <1>1, <1>4 DEF IInv, TypeOK, RequestType
<1>9. sessions'[k] = new
  BY <1>1, <1>4 DEF IInv, TypeOK, RequestType
<1>10. ~Live(k)
  BY <1>4 DEF IInv, UsedUp
<1> HIDE DEF new
<1>11. new.ip = req[h].ip /\ new.teid = req[h].teid /\ new.supi = req[h].supi
  BY DEF new
<1>12. CreatorsApart'
  <2>1. CreatorsApart
    BY DEF IInv
  <2>2. /\ \A g \in Handlers : g # h => req'[g] = req[g]
        /\ req'[h].pc = "post" /\ req'[h].ref = k /\ req'[h].ip = req[h].ip
        /\ req'[h].teid = req[h].teid /\ req'[h].supi = req[h].supi
    BY <1>1 DEF IInv, TypeOK, RequestType
  <2>3. next' = next /\ teidCounter' = teidCounter /\ Messages' = Messages
    BY <1>1 DEF Messages
  <2>4. \A i \in SessionIds : Live(i)' => i = k \/ (Live(i) /\ sessions'[i] = sessions[i])
    BY <1>8 DEF Live
  <2>5. ASSUME NEW g \in WantId'
        PROVE  /\ req'[g].ip \in 1..(next' - 1) /\ req'[g].supi \in Supis
               /\ \A f \in WantId' : f # g => req'[f].ip # req'[g].ip
               /\ \A i \in SessionIds : Live(i)' => sessions'[i].ip # req'[g].ip
    <3>1. g \in WantId /\ g # h /\ \A f \in WantId' : f \in WantId /\ f # h
      BY <1>2, <2>5
    <3>2. req'[g] = req[g] /\ \A f \in WantId' : req'[f] = req[f]
      BY <1>2, <2>2, <3>1
    <3>3. req[h].ip # req[g].ip
      BY <1>2, <2>1, <3>1 DEF CreatorsApart
    <3> QED BY <1>9, <1>11, <2>1, <2>3, <2>4, <3>1, <3>2, <3>3 DEF CreatorsApart
  <2>6. ASSUME NEW g \in Handlers, req'[g].pc \in {"add", "post"}
        PROVE  /\ req'[g].teid \in 1..teidCounter'
               /\ \A f \in Handlers :
                    (f # g /\ req'[f].pc \in {"add", "post"}) => req'[f].teid # req'[g].teid
               /\ \A m \in Messages' : m.teid # req'[g].teid
    <3>1. \A f \in Handlers : req'[f].teid = req[f].teid
      BY <2>2
    <3>2. \A f \in Handlers : req'[f].pc \in {"add", "post"} => req[f].pc \in {"add", "post"}
      BY <1>1, <2>2
    <3> QED BY <2>1, <2>3, <2>6, <3>1, <3>2 DEF CreatorsApart
  <2>7. ASSUME NEW g \in Handlers, req'[g].pc = "add", NEW i \in SessionIds, Live(i)'
        PROVE  sessions'[i].teid # req'[g].teid
    <3>1. g # h /\ req'[g] = req[g]
      BY <2>2, <2>7
    <3>2. req[h].teid # req[g].teid
      BY <1>1, <2>1, <2>7, <3>1 DEF CreatorsApart
    <3> QED BY <1>9, <1>11, <2>1, <2>4, <2>7, <3>1, <3>2 DEF CreatorsApart
  <2>8. ASSUME NEW g \in Handlers, req'[g].pc \in {"post", "await"}
        PROVE  req'[g].ip \in Addresses /\ req'[g].ref \in 1..counter'
    <3>1. CASE g = h
      <4>1. req[h].ip \in 1..(next - 1) /\ next \in 1..(PoolSize + 1)
        BY <1>2, <2>1 DEF CreatorsApart, IInv, TypeOK
      <4> QED BY <1>1, <1>4, <2>2, <3>1, <4>1 DEF Addresses
    <3>2. CASE g # h
      <4>1. req[g].ip \in Addresses /\ req[g].ref \in 1..counter /\ req'[g] = req[g]
        BY <2>1, <2>2, <2>8, <3>2 DEF CreatorsApart
      <4> QED BY <1>1, <1>4, <4>1
    <3> QED BY <3>1, <3>2
  <2> QED BY <2>5, <2>6, <2>7, <2>8 DEF CreatorsApart
<1>13. UsedUp'
  BY <1>1, <1>2, <1>4, <1>8, <1>9, <1>11
     DEF IInv, TypeOK, RequestType, CreatorsApart, UsedUp, WantId, Live, Messages
<1>14. UniqueSessions' /\ UpfTeidOwner'
  BY <1>1, <1>2, <1>4, <1>8, <1>9, <1>11
     DEF IInv, TypeOK, RequestType, CreatorsApart, UniqueSessions, UpfTeidOwner, WantId, Live
<1>15. ReleasersApart'
  BY <1>1, <1>2, <1>4, <1>8, <1>9, <1>11 DEF IInv, TypeOK, RequestType, ReleasersApart, WantId, Live
<1>16. PoolTracksSessions'
  <2> SUFFICES ASSUME NEW a \in Addresses, NEW s \in Supis
               PROVE  (allocated'[a] = s) <=>
                        \/ \E g \in Handlers : Holding(g, a, s)'
                        \/ \E i \in SessionIds :
                             /\ Live(i)' /\ sessions'[i].ip = a /\ sessions'[i].supi = s
                             /\ ~HalfReleased(i)'
    BY DEF PoolTracksSessions
  <2>1. ~HalfReleased(k)'
    BY <1>1, <1>4 DEF HalfReleased, IInv, TypeOK, RequestType, ReleasersApart
  <2>2. \A i \in SessionIds : HalfReleased(i)' <=> HalfReleased(i)
    BY <1>1 DEF HalfReleased, IInv, TypeOK, RequestType
  <2>3. \A g \in Handlers : g # h => (Holding(g, a, s)' <=> Holding(g, a, s))
    BY <1>1 DEF Holding, IInv, TypeOK, RequestType
  <2>4. ~Holding(h, a, s)' /\ (Holding(h, a, s) <=> (new.ip = a /\ new.supi = s))
    BY <1>1, <1>11 DEF Holding, IInv, TypeOK, RequestType
  <2>5. Live(k)'
    BY <1>5, <1>9 DEF Live
  <2>6. \A i \in SessionIds : i # k => (Live(i)' <=> Live(i))
    BY <1>8 DEF Live
  <2>7. allocated' = allocated
    BY <1>1
  <2> QED BY <1>4, <1>8, <1>9, <1>10, <2>1, <2>2, <2>3, <2>4, <2>5, <2>6, <2>7
          DEF IInv, PoolTracksSessions
<1> QED BY <1>6, <1>7, <1>12, <1>13, <1>14, <1>15, <1>16 DEF IInv

LEMMA PostPfcpKeeps ==
  ASSUME IInv, NEW h \in Handlers, PostPfcp(h)
  PROVE  IInv'
<1>1. /\ req[h].pc = "post"
      /\ wire' = wire \cup {Message(h)}
      /\ req' = [req EXCEPT ![h].pc = "await"]
      /\ UNCHANGED <<next, allocated, teidCounter, counter, sessions, answer, upf>>
  BY DEF PostPfcp, Goto, pool, store
<1>2. Message(h) \in PfcpRequest /\ "await" \in Stages
  BY <1>1 DEF IInv, TypeOK, RequestType, CreatorsApart, Message, PfcpRequest, Stages
<1>3. TypeOK'
  BY <1>1, <1>2 DEF IInv, TypeOK, RequestType
<1>4. Counting'
  BY <1>1 DEF IInv, TypeOK, RequestType, Counting, WantTeid, WantId
<1>5. Messages' = Messages \cup {Message(h)} /\ Message(h).teid = req[h].teid
  BY <1>1 DEF Messages, Message
<1>6. CreatorsApart'
  BY <1>1, <1>5 DEF IInv, TypeOK, RequestType, CreatorsApart, WantId, Live
<1>7. UsedUp' /\ UniqueSessions'
  BY <1>1, <1>5 DEF IInv, TypeOK, RequestType, CreatorsApart, UsedUp, UniqueSessions, Live
<1>8. UpfTeidOwner'
  BY <1>1, <1>5 DEF IInv, TypeOK, RequestType, CreatorsApart, UpfTeidOwner, Messages
<1>9. ReleasersApart'
  BY <1>1 DEF IInv, TypeOK, RequestType, ReleasersApart, WantId, Live
<1>10. PoolTracksSessions'
  BY <1>1 DEF IInv, TypeOK, RequestType, PoolTracksSessions, Holding, HalfReleased, Live
<1> QED BY <1>3, <1>4, <1>6, <1>7, <1>8, <1>9, <1>10 DEF IInv

LEMMA UpfServesKeeps ==
  ASSUME IInv, NEW m \in wire, UpfServes(m)
  PROVE  IInv'
<1>1. /\ Messages' = Messages
      /\ UNCHANGED <<next, allocated, teidCounter, counter, sessions, req, answer>>
  BY DEF UpfServes, Messages, pool, store
<1>2. TypeOK'
  BY <1>1 DEF IInv, TypeOK, UpfServes
<1>3. Counting' /\ CreatorsApart' /\ ReleasersApart'
  BY <1>1 DEF IInv, Counting, CreatorsApart, ReleasersApart, WantTeid, WantId, Live
<1>4. UsedUp' /\ UniqueSessions' /\ UpfTeidOwner'
  BY <1>1 DEF IInv, UsedUp, UniqueSessions, UpfTeidOwner, Live, Messages
<1>5. PoolTracksSessions'
  BY <1>1 DEF IInv, PoolTracksSessions, Holding, HalfReleased, Live
<1> QED BY <1>2, <1>3, <1>4, <1>5 DEF IInv

\* A handler that answers, and holds nothing the pool or the store waits for.
LEMMA FinishKeeps ==
  ASSUME IInv, NEW h \in Handlers, NEW code \in Codes, Finish(h, code),
         req[h].pc \in {"idle", "await"},
         UNCHANGED <<next, allocated, teidCounter, counter, sessions, wire, upf>>
  PROVE  IInv'
<1>1. /\ req' = [req EXCEPT ![h] = Idle]
      /\ answer' = [answer EXCEPT ![h] = code]
      /\ Idle.pc = "idle"
  BY DEF Finish, Idle, Request
<1>2. Idle \in RequestType
  BY SmfAssumption DEF Idle, Request, RequestType, Stages, Teids
<1>3. TypeOK'
  BY <1>1, <1>2 DEF IInv, TypeOK
<1>4. Counting'
  BY <1>1 DEF IInv, TypeOK, Counting, WantTeid, WantId
<1>5. CreatorsApart' /\ ReleasersApart'
  BY <1>1 DEF IInv, TypeOK, CreatorsApart, ReleasersApart, WantId, Live, Messages
<1>6. UsedUp' /\ UniqueSessions' /\ UpfTeidOwner'
  BY DEF IInv, UsedUp, UniqueSessions, UpfTeidOwner, Live, Messages
<1>7. PoolTracksSessions'
  BY <1>1 DEF IInv, TypeOK, PoolTracksSessions, Holding, HalfReleased, Live
<1> QED BY <1>3, <1>4, <1>5, <1>6, <1>7 DEF IInv

LEMMA LookupForReleaseKeeps ==
  ASSUME IInv, NEW h \in Handlers, NEW i \in SessionIds, LookupForRelease(h, i)
  PROVE  IInv'
<1>1. /\ req[h].pc = "idle"
      /\ Live(i)
      /\ req' = [req EXCEPT ![h] = Request("release", NoSupi, sessions[i].ip, i)]
      /\ answer' = [answer EXCEPT ![h] = "none"]
      /\ UNCHANGED <<next, allocated, teidCounter, counter, sessions, wire, upf>>
  BY DEF LookupForRelease, pool, store, n4
<1>2. /\ req'[h] = Request("release", NoSupi, sessions[i].ip, i)
      /\ req'[h].pc = "release" /\ req'[h].ip = sessions[i].ip /\ req'[h].ref = i
      /\ \A g \in Handlers : g # h => req'[g] = req[g]
  BY <1>1 DEF IInv, TypeOK, Request
<1>3. Request("release", NoSupi, sessions[i].ip, i) \in RequestType
  <2>1. sessions[i] \in Session
    BY <1>1 DEF IInv, TypeOK, Live
  <2>2. sessions[i].ip \in 0..PoolSize /\ i \in 0..PoolSize
    BY <2>1, SmfAssumption DEF Session, Addresses, SessionIds
  <2>3. 0 \in Teids /\ "release" \in Stages
    BY SmfAssumption DEF Teids, Stages
  <2> QED BY <2>2, <2>3 DEF Request, RequestType
<1>4. TypeOK'
  BY <1>1, <1>3 DEF IInv, TypeOK, Codes
<1>5. Counting'
  <2>1. WantTeid' = WantTeid /\ WantId' = WantId
    BY <1>1, <1>2 DEF WantTeid, WantId
  <2> QED BY <1>1, <2>1 DEF IInv, Counting
<1>6. CreatorsApart'
  BY <1>1, <1>2 DEF IInv, CreatorsApart, WantId, Live, Messages
<1>7. UsedUp' /\ UniqueSessions' /\ UpfTeidOwner'
  BY <1>1 DEF IInv, UsedUp, UniqueSessions, UpfTeidOwner, Live, Messages
<1>8. ReleasersApart'
  BY <1>1, <1>2 DEF IInv, ReleasersApart, CreatorsApart, UsedUp, UniqueSessions, WantId, Live
<1>9. PoolTracksSessions'
  BY <1>1, <1>2 DEF IInv, PoolTracksSessions, Holding, HalfReleased, Live
<1> QED BY <1>4, <1>5, <1>6, <1>7, <1>8, <1>9 DEF IInv

LEMMA ReleaseIPKeeps ==
  ASSUME IInv, NEW h \in Handlers, ReleaseIP(h)
  PROVE  IInv'
<1>1. /\ req[h].pc = "release"
      /\ allocated' = [allocated EXCEPT ![req[h].ip] = NoSupi]
      /\ req' = [req EXCEPT ![h].pc = "delete"]
      /\ UNCHANGED <<next, teidCounter, counter, sessions, answer, wire, upf>>
  BY DEF ReleaseIP, Goto, store, n4
<1>2. TypeOK'
  <2>1. "delete" \in Stages
    BY DEF Stages
  <2> QED BY <1>1, <2>1 DEF IInv, TypeOK, RequestType
<1>3. Counting'
  BY <1>1 DEF IInv, TypeOK, RequestType, Counting, WantTeid, WantId
<1>4. CreatorsApart'
  BY <1>1 DEF IInv, TypeOK, RequestType, CreatorsApart, WantId, Live, Messages
<1>5. UsedUp' /\ UniqueSessions' /\ UpfTeidOwner'
  BY <1>1 DEF IInv, UsedUp, UniqueSessions, UpfTeidOwner, Live, Messages
<1>6. ReleasersApart'
  BY <1>1 DEF IInv, TypeOK, RequestType, ReleasersApart, WantId, Live
<1>7. PoolTracksSessions'
  <2> SUFFICES ASSUME NEW a \in Addresses, NEW s \in Supis
               PROVE  (allocated'[a] = s) <=>
                        \/ \E g \in Handlers : Holding(g, a, s)'
                        \/ \E i \in SessionIds :
                             /\ Live(i)' /\ sessions'[i].ip = a /\ sessions'[i].supi = s
                             /\ ~HalfReleased(i)'
    BY DEF PoolTracksSessions
  <2>1. \A g \in Handlers : Holding(g, a, s)' <=> Holding(g, a, s)
    BY <1>1 DEF Holding, IInv, TypeOK, RequestType
  <2>2. \A i \in SessionIds : HalfReleased(i)' <=> (HalfReleased(i) \/ i = req[h].ref)
    BY <1>1 DEF HalfReleased, IInv, TypeOK, RequestType
  <2>3. \A i \in SessionIds : Live(i)' <=> Live(i)
    BY <1>1 DEF Live
  <2>4. CASE a = req[h].ip
    <3>1. allocated'[a] = NoSupi /\ s # NoSupi
      BY <1>1, <2>4, SmfAssumption DEF IInv, TypeOK
    <3>2. \A g \in Handlers : ~Holding(g, a, s)
      BY <1>1, <2>4 DEF IInv, ReleasersApart, Holding, WantId
    <3>3. \A i \in SessionIds : (Live(i) /\ sessions[i].ip = a) => i = req[h].ref
      BY <1>1, <2>4 DEF IInv, ReleasersApart
    <3> QED BY <1>1, <2>1, <2>2, <2>3, <3>1, <3>2, <3>3
  <2>5. CASE a # req[h].ip
    <3>1. allocated'[a] = allocated[a]
      BY <1>1, <2>5 DEF IInv, TypeOK
    <3>2. \A i \in SessionIds : (Live(i) /\ sessions[i].ip = a) => i # req[h].ref
      BY <1>1, <2>5 DEF IInv, ReleasersApart
    <3> QED BY <1>1, <2>1, <2>2, <2>3, <3>1, <3>2 DEF IInv, PoolTracksSessions
  <2> QED BY <2>4, <2>5
<1> QED BY <1>2, <1>3, <1>4, <1>5, <1>6, <1>7 DEF IInv

LEMMA DeleteSessionKeeps ==
  ASSUME IInv, NEW h \in Handlers, DeleteSession(h)
  PROVE  IInv'
<1>1. /\ req[h].pc = "delete"
      /\ sessions' = [sessions EXCEPT ![req[h].ref] = NoSession]
      /\ req' = [req EXCEPT ![h] = Idle]
      /\ answer' = [answer EXCEPT ![h] = "204"]
      /\ Idle.pc = "idle"
      /\ UNCHANGED <<next, allocated, teidCounter, counter, wire, upf>>
  BY DEF DeleteSession, Finish, Idle, Request, pool, n4
<1>2. TypeOK'
  <2>1. Idle \in RequestType
    BY SmfAssumption DEF Idle, Request, RequestType, Stages, Teids
  <2>2. "204" \in Codes
    BY DEF Codes
  <2> QED BY <1>1, <2>1, <2>2 DEF IInv, TypeOK
<1>3. \A i \in SessionIds : Live(i)' => (Live(i) /\ sessions'[i] = sessions[i] /\ i # req[h].ref)
  BY <1>1 DEF IInv, TypeOK, Live
<1>4. \A i \in SessionIds : (Live(i) /\ i # req[h].ref) => Live(i)'
  BY <1>1 DEF IInv, TypeOK, Live
<1>5. Counting'
  BY <1>1 DEF IInv, TypeOK, Counting, WantTeid, WantId
<1>6. CreatorsApart' /\ ReleasersApart'
  BY <1>1, <1>3 DEF IInv, TypeOK, CreatorsApart, ReleasersApart, WantId, Messages
<1>7. UsedUp' /\ UniqueSessions' /\ UpfTeidOwner'
  BY <1>1, <1>3 DEF IInv, UsedUp, UniqueSessions, UpfTeidOwner, Messages
<1>8. PoolTracksSessions'
  <2>1. \A i \in SessionIds :
          i # req[h].ref => (HalfReleased(i)' <=> HalfReleased(i))
    BY <1>1 DEF HalfReleased, IInv, TypeOK
  <2>2. HalfReleased(req[h].ref)
    BY <1>1 DEF HalfReleased
  <2>3. \A g \in Handlers, a \in Addresses, s \in Supis :
          Holding(g, a, s)' <=> Holding(g, a, s)
    BY <1>1 DEF Holding, IInv, TypeOK
  <2> QED BY <1>1, <1>3, <1>4, <2>1, <2>2, <2>3 DEF IInv, PoolTracksSessions
<1> QED BY <1>2, <1>5, <1>6, <1>7, <1>8 DEF IInv

\* A step that changes no variable keeps everything.
LEMMA StutterKeeps == ASSUME IInv, UNCHANGED vars PROVE IInv'
<1> USE DEF vars
<1>1. TypeOK' /\ Counting'
  BY DEF IInv, TypeOK, Counting, WantTeid, WantId
<1>2. CreatorsApart' /\ UsedUp' /\ ReleasersApart'
  BY DEF IInv, CreatorsApart, UsedUp, ReleasersApart, WantId, Live, Messages
<1>3. UniqueSessions' /\ UpfTeidOwner' /\ PoolTracksSessions'
  BY DEF IInv, UniqueSessions, UpfTeidOwner, PoolTracksSessions, Holding, HalfReleased, Live
<1> QED BY <1>1, <1>2, <1>3 DEF IInv

----------------------------------------------------------------------------
(* The theorems.                                                           *)

\* IInv is an invariant: it holds initially, and no handler, whatever the
\* others have done since its last step, and no late UPF breaks it.
THEOREM Invariance == Spec => []IInv
<1>1. Init => IInv
  BY InitIInv
<1>2. IInv /\ [Next]_vars => IInv'
  <2> SUFFICES ASSUME IInv, [Next]_vars PROVE IInv'
    OBVIOUS
  <2>1. ASSUME NEW h \in Handlers, Create(h) PROVE IInv'
    <3>1. CASE RefuseCreate(h)
      BY <3>1, FinishKeeps DEF RefuseCreate, Codes, pool, store, n4
    <3>2. ASSUME NEW s \in Supis, Allocate(h, s) PROVE IInv'
      BY <3>2, AllocateKeeps
    <3> QED BY <2>1, <3>1, <3>2 DEF Create
  <2>2. ASSUME NEW h \in Handlers, Release(h) PROVE IInv'
    <3> PICK i \in SessionIds : ReleaseUnknown(h, i) \/ LookupForRelease(h, i)
      BY <2>2 DEF Release
    <3>1. CASE ReleaseUnknown(h, i)
      BY <3>1, FinishKeeps DEF ReleaseUnknown, Codes, pool, store, n4
    <3>2. CASE LookupForRelease(h, i)
      BY <3>2, LookupForReleaseKeeps
    <3> QED BY <3>1, <3>2
  <2>3. ASSUME NEW h \in Handlers, Progress(h) PROVE IInv'
    <3>1. CASE AllocateTEID(h)
      BY <3>1, AllocateTEIDKeeps
    <3>2. CASE AddSession(h)
      BY <3>2, AddSessionKeeps
    <3>3. CASE PostPfcp(h)
      BY <3>3, PostPfcpKeeps
    <3>4. CASE PfcpEstablished(h)
      BY <3>4, FinishKeeps DEF PfcpEstablished, Codes, pool, store, n4
    <3>5. CASE PfcpFailed(h)
      BY <3>5, FinishKeeps DEF PfcpFailed, Codes, pool, store, n4
    <3>6. CASE ReleaseIP(h)
      BY <3>6, ReleaseIPKeeps
    <3>7. CASE DeleteSession(h)
      BY <3>7, DeleteSessionKeeps
    <3> QED BY <2>3, <3>1, <3>2, <3>3, <3>4, <3>5, <3>6, <3>7 DEF Progress
  <2>4. ASSUME NEW m \in wire, UpfServes(m) PROVE IInv'
    BY <2>4, UpfServesKeeps
  <2>5. CASE UNCHANGED vars
    BY <2>5, StutterKeeps
  <2> QED BY <2>1, <2>2, <2>3, <2>4, <2>5 DEF Next
<1> QED BY <1>1, <1>2, PTL DEF Spec

\* The counters stay in range: no session id is given out beyond the pool's
\* size and the TEID counter never wraps, because the pool refuses first.
THEOREM TypeCorrect == Spec => []TypeOK
<1>1. IInv => TypeOK
  BY DEF IInv
<1> QED BY <1>1, Invariance, PTL

\* No two sessions share an address or a TEID under any interleaving of
\* createSMContext and releaseSMContext.
THEOREM SessionsUnique == Spec => []UniqueSessions
<1>1. IInv => UniqueSessions
  BY DEF IInv
<1> QED BY <1>1, Invariance, PTL

\* The pool's allocated map and the session store never disagree, in spite of
\* their separate locks.
THEOREM PoolAgreesWithStore == Spec => []PoolTracksSessions
<1>1. IInv => PoolTracksSessions
  BY DEF IInv
<1> QED BY <1>1, Invariance, PTL

\* A TEID announced to the UPF belongs to one session for ever, however late
\* the UPF hears of it.
THEOREM TeidsNeverReused == Spec => []UpfTeidOwner
<1>1. IInv => UpfTeidOwner
  BY DEF IInv
<1> QED BY <1>1, Invariance, PTL

----------------------------------------------------------------------------
(* The handlers implement the safety part of SmfContract.                  *)
(*                                                                         *)
(* The stage of a context is read off the handler that creates it, so the  *)
(* proof needs to know, beyond IInv, that each context has at most one     *)
(* such handler and that no release works on it before that handler has    *)
(* answered.  This is RefsApart.                                           *)

Creating(h)  == req[h].pc \in {"post", "await"}
Releasing(h) == req[h].pc \in {"release", "delete"}

Posting(i)  == \E h \in Handlers : req[h].pc = "post" /\ req[h].ref = i
Awaiting(i) == \E h \in Handlers : req[h].pc = "await" /\ req[h].ref = i

\* A context that is being created is stored as its handler has it, is no other
\* handler's, and nobody releases it yet.
RefsApart ==
  \A h \in Handlers : Creating(h) =>
    /\ Live(req[h].ref)
    /\ sessions[req[h].ref].ip = req[h].ip
    /\ sessions[req[h].ref].teid = req[h].teid
    /\ \A g \in Handlers : g # h /\ (Creating(g) \/ Releasing(g)) => req[g].ref # req[h].ref

RInv == IInv /\ RefsApart

----------------------------------------------------------------------------
(* RefsApart is kept by every step.                                        *)

LEMMA RefsApartKept == RInv /\ [Next]_vars => RefsApart'
<1> SUFFICES ASSUME RInv, [Next]_vars PROVE RefsApart'
  OBVIOUS
<1>t. /\ req \in [Handlers -> RequestType]
      /\ sessions \in [SessionIds -> Session \cup {NoSession}]
      /\ counter \in 0..PoolSize
      /\ \A h \in Handlers : Creating(h) => req[h].ref \in 1..counter
      /\ \A h \in Handlers : Releasing(h) => req[h].ref \in 1..counter
      /\ \A i \in SessionIds : Live(i) => i \in 1..counter
  BY DEF RInv, IInv, TypeOK, CreatorsApart, ReleasersApart, UsedUp, Creating, Releasing
<1> USE DEF RefsApart, Creating, Releasing, Live
\* A handler that neither creates nor releases afterwards disturbs nothing.
<1>a. ASSUME NEW h \in Handlers, sessions' = sessions,
             NEW r \in RequestType, req' = [req EXCEPT ![h] = r],
             r.pc \notin {"post", "await", "release", "delete"}
      PROVE  RefsApart'
  BY <1>a, <1>t DEF RInv
<1>b. Idle \in RequestType /\ Idle.pc = "idle"
  BY SmfAssumption DEF Idle, Request, RequestType, Stages, Teids
<1>1. ASSUME NEW h \in Handlers, NEW code, Finish(h, code), sessions' = sessions
      PROVE  RefsApart'
  BY <1>1, <1>a, <1>b DEF Finish
<1>2. ASSUME NEW h \in Handlers, NEW s \in Supis, Allocate(h, s) PROVE RefsApart'
  <2>1. Request("teid", s, next, 0).pc = "teid"
    BY DEF Request
  <2>2. req' = [req EXCEPT ![h] = Request("teid", s, next, 0)] /\ sessions' = sessions
    BY <1>2 DEF Allocate, store
  <2> QED BY <2>1, <2>2, <1>t DEF RInv
<1>3. ASSUME NEW h \in Handlers, AllocateTEID(h) PROVE RefsApart'
  <2>1. /\ sessions' = sessions
        /\ req' = [req EXCEPT ![h].pc = "add", ![h].teid = teidCounter']
    BY <1>3 DEF AllocateTEID, store
  <2> QED BY <2>1, <1>t DEF RInv, RequestType
<1>4. ASSUME NEW h \in Handlers, AddSession(h) PROVE RefsApart'
  <2>1. PICK k : k = counter + 1
    OBVIOUS
  <2>2. PICK new : new = [supi |-> req[h].supi, ip |-> req[h].ip, teid |-> req[h].teid]
    OBVIOUS
  <2>3. /\ req[h].pc = "add"
        /\ sessions' = [sessions EXCEPT ![k] = new]
        /\ req' = [req EXCEPT ![h].pc = "post", ![h].ref = k]
        /\ new.ip = req[h].ip /\ new.teid = req[h].teid
    BY <1>4, <2>1, <2>2 DEF AddSession
  <2>4. k \in SessionIds /\ k \notin 1..counter
    <3>1. h \in WantId /\ WantId \subseteq Handlers
      BY <2>3 DEF WantId
    <3>2. Cardinality(WantId) \in Nat /\ Cardinality(WantId) >= 1
      BY <3>1, WantFinite
    <3>3. counter + Cardinality(WantId) = next - 1 /\ next \in 1..(PoolSize + 1)
      BY DEF RInv, IInv, Counting, TypeOK
    <3> QED BY <2>1, <3>2, <3>3, <1>t, SmfAssumption DEF SessionIds
  <2>5. new # NoSession
    <3>1. new \in Session
      BY <2>2, <2>3 DEF Session, RInv, IInv, TypeOK, RequestType, CreatorsApart, WantId, Addresses
    <3> QED BY <3>1, NoSessionIsNone
  <2>6. \A g \in Handlers : g # h => req'[g] = req[g]
    BY <2>3, <1>t
  <2>7. req'[h].pc = "post" /\ req'[h].ref = k /\ req'[h].ip = req[h].ip /\ req'[h].teid = req[h].teid
    BY <2>3, <1>t DEF RequestType
  <2>8. sessions'[k] = new /\ \A i \in SessionIds : i # k => sessions'[i] = sessions[i]
    BY <2>3, <2>4, <1>t
  <2>9. \A g \in Handlers : Creating(g) \/ Releasing(g) => req[g].ref # k /\ req[g].ref \in SessionIds
    BY <2>4, <1>t, SmfAssumption DEF SessionIds
  <2>10. \A g \in Handlers : g # h =>
           (Creating(g)' <=> Creating(g)) /\ (Releasing(g)' <=> Releasing(g))
    BY <2>6
  <2>11. ASSUME NEW g \in Handlers, g # h, Creating(g)'
         PROVE  /\ Live(req[g].ref)' /\ sessions'[req'[g].ref].ip = req'[g].ip
                /\ sessions'[req'[g].ref].teid = req'[g].teid /\ req'[g].ref # k
    <3>1. Creating(g) /\ req'[g] = req[g]
      BY <2>6, <2>11
    <3>2. sessions'[req[g].ref] = sessions[req[g].ref]
      BY <2>8, <2>9, <3>1
    <3> QED BY <2>9, <3>1, <3>2 DEF RInv
  <2>12. \A g \in Handlers : g # h /\ Releasing(g)' => req'[g].ref # k
    BY <2>6, <2>9
  <2>13. ASSUME NEW g \in Handlers, Creating(g)', NEW f \in Handlers, f # g,
                Creating(f)' \/ Releasing(f)'
         PROVE  req'[f].ref # req'[g].ref
    <3>1. CASE g = h
      BY <3>1, <2>7, <2>11, <2>12, <2>13
    <3>2. CASE f = h
      BY <3>2, <2>7, <2>11, <2>13
    <3>3. CASE g # h /\ f # h
      BY <3>3, <2>6, <2>10, <2>13 DEF RInv
    <3> QED BY <3>1, <3>2, <3>3
  <2>14. Live(req[h].ref)' /\ sessions'[req'[h].ref].ip = req'[h].ip
         /\ sessions'[req'[h].ref].teid = req'[h].teid
    BY <2>3, <2>5, <2>7, <2>8
  <2> QED BY <2>11, <2>13, <2>14
<1>5. ASSUME NEW h \in Handlers, PostPfcp(h) PROVE RefsApart'
  <2>1. req[h].pc = "post" /\ sessions' = sessions /\ req' = [req EXCEPT ![h].pc = "await"]
    BY <1>5 DEF PostPfcp, Goto, store
  <2> QED BY <2>1, <1>t DEF RInv, RequestType
<1>6. ASSUME NEW h \in Handlers, NEW i \in SessionIds, LookupForRelease(h, i) PROVE RefsApart'
  <2> DEFINE r == Request("release", NoSupi, sessions[i].ip, i)
  <2>1. /\ req' = [req EXCEPT ![h] = r] /\ sessions' = sessions
        /\ \A g \in Handlers : Creating(g) => req[g].ref # i
    BY <1>6 DEF LookupForRelease, Published, store
  <2>2. r.pc = "release" /\ r.ref = i
    BY DEF Request
  <2> HIDE DEF r
  <2> QED BY <2>1, <2>2, <1>t DEF RInv
<1>7. ASSUME NEW h \in Handlers, ReleaseIP(h) PROVE RefsApart'
  <2>1. req[h].pc = "release" /\ sessions' = sessions /\ req' = [req EXCEPT ![h].pc = "delete"]
    BY <1>7 DEF ReleaseIP, Goto, store
  <2> QED BY <2>1, <1>t DEF RInv, RequestType
<1>8. ASSUME NEW h \in Handlers, DeleteSession(h) PROVE RefsApart'
  <2>1. /\ req[h].pc = "delete"
        /\ sessions' = [sessions EXCEPT ![req[h].ref] = NoSession]
        /\ req' = [req EXCEPT ![h] = Idle]
    BY <1>8 DEF DeleteSession, Finish
  <2>2. \A g \in Handlers : Creating(g) => req[g].ref # req[h].ref
    BY <2>1 DEF RInv
  <2> QED BY <2>1, <2>2, <1>t, <1>b DEF RInv
<1>9. ASSUME sessions' = sessions, req' = req PROVE RefsApart'
  BY <1>9 DEF RInv
<1> QED
  <2>1. ASSUME NEW h \in Handlers, Create(h) PROVE RefsApart'
    BY <2>1, <1>1, <1>2 DEF Create, RefuseCreate, store
  <2>2. ASSUME NEW h \in Handlers, Release(h) PROVE RefsApart'
    BY <2>2, <1>1, <1>6 DEF Release, ReleaseUnknown, store
  <2>3. ASSUME NEW h \in Handlers, Progress(h) PROVE RefsApart'
    BY <2>3, <1>1, <1>3, <1>4, <1>5, <1>7, <1>8 DEF Progress, PfcpEstablished, PfcpFailed, store
  <2>4. ASSUME NEW m \in wire, UpfServes(m) PROVE RefsApart'
    BY <2>4, <1>9 DEF UpfServes, store
  <2>5. CASE UNCHANGED vars
    BY <2>5, <1>9 DEF vars
  <2> QED BY <2>1, <2>2, <2>3, <2>4, <2>5 DEF Next

LEMMA RInvariance == Spec => []RInv
<1>1. Init => RefsApart
  BY DEF Init, RefsApart, Creating, Idle, Request
<1>2. RInv /\ IInv' /\ [Next]_vars => RInv'
  BY RefsApartKept DEF RInv
<1>3. Init => RInv
  BY <1>1, InitIInv DEF RInv
<1> QED BY <1>2, <1>3, Invariance, PTL DEF Spec

----------------------------------------------------------------------------
(* Each step is one of the contract's, or none of it.                      *)

Stage == [i \in SessionIds |-> StageOf(i)]

LEMMA StageKept ==
  ASSUME NEW i \in SessionIds,
         (i > counter)' <=> i > counter, Live(i)' <=> Live(i),
         Posting(i)' <=> Posting(i), Awaiting(i)' <=> Awaiting(i)
  PROVE  StageOf(i)' = StageOf(i)
BY DEF StageOf, Posting, Awaiting, Live

\* A step that changes no context and moves no handler from or to "post" or
\* "await" is none of the contract's.
LEMMA Stutters ==
  ASSUME RInv, NEW h \in Handlers, NEW r, req' = [req EXCEPT ![h] = r],
         ~Creating(h), r.pc \notin {"post", "await"},
         UNCHANGED <<counter, sessions, wire, upf>>
  PROVE  UNCHANGED Contract!vars
<1>1. \A i \in SessionIds : (Posting(i)' <=> Posting(i)) /\ (Awaiting(i)' <=> Awaiting(i))
  BY DEF RInv, IInv, TypeOK, Posting, Awaiting, Creating
<1>2. \A i \in SessionIds : StageOf(i)' = StageOf(i)
  BY <1>1, StageKept DEF Live
<1> QED BY <1>2 DEF Contract!vars

LEMMA AddSessionOpens ==
  ASSUME RInv, NEW h \in Handlers, AddSession(h)
  PROVE  \E i \in SessionIds : Contract!Open(i)
<1>0. PICK k : k = counter + 1
  OBVIOUS
<1>n. PICK new : new = [supi |-> req[h].supi, ip |-> req[h].ip, teid |-> req[h].teid]
  OBVIOUS
<1>1. /\ req[h].pc = "add"
      /\ counter' = k
      /\ sessions' = [sessions EXCEPT ![k] = new]
      /\ req' = [req EXCEPT ![h].pc = "post", ![h].ref = k]
      /\ UNCHANGED <<wire, upf>>
  BY <1>0, <1>n DEF AddSession, n4
<1>t. /\ req \in [Handlers -> RequestType]
      /\ sessions \in [SessionIds -> Session \cup {NoSession}]
      /\ counter \in 0..PoolSize /\ PoolSize \in Nat
      /\ \A g \in Handlers : Creating(g) => req[g].ref \in 1..counter
      /\ \A i \in SessionIds : Live(i) => i \in 1..counter
  BY SmfAssumption DEF RInv, IInv, TypeOK, CreatorsApart, UsedUp, Creating
<1>2. k \in SessionIds
  <2>1. h \in WantId /\ WantId \subseteq Handlers
    BY <1>1 DEF WantId
  <2>2. Cardinality(WantId) \in Nat /\ Cardinality(WantId) >= 1
    BY <2>1, WantFinite
  <2>3. counter + Cardinality(WantId) = next - 1 /\ next \in 1..(PoolSize + 1)
    BY DEF RInv, IInv, Counting, TypeOK
  <2> QED BY <1>0, <2>2, <2>3, <1>t DEF SessionIds
<1>3. /\ req[h].ip \in Addresses /\ req[h].supi \in Supis
      /\ req[h].teid \in Teids \ {0}
      /\ \A i \in SessionIds : Live(i) =>
           sessions[i].ip # req[h].ip /\ sessions[i].teid # req[h].teid
      /\ \A m \in wire \cup upf : m.teid # req[h].teid
  <2>1. h \in WantId
    BY <1>1 DEF WantId
  <2>2. req[h].ip \in 1..(next - 1) /\ req[h].teid \in 1..teidCounter
    BY <1>1, <2>1 DEF RInv, IInv, CreatorsApart
  <2>3. req[h].ip \in Addresses /\ req[h].teid \in Teids \ {0}
    BY <2>2, SmfAssumption DEF RInv, IInv, TypeOK, Addresses, Teids
  <2> QED BY <1>1, <2>1, <2>3 DEF RInv, IInv, CreatorsApart, Messages
<1>4. new # NoSession
  <2>1. new \in Session
    BY <1>n, <1>3 DEF Session
  <2> QED BY <2>1, NoSessionIsNone
<1>5. StageOf(k) = "new"
  BY <1>0, <1>t DEF StageOf
<1>6. StageOf(k)' = "open"
  <2>1. sessions'[k] = new /\ ~(k > counter') /\ req'[h].pc = "post" /\ req'[h].ref = k
    BY <1>0, <1>1, <1>2, <1>t DEF RequestType
  <2> QED BY <2>1, <1>4 DEF StageOf, Live
<1>7. \A i \in SessionIds : i # k => StageOf(i)' = StageOf(i)
  <2> SUFFICES ASSUME NEW i \in SessionIds, i # k PROVE StageOf(i)' = StageOf(i)
    OBVIOUS
  <2>1. (i > counter)' <=> i > counter
    BY <1>0, <1>1, <1>t DEF SessionIds
  <2>2. Live(i)' <=> Live(i)
    BY <1>1, <1>2, <1>t DEF Live
  <2>3. (Posting(i)' <=> Posting(i)) /\ (Awaiting(i)' <=> Awaiting(i))
    BY <1>1, <1>t DEF Posting, Awaiting, RequestType
  <2> QED BY <2>1, <2>2, <2>3, StageKept
<1>8. Stage' = [Stage EXCEPT ![k] = "open"] /\ Stage[k] = "new"
  BY <1>2, <1>5, <1>6, <1>7 DEF Stage
<1>9. Contract!Advance(k, "new", "open")
  BY <1>8 DEF Contract!Advance, Stage
<1>10. \A i \in SessionIds : Contract!Held(i) =>
         sessions[i].ip # req[h].ip /\ sessions[i].teid # req[h].teid
  BY <1>3 DEF Contract!Held, Live
<1>11. UNCHANGED (wire \cup upf)
  BY <1>1
<1> QED BY <1>1, <1>2, <1>3, <1>9, <1>10, <1>11, <1>n DEF Contract!Open

\* The handler that moves on has the context for itself, so that of its context
\* alone the stage changes, and it becomes that of the handler's new pc.
LEMMA StageAdvances ==
  ASSUME RInv, NEW h \in Handlers, Creating(h),
         NEW r, req' = [req EXCEPT ![h] = r],
         (r.pc = "await" /\ r.ref = req[h].ref) \/ r.pc = "idle",
         UNCHANGED <<counter, sessions>>
  PROVE  /\ req[h].ref \in SessionIds
         /\ Stage[req[h].ref] = IF req[h].pc = "post" THEN "open" ELSE "announced"
         /\ Stage' = [Stage EXCEPT ![req[h].ref] =
                        IF r.pc = "await" THEN "announced" ELSE "published"]
<1>k. PICK k : k = req[h].ref
  OBVIOUS
<1>1. /\ req \in [Handlers -> RequestType]
      /\ counter \in 0..PoolSize /\ PoolSize \in Nat
      /\ k \in 1..counter
  BY <1>k, SmfAssumption DEF RInv, IInv, TypeOK, CreatorsApart, Creating
<1>2. k \in SessionIds /\ ~(k > counter)
  BY <1>k, <1>1 DEF SessionIds
<1>3. Live(k) /\ \A g \in Handlers : g # h /\ Creating(g) => req[g].ref # k
  BY <1>k DEF RInv, RefsApart
<1>4. req'[h] = r /\ \A g \in Handlers : g # h => req'[g] = req[g]
  BY <1>k, <1>1
<1>5. StageOf(k) = IF req[h].pc = "post" THEN "open" ELSE "announced"
  BY <1>k, <1>2, <1>3 DEF StageOf, Creating
<1>6. StageOf(k)' = IF r.pc = "await" THEN "announced" ELSE "published"
  <2>1. ~Posting(k)' /\ (Awaiting(k)' <=> r.pc = "await")
    BY <1>k, <1>3, <1>4 DEF Posting, Awaiting, Creating
  <2> QED BY <1>k, <2>1, <1>2, <1>3 DEF StageOf, Live, Posting, Awaiting
<1>7. \A i \in SessionIds : i # k => StageOf(i)' = StageOf(i)
  <2> SUFFICES ASSUME NEW i \in SessionIds, i # k PROVE StageOf(i)' = StageOf(i)
    OBVIOUS
  <2>1. (Posting(i)' <=> Posting(i)) /\ (Awaiting(i)' <=> Awaiting(i))
    BY <1>k, <1>4 DEF Posting, Awaiting
  <2> QED BY <2>1, StageKept DEF Live
<1> QED BY <1>k, <1>2, <1>5, <1>6, <1>7 DEF Stage

LEMMA PostPfcpAnnounces ==
  ASSUME RInv, NEW h \in Handlers, PostPfcp(h)
  PROVE  \E i \in SessionIds : Contract!Announce(i)
<1> DEFINE r == [req[h] EXCEPT !.pc = "await"]
<1>1. /\ req[h].pc = "post"
      /\ wire' = wire \cup {Message(h)}
      /\ req' = [req EXCEPT ![h] = r]
      /\ UNCHANGED <<counter, sessions, upf>>
  BY DEF PostPfcp, Goto, store
<1>2. req[h] \in RequestType
  BY DEF RInv, IInv, TypeOK
<1>3. r.pc = "await" /\ r.ref = req[h].ref
  BY <1>2 DEF RequestType
<1> HIDE DEF r
<1>4. Creating(h)
  BY <1>1 DEF Creating
<1>5. /\ req[h].ref \in SessionIds
      /\ Stage[req[h].ref] = "open"
      /\ Stage' = [Stage EXCEPT ![req[h].ref] = "announced"]
  BY <1>1, <1>3, <1>4, StageAdvances
<1>6. Contract!Advance(req[h].ref, "open", "announced")
  BY <1>5 DEF Contract!Advance, Stage
<1>7. [teid |-> sessions[req[h].ref].teid, ip |-> sessions[req[h].ref].ip] = Message(h)
  BY <1>4 DEF RInv, RefsApart, Message
<1>8. (wire \cup upf)' = (wire \cup upf) \cup {Message(h)}
  BY <1>1
<1> QED BY <1>1, <1>5, <1>6, <1>7, <1>8 DEF Contract!Announce

LEMMA AnswerPublishes ==
  ASSUME RInv, NEW h \in Handlers, req[h].pc = "await", Finish(h, "201"),
         UNCHANGED <<counter, sessions, wire, upf>>
  PROVE  \E i \in SessionIds : Contract!Publish(i)
<1>1. req' = [req EXCEPT ![h] = Idle] /\ Idle.pc = "idle"
  BY DEF Finish, Idle, Request
<1>2. Creating(h)
  BY DEF Creating
<1>3. /\ req[h].ref \in SessionIds
      /\ Stage[req[h].ref] = "announced"
      /\ Stage' = [Stage EXCEPT ![req[h].ref] = "published"]
  BY <1>1, <1>2, StageAdvances
<1>4. Contract!Advance(req[h].ref, "announced", "published")
  BY <1>3 DEF Contract!Advance, Stage
<1> QED BY <1>3, <1>4 DEF Contract!Publish

\* The first DELETE to get so far closes the context; repeated ones do nothing.
LEMMA DeleteSessionCloses ==
  ASSUME RInv, NEW h \in Handlers, DeleteSession(h)
  PROVE  (\E i \in SessionIds : Contract!Close(i)) \/ UNCHANGED Contract!vars
<1>k. PICK k : k = req[h].ref
  OBVIOUS
<1>1. /\ req[h].pc = "delete"
      /\ sessions' = [sessions EXCEPT ![k] = NoSession]
      /\ req' = [req EXCEPT ![h] = Idle]
      /\ Idle.pc = "idle"
      /\ UNCHANGED <<counter, wire, upf>>
  BY <1>k DEF DeleteSession, Finish, Idle, Request, n4
<1>t. /\ req \in [Handlers -> RequestType]
      /\ sessions \in [SessionIds -> Session \cup {NoSession}]
      /\ counter \in 0..PoolSize /\ PoolSize \in Nat /\ k \in 1..counter
  BY <1>k, <1>1, SmfAssumption DEF RInv, IInv, TypeOK, ReleasersApart
<1>2. k \in SessionIds /\ ~(k > counter)
  BY <1>k, <1>t DEF SessionIds
<1>3. ~Posting(k) /\ ~Awaiting(k)
  BY <1>k, <1>1 DEF RInv, RefsApart, Posting, Awaiting, Creating, Releasing
<1>4. \A i \in SessionIds : (Posting(i)' <=> Posting(i)) /\ (Awaiting(i)' <=> Awaiting(i))
  BY <1>k, <1>1, <1>t DEF Posting, Awaiting
<1>5. \A i \in SessionIds : i # k => (Live(i)' <=> Live(i))
  BY <1>k, <1>1, <1>2, <1>t DEF Live
<1>6. \A i \in SessionIds : i # k => StageOf(i)' = StageOf(i)
  BY <1>k, <1>1, <1>4, <1>5, StageKept
<1>7. CASE Live(k)
  <2>1. StageOf(k) = "published"
    BY <1>k, <1>2, <1>3, <1>7 DEF StageOf, Posting, Awaiting
  <2>2. StageOf(k)' = "closed"
    BY <1>k, <1>1, <1>2, <1>t DEF StageOf, Live
  <2>3. Stage[k] = "published" /\ Stage' = [Stage EXCEPT ![k] = "closed"]
    BY <1>k, <1>2, <1>6, <2>1, <2>2 DEF Stage
  <2>4. Contract!Advance(k, "published", "closed")
    BY <2>3 DEF Contract!Advance, Stage
  <2> QED BY <1>k, <1>1, <1>2, <2>4 DEF Contract!Close
<1>8. CASE ~Live(k)
  <2>1. sessions' = sessions
    BY <1>k, <1>1, <1>8, <1>t DEF Live
  <2>2. \A i \in SessionIds : StageOf(i)' = StageOf(i)
    BY <1>k, <1>1, <1>4, <2>1, StageKept DEF Live
  <2> QED BY <1>k, <1>1, <2>1, <2>2 DEF Contract!vars
<1> QED BY <1>k, <1>7, <1>8

\* A step of the SMF or the UPF is a step of the contract or none.
LEMMA StepSimulated == RInv /\ [Next]_vars => [Contract!Next]_Contract!vars
<1> SUFFICES ASSUME RInv, [Next]_vars
             PROVE  Contract!Next \/ UNCHANGED Contract!vars
  OBVIOUS
<1> DEFINE Simulated == Contract!Next \/ UNCHANGED Contract!vars
<1>i. Idle.pc = "idle"
  BY DEF Idle, Request
<1>1. ASSUME NEW h \in Handlers, Create(h) PROVE Simulated
  <2>1. CASE RefuseCreate(h)
    BY <2>1, <1>i, Stutters DEF RefuseCreate, Finish, Creating, store, n4
  <2>2. ASSUME NEW s \in Supis, Allocate(h, s) PROVE Simulated
    <3>1. /\ req' = [req EXCEPT ![h] = Request("teid", s, next, 0)]
          /\ req[h].pc = "idle" /\ Request("teid", s, next, 0).pc = "teid"
          /\ UNCHANGED <<counter, sessions, wire, upf>>
      BY <2>2 DEF Allocate, Request, store, n4
    <3> QED BY <3>1, Stutters DEF Creating
  <2> QED BY <1>1, <2>1, <2>2 DEF Create
<1>2. ASSUME NEW h \in Handlers, Release(h) PROVE Simulated
  <2> PICK i \in SessionIds : ReleaseUnknown(h, i) \/ LookupForRelease(h, i)
    BY <1>2 DEF Release
  <2>1. CASE ReleaseUnknown(h, i)
    BY <2>1, <1>i, Stutters DEF ReleaseUnknown, Finish, Creating, store, n4
  <2>2. CASE LookupForRelease(h, i)
    <3> DEFINE r == Request("release", NoSupi, sessions[i].ip, i)
    <3>1. /\ req' = [req EXCEPT ![h] = r] /\ req[h].pc = "idle" /\ r.pc = "release"
          /\ UNCHANGED <<counter, sessions, wire, upf>>
      BY <2>2 DEF LookupForRelease, Request, store, n4
    <3> HIDE DEF r
    <3> QED BY <3>1, Stutters DEF Creating
  <2> QED BY <2>1, <2>2
<1>3. ASSUME NEW h \in Handlers, Progress(h) PROVE Simulated
  <2>t. req[h] \in RequestType
    BY DEF RInv, IInv, TypeOK
  <2>1. CASE AllocateTEID(h)
    <3> DEFINE r == [req[h] EXCEPT !.pc = "add", !.teid = teidCounter']
    <3>1. /\ req' = [req EXCEPT ![h] = r] /\ req[h].pc = "teid"
          /\ UNCHANGED <<counter, sessions, wire, upf>>
      BY <2>1 DEF AllocateTEID, store, n4
    <3>2. r.pc = "add"
      BY <2>t DEF RequestType
    <3> HIDE DEF r
    <3> QED BY <3>1, <3>2, Stutters DEF Creating
  <2>2. CASE AddSession(h)
    BY <2>2, AddSessionOpens DEF Contract!Next
  <2>3. CASE PostPfcp(h)
    BY <2>3, PostPfcpAnnounces DEF Contract!Next
  <2>4. CASE PfcpEstablished(h) \/ PfcpFailed(h)
    BY <2>4, AnswerPublishes DEF PfcpEstablished, PfcpFailed, Contract!Next, store, n4
  <2>5. CASE ReleaseIP(h)
    <3> DEFINE r == [req[h] EXCEPT !.pc = "delete"]
    <3>1. /\ req' = [req EXCEPT ![h] = r] /\ req[h].pc = "release"
          /\ UNCHANGED <<counter, sessions, wire, upf>>
      BY <2>5 DEF ReleaseIP, Goto, store, n4
    <3>2. r.pc = "delete"
      BY <2>t DEF RequestType
    <3> HIDE DEF r
    <3> QED BY <3>1, <3>2, Stutters DEF Creating
  <2>6. CASE DeleteSession(h)
    BY <2>6, DeleteSessionCloses DEF Contract!Next
  <2> QED BY <1>3, <2>1, <2>2, <2>3, <2>4, <2>5, <2>6 DEF Progress
<1>4. ASSUME UNCHANGED <<counter, sessions, req, wire \cup upf>> PROVE Simulated
  <2>1. \A i \in SessionIds : StageOf(i)' = StageOf(i)
    BY <1>4, StageKept DEF Live, Posting, Awaiting
  <2> QED BY <1>4, <2>1 DEF Contract!vars
<1>5. ASSUME NEW m \in wire, UpfServes(m) PROVE Simulated
  BY <1>5, <1>4 DEF UpfServes, store
<1>6. CASE UNCHANGED vars
  BY <1>6, <1>4 DEF vars
<1> QED BY <1>1, <1>2, <1>3, <1>5, <1>6 DEF Next

LEMMA InitSimulated == Init => Contract!Init
<1> SUFFICES ASSUME Init PROVE Contract!Init
  OBVIOUS
<1>1. \A i \in SessionIds : StageOf(i) = "new"
  BY SmfAssumption DEF Init, StageOf, SessionIds
<1> QED BY <1>1 DEF Init, Contract!Init

----------------------------------------------------------------------------

\* The handlers of createSMContext and releaseSMContext, which take pool, counter
\* and store one after the other, do to AMF and UPF what the contract allows: a
\* context is opened with an address and a TEID of its own, announced to the UPF
\* as it is, published after that, closed once, and never revived.
THEOREM ImplementsContractSafety == Spec => Contract!Safety
BY RInvariance, InitSimulated, StepSimulated, PTL DEF Spec, Contract!Safety
============================================================================
