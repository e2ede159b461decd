------------------------- MODULE UpfSessionsProofs -------------------------
(***************************************************************************)
(* Proofs about UpfSessions, for any set of sessions.                      *)
(*                                                                         *)
(* TablesAgree, Routable and Deleted say what holds once the SMF has its   *)
(* answer.  They are kept because its POST is over by then and the gNB's   *)
(* has not begun before: so IInv follows the order of the two POSTs and    *)
(* the DELETE (Order), what the SMF's POST has left in the tables when the *)
(* gNB's begins (Registered), and what becomes of it (Settled).            *)
(***************************************************************************)
EXTENDS UpfSessions, TLAPS

S(n) == <<"smf", n>>
G(n) == <<"gnb", n>>

\* The SMF's POST comes first, the gNB's second, the DELETE last.
Order(n) ==
  /\ smfWait[n] = "no" => post[S(n)] = "none"
  /\ smfWait[n] = "ok" => post[S(n)] = "done"
  /\ post[G(n)] # "none" => smfWait[n] \in {"ok", "gaveUp"}
  /\ del[n] # "none" => post[G(n)] = "done"
  /\ post[S(n)] # "update"

\* Up to the gNB's POST the session is the one the SMF's has registered.
Registered(n) ==
  post[G(n)] = "none" =>
    /\ post[S(n)] \in {"handler", "done"} => sessions[n] = S(n) /\ byUEIP[n] = S(n)
    /\ post[S(n)] = "done" => handlers[n] = S(n)

\* From the SMF's answer on, only the gNB's update and the DELETE change it.
Settled(n) ==
  smfWait[n] = "ok" =>
    /\ post[G(n)] \notin {"register", "handler"}
    /\ sessions[n] = IF del[n] \in {"none", "sent"} THEN S(n) ELSE None
    /\ byUEIP[n] = sessions[n]
    /\ handlers[n] = IF del[n] # "done" THEN S(n) ELSE None
    /\ post[G(n)] \in {"update", "done"} => addr[S(n)]
    /\ post[G(n)] = "done" => teid[S(n)]

IInv ==
  /\ TypeOK
  /\ \A n \in Sessions : Order(n) /\ Registered(n) /\ Settled(n)

----------------------------------------------------------------------------
\* POSTs are pairs of a party and a session, and so are UPFSessions.
LEMMA Pairs ==
  /\ \A n \in Sessions : S(n) \in Posts /\ G(n) \in Posts
  /\ \A n \in Sessions : From(S(n)) = "smf" /\ Of(S(n)) = n
  /\ \A n \in Sessions : From(G(n)) = "gnb" /\ Of(G(n)) = n
  /\ \A m, n \in Sessions : S(m) # G(n)
  /\ \A m, n \in Sessions : m # n => S(m) # S(n) /\ G(m) # G(n)
  /\ \A p \in Posts : From(p) \in Parties /\ Of(p) \in Sessions
  /\ \A p \in Posts : From(p) = "smf" => p = S(Of(p))
  /\ \A p \in Posts : From(p) = "gnb" => p = G(Of(p))
  /\ \A n \in Sessions : G(n) \in {"gnb"} \X Sessions
  /\ Objects = Posts
BY DEF S, G, Posts, Objects, Parties, From, Of

LEMMA InitIInv == Init => IInv
<1> SUFFICES ASSUME Init PROVE IInv
  OBVIOUS
<1> USE DEF Init
<1>1. TypeOK
  BY DEF TypeOK, Table, PostStages, DeleteStages, Packet, NoPacket
<1>2. \A n \in Sessions : Order(n) /\ Registered(n) /\ Settled(n)
  BY Pairs DEF Order, Registered, Settled
<1> QED BY <1>1, <1>2 DEF IInv

----------------------------------------------------------------------------
(* Every step keeps the types.                                             *)

LEMMA TypesKept == TypeOK /\ [Next]_vars => TypeOK'
<1> SUFFICES ASSUME TypeOK, [Next]_vars PROVE TypeOK'
  OBVIOUS
<1> USE DEF TypeOK
<1>1. ASSUME NEW n \in Sessions, Calls(n) PROVE TypeOK'
  BY <1>1, Pairs DEF Calls, SmfPosts, SmfAnswered, SmfGivesUp, GnbPosts, OperatorDeletes,
       PostStages, DeleteStages, maps, fields, n6, S, G
<1>2. ASSUME NEW p \in Posts, BeginUpdate(p) PROVE TypeOK'
  <2>1. lock' \in {"gnb"} \X Sessions
    BY <1>2, Pairs DEF BeginUpdate
  <2>2. post' \in [Posts -> PostStages]
    BY <1>2 DEF BeginUpdate, Stage, PostStages
  <2>3. addr' \in [Objects -> BOOLEAN]
    BY <1>2 DEF BeginUpdate
  <2> QED BY <1>2, <2>1, <2>2, <2>3 DEF BeginUpdate, maps, n6
<1>3. ASSUME NEW p \in Posts, EndUpdate(p) PROVE TypeOK'
  BY <1>3 DEF EndUpdate, Stage, PostStages, maps, n6
<1>4. ASSUME NEW p \in Posts, LookupNothing(p) PROVE TypeOK'
  BY <1>4 DEF LookupNothing, Stage, PostStages, maps, fields, n6
<1>5. ASSUME NEW p \in Posts, RegisterMaps(p) PROVE TypeOK'
  <2>1. sessions' \in Table /\ byUEIP' \in Table
    BY <1>5, Pairs DEF RegisterMaps, Table
  <2>2. post' \in [Posts -> PostStages]
    BY <1>5 DEF RegisterMaps, Stage, PostStages
  <2>3. addr' \in [Objects -> BOOLEAN] /\ teid' \in [Objects -> BOOLEAN]
    BY <1>5, Pairs DEF RegisterMaps
  <2> QED BY <1>5, <2>1, <2>2, <2>3 DEF RegisterMaps, n6
<1>6. ASSUME NEW p \in Posts, RegisterTEID(p) PROVE TypeOK'
  <2>1. handlers' \in Table
    BY <1>6, Pairs DEF RegisterTEID, Table
  <2> QED BY <1>6, <2>1 DEF RegisterTEID, Stage, PostStages, fields, n6
<1>7. ASSUME NEW n \in Sessions, HandleDelete(n) PROVE TypeOK'
  <2>1. sessions' \in Table /\ byUEIP' \in Table /\ handlers' \in Table
    BY <1>7 DEF HandleDelete, DeleteMaps, DeregisterTEID, Table
  <2> QED BY <1>7, <2>1 DEF HandleDelete, DeleteMaps, DeregisterTEID, DeleteStages, fields, n6
<1>8. ASSUME NEW o \in Objects \cup {None}, Take(o) PROVE TypeOK'
  BY <1>8 DEF Take, Packet, maps, fields
<1>9. ASSUME ReadAddr PROVE TypeOK'
  BY <1>9 DEF ReadAddr, Packet, NoPacket, maps, fields
<1>10. ASSUME ReadTeidAndSend PROVE TypeOK'
  <2>1. sender \in Packet
    BY <1>10 DEF ReadTeidAndSend, NoPacket
  <2>2. teid[sender.obj] \in BOOLEAN /\ sender.teid \in BOOLEAN
    BY <2>1 DEF Packet
  <2>3. sent' = teid[sender.obj] \/ sent' = sender.teid
    BY <1>10 DEF ReadTeidAndSend
  <2>4. sent' \in BOOLEAN
    BY <2>2, <2>3
  <2> QED BY <1>10, <2>4 DEF ReadTeidAndSend, maps, fields
<1>11. ASSUME UNCHANGED vars PROVE TypeOK'
  BY <1>11 DEF vars
<1>12. ASSUME NEW n \in Sessions, TakeFromN6(n) \/ TakeEchoReply(n) PROVE TypeOK'
  <2>1. byUEIP[n] \in Objects \cup {None} /\ handlers[n] \in Objects \cup {None}
    BY DEF Table
  <2> QED BY <1>8, <1>12, <2>1 DEF TakeFromN6, TakeEchoReply
<1> QED
  BY <1>1, <1>2, <1>3, <1>4, <1>5, <1>6, <1>7, <1>9, <1>10, <1>11, <1>12
  DEF Next, Handle, Send

----------------------------------------------------------------------------
(* Every step keeps what IInv says of a session n.                         *)

\* A step that changes nothing a session's invariant speaks of.
View(n) == <<post[S(n)], post[G(n)], del[n], smfWait[n], sessions[n], byUEIP[n],
             handlers[n], addr[S(n)], teid[S(n)]>>

LEMMA ViewKept ==
  ASSUME NEW n \in Sessions, Order(n), Registered(n), Settled(n), UNCHANGED View(n)
  PROVE  Order(n)' /\ Registered(n)' /\ Settled(n)'
BY DEF View, Order, Registered, Settled, S, G

LEMMA CallsKeep ==
  ASSUME IInv, NEW m \in Sessions, Calls(m), NEW n \in Sessions
  PROVE  Order(n)' /\ Registered(n)' /\ Settled(n)'
<1> USE Pairs DEF IInv, TypeOK
<1>1. CASE n # m
  <2>1. UNCHANGED View(n)
    BY <1>1 DEF Calls, SmfPosts, SmfAnswered, SmfGivesUp, GnbPosts, OperatorDeletes,
         View, maps, fields, S, G
  <2> QED BY <2>1, ViewKept
<1>2. CASE n = m
  <2> USE <1>2 DEF maps, fields
  <2>1. CASE SmfPosts(m)
    BY <2>1 DEF SmfPosts, Order, Registered, Settled, S, G
  <2>2. CASE SmfAnswered(m)
    <3>1. post[S(m)] = "done" /\ post[G(m)] = "none" /\ del[m] = "none"
      BY <2>2 DEF SmfAnswered, Order, S
    <3>2. sessions[m] = S(m) /\ byUEIP[m] = S(m) /\ handlers[m] = S(m)
      BY <3>1 DEF Registered
    <3>3. /\ smfWait' = [smfWait EXCEPT ![m] = "ok"]
          /\ UNCHANGED <<post, del, sessions, byUEIP, handlers, addr, teid>>
      BY <2>2 DEF SmfAnswered
    <3>4. Order(m)' /\ Registered(m)'
      BY <3>1, <3>2, <3>3 DEF Order, Registered, S, G
    <3>5. Settled(m)'
      BY <3>1, <3>2, <3>3 DEF Settled, S, G
    <3> QED BY <3>4, <3>5
  <2>3. CASE SmfGivesUp(m)
    BY <2>3 DEF SmfGivesUp, Order, Registered, Settled, S, G
  <2>4. CASE GnbPosts(m)
    BY <2>4 DEF GnbPosts, Order, Registered, Settled, S, G
  <2>5. CASE OperatorDeletes(m)
    BY <2>5 DEF OperatorDeletes, Order, Registered, Settled, S, G
  <2> QED BY <2>1, <2>2, <2>3, <2>4, <2>5 DEF Calls
<1> QED BY <1>1, <1>2

\* The handler of a POST touches its own session only.
LEMMA HandleApart ==
  ASSUME IInv, NEW p \in Posts, Handle(p), NEW n \in Sessions, n # Of(p)
  PROVE  UNCHANGED View(n)
<1> USE Pairs DEF IInv, TypeOK
<1>0. sessions[Of(p)] # S(n)
  <2>1. S(n) # None /\ Of(S(n)) = n
    BY UpfAssumption
  <2> QED BY <2>1 DEF Table
<1>1. CASE BeginUpdate(p)
  BY <1>1, <1>0 DEF BeginUpdate, Stage, View, maps
<1>2. CASE EndUpdate(p)
  BY <1>2, <1>0 DEF EndUpdate, Stage, View, maps
<1>3. CASE LookupNothing(p)
  BY <1>3 DEF LookupNothing, Stage, View, maps, fields
<1>4. CASE RegisterMaps(p)
  BY <1>4 DEF RegisterMaps, Stage, View, Table
<1>5. CASE RegisterTEID(p)
  BY <1>5 DEF RegisterTEID, Stage, View, Table, fields
<1> QED BY <1>1, <1>2, <1>3, <1>4, <1>5 DEF Handle

LEMMA HandleKeeps ==
  ASSUME IInv, NEW p \in Posts, Handle(p), NEW n \in Sessions
  PROVE  Order(n)' /\ Registered(n)' /\ Settled(n)'
<1> USE Pairs DEF IInv, TypeOK, Stage
<1>0. CASE n # Of(p)
  BY <1>0, HandleApart, ViewKept
<1>1. CASE n = Of(p) /\ p = G(n)
  <2> USE <1>1 DEF maps, fields
  <2>1. CASE BeginUpdate(p)
    BY <2>1 DEF BeginUpdate, Order, Registered, Settled
  <2>2. CASE EndUpdate(p)
    BY <2>2 DEF EndUpdate, Order, Registered, Settled
  <2>3. CASE LookupNothing(p)
    BY <2>3, UpfAssumption DEF LookupNothing, Order, Registered, Settled
  <2>4. CASE RegisterMaps(p)
    BY <2>4 DEF RegisterMaps, Order, Registered, Settled
  <2>5. CASE RegisterTEID(p)
    BY <2>5 DEF RegisterTEID, Order, Registered, Settled
  <2> QED BY <2>1, <2>2, <2>3, <2>4, <2>5 DEF Handle
<1>2. CASE n = Of(p) /\ p = S(n)
  <2> USE <1>2 DEF maps, fields
  <2>1. CASE BeginUpdate(p)
    BY <2>1 DEF BeginUpdate
  <2>2. CASE EndUpdate(p)
    BY <2>2 DEF EndUpdate, Order
  <2>3. CASE LookupNothing(p)
    BY <2>3 DEF LookupNothing, Order, Registered, Settled
  <2>4. CASE RegisterMaps(p)
    BY <2>4 DEF RegisterMaps, Order, Registered, Settled, Table
  <2>5. CASE RegisterTEID(p)
    BY <2>5 DEF RegisterTEID, Order, Registered, Settled, Table
  <2> QED BY <2>1, <2>2, <2>3, <2>4, <2>5 DEF Handle
<1>3. From(p) = "gnb" \/ From(p) = "smf"
  BY DEF Parties
<1> QED BY <1>0, <1>1, <1>2, <1>3

LEMMA DeleteKeeps ==
  ASSUME IInv, NEW m \in Sessions, HandleDelete(m), NEW n \in Sessions
  PROVE  Order(n)' /\ Registered(n)' /\ Settled(n)'
<1> USE Pairs, UpfAssumption DEF IInv, TypeOK
<1>1. CASE DeleteMaps(m)
  <2>1. CASE n # m
    BY <1>1, <2>1, ViewKept DEF DeleteMaps, View, fields, Table
  <2>2. CASE n = m
    BY <1>1, <2>2 DEF DeleteMaps, fields, Table, Order, Registered, Settled
  <2> QED BY <2>1, <2>2
<1>2. CASE DeregisterTEID(m)
  <2>1. CASE n # m
    BY <1>2, <2>1, ViewKept DEF DeregisterTEID, View, fields, Table
  <2>2. CASE n = m
    BY <1>2, <2>2 DEF DeregisterTEID, fields, Table, Order, Registered, Settled
  <2> QED BY <2>1, <2>2
<1> QED BY <1>1, <1>2 DEF HandleDelete

LEMMA NextKeeps == IInv /\ [Next]_vars => IInv'
<1> SUFFICES ASSUME IInv, [Next]_vars PROVE IInv'
  OBVIOUS
<1>1. TypeOK'
  BY TypesKept DEF IInv
<1>2. ASSUME NEW n \in Sessions PROVE (Order(n) /\ Registered(n) /\ Settled(n))'
  <2>1. ASSUME NEW m \in Sessions, Calls(m) \/ HandleDelete(m)
        PROVE  (Order(n) /\ Registered(n) /\ Settled(n))'
    BY <2>1, CallsKeep, DeleteKeeps
  <2>2. ASSUME NEW p \in Posts, Handle(p) PROVE (Order(n) /\ Registered(n) /\ Settled(n))'
    BY <2>2, HandleKeeps
  <2>3. ASSUME \/ UNCHANGED vars \/ Send
               \/ \E m \in Sessions : TakeFromN6(m) \/ TakeEchoReply(m)
        PROVE  UNCHANGED View(n)
    BY <2>3 DEF Send, ReadAddr, ReadTeidAndSend, TakeFromN6, TakeEchoReply, Take,
         View, vars, maps, fields, S, G
  <2> QED BY <2>1, <2>2, <2>3, ViewKept DEF Next, IInv
<1> QED BY <1>1, <1>2 DEF IInv

----------------------------------------------------------------------------
\* The inductive invariant holds in every reachable state.
THEOREM Invariance == Spec => []IInv
<1>1. Init => IInv
  BY InitIInv
<1>2. IInv /\ [Next]_vars => IInv'
  BY NextKeeps
<1> QED BY <1>1, <1>2, PTL DEF Spec

\* The tables hold UPFSessions under their own keys, and only the gNB's update
\* ever holds u.mu between two steps.
THEOREM TypeCorrect == Spec => []TypeOK
<1>1. IInv => TypeOK
  BY DEF IInv
<1> QED BY <1>1, Invariance, PTL

\* What the SMF was told is established is one UPFSession in all three tables.
THEOREM TablesAlwaysAgree == Spec => []TablesAgree
<1>1. IInv => TablesAgree
  BY UpfAssumption, Pairs DEF IInv, TablesAgree, Established, Settled
<1> QED BY <1>1, Invariance, PTL

\* Once the gNB is answered too, a downlink packet finds the gNB's tunnel.
THEOREM AlwaysRoutable == Spec => []Routable
<1>1. ASSUME IInv, NEW n \in Sessions, Established(n), post[G(n)] = "done"
      PROVE  /\ byUEIP[n] = S(n) /\ handlers[n] = S(n)
             /\ S(n) # None /\ addr[S(n)] /\ teid[S(n)]
  BY <1>1, UpfAssumption, Pairs DEF IInv, Established, Settled
<1>2. IInv => Routable
  BY <1>1 DEF Routable, G
<1> QED BY <1>2, Invariance, PTL

\* A deleted session leaves nothing behind.
THEOREM DeletedForGood == Spec => []Deleted
<1>1. IInv => Deleted
  BY DEF IInv, Deleted, Settled
<1> QED BY <1>1, Invariance, PTL
============================================================================
