---------------------------- MODULE UpfSessions ----------------------------
(***************************************************************************)
(* The User Plane Function: the PFCP-sim handlers that fill its tables and *)
(* the two goroutines that send downlink packets by them.                  *)
(*                                                                         *)
(* A session stands for the uplink TEID and the address the SMF gave it    *)
(* (its own: SmfSessions, UniqueSessions and UpfTeidOwner).  Two parties   *)
(* POST for it: the SMF, with the address, and the gNB, with its tunnel,   *)
(* once the SMF's wait for an answer has ended, well or not.  A POST the   *)
(* SMF no longer waits for may be late or lost.                            *)
(*                                                                         *)
(*   POST    sent -u.mu: look up-> "update" -u.mu: GNTEID, unlock-> done   *)
(*                              -> "register" -u.mu: maps-> "handler"      *)
(*                                 -tunnel.mu: RegisterTEID-> done         *)
(*   DELETE  sent -u.mu: maps-> "deregister" -tunnel.mu-> done             *)
(*                                                                         *)
(* A UPFSession is named by the POST that allocates it, and of its fields  *)
(* only whether they are set is kept.  The senders read the fields of a    *)
(* session without u.mu, after they have looked it up.                     *)
(***************************************************************************)
EXTENDS Naturals

CONSTANTS
  Sessions,   \* the SMF's sessions
  None        \* absent map entry, free lock, no object

Parties == {"smf", "gnb"}

\* UPFSession structs.  Only the SMF's POST carries the UE's address.
Objects == Parties \X Sessions

ASSUME UpfAssumption == None \notin Objects

Posts == Parties \X Sessions

From(p) == p[1]
Of(p)   == p[2]

VARIABLES
  post,         \* the POST of each party for each session
  del,          \* the DELETE of each session
  smfWait,      \* the SMF's PFCPClient: what it knows of its POST
  lock,         \* u.mu: the POST that holds it between two steps
  sessions,     \* u.sessions
  byUEIP,       \* u.sessionsByUEIP
  handlers,     \* tunnel.handlers: the session each closure works on
  addr,         \* UPFSession.GNBAddr is set
  teid,         \* UPFSession.GNTEID is set
  kernelN6,     \* the N6 TUN could be opened when the UPF started
  sender,       \* the goroutine that has a downlink packet in hand
  sent          \* the latest downlink packet went out under the session's DL TEID

maps   == <<sessions, byUEIP, handlers>>
fields == <<addr, teid>>
n6     == <<kernelN6, sender, sent>>
vars   == <<post, del, smfWait, lock, sessions, byUEIP, handlers, addr, teid,
            kernelN6, sender, sent>>

PostStages   == {"none", "sent", "update", "register", "handler", "done"}
DeleteStages == {"none", "sent", "deregister", "done"}

\* A map of the UPF's has sessions under their own key only.
Table == {t \in [Sessions -> Objects \cup {None}] :
            \A n \in Sessions : t[n] # None => Of(t[n]) = n}

\* A packet in hand: the session found for it, what its fields were then.
Packet == [pc : {"addr", "teid"}, obj : Objects, addr : BOOLEAN, teid : BOOLEAN]
NoPacket == [pc |-> "idle", obj |-> None, addr |-> FALSE, teid |-> FALSE]

TypeOK ==
  /\ post \in [Posts -> PostStages]
  /\ del \in [Sessions -> DeleteStages]
  /\ smfWait \in [Sessions -> {"no", "waiting", "ok", "gaveUp"}]
  /\ lock \in ({"gnb"} \X Sessions) \cup {None}
  /\ sessions \in Table /\ byUEIP \in Table /\ handlers \in Table
  /\ addr \in [Objects -> BOOLEAN] /\ teid \in [Objects -> BOOLEAN]
  /\ kernelN6 \in BOOLEAN
  /\ sender \in Packet \cup {NoPacket}
  /\ sent \in BOOLEAN

Init ==
  /\ post = [p \in Posts |-> "none"]
  /\ del = [n \in Sessions |-> "none"]
  /\ smfWait = [n \in Sessions |-> "no"]
  /\ lock = None
  /\ sessions = [n \in Sessions |-> None]
  /\ byUEIP = [n \in Sessions |-> None]
  /\ handlers = [n \in Sessions |-> None]
  /\ addr = [o \in Objects |-> FALSE]
  /\ teid = [o \in Objects |-> FALSE]
  /\ kernelN6 \in BOOLEAN
  /\ sender = NoPacket
  /\ sent = TRUE

----------------------------------------------------------------------------
(* The parties that call the UPF.                                          *)

\* createSMContext posts the session it has stored.
SmfPosts(n) ==
  /\ smfWait[n] = "no"
  /\ smfWait' = [smfWait EXCEPT ![n] = "waiting"]
  /\ post' = [post EXCEPT ![<<"smf", n>>] = "sent"]
  /\ UNCHANGED <<del, lock, maps, fields, n6>>

\* EstablishSession returns nil.
SmfAnswered(n) ==
  /\ smfWait[n] = "waiting"
  /\ post[<<"smf", n>>] = "done"
  /\ smfWait' = [smfWait EXCEPT ![n] = "ok"]
  /\ UNCHANGED <<post, del, lock, maps, fields, n6>>

\* EstablishSession fails, after 5s at the latest: not fatal.
SmfGivesUp(n) ==
  /\ smfWait[n] = "waiting"
  /\ smfWait' = [smfWait EXCEPT ![n] = "gaveUp"]
  /\ UNCHANGED <<post, del, lock, maps, fields, n6>>

(* A gNB that is told of the session before the SMF has heard of the UPF.  *)
GnbPostsEarly(n) ==
  /\ smfWait[n] # "no"
  /\ post[<<"gnb", n>>] = "none"
  /\ post' = [post EXCEPT ![<<"gnb", n>>] = "sent"]
  /\ UNCHANGED <<del, smfWait, lock, maps, fields, n6>>

\* notifyUPFOfGNBTunnel: reached through the AMF once the SMF has answered it.
GnbPosts(n) ==
  /\ smfWait[n] \in {"ok", "gaveUp"}
  /\ post[<<"gnb", n>>] = "none"
  /\ post' = [post EXCEPT ![<<"gnb", n>>] = "sent"]
  /\ UNCHANGED <<del, smfWait, lock, maps, fields, n6>>

\* No network function deletes a session at the UPF; whoever does is taken to
\* wait until the session is set up.
OperatorDeletes(n) ==
  /\ post[<<"gnb", n>>] = "done"
  /\ del[n] = "none"
  /\ del' = [del EXCEPT ![n] = "sent"]
  /\ UNCHANGED <<post, smfWait, lock, maps, fields, n6>>

----------------------------------------------------------------------------
(* handleSessionCreate.                                                    *)

\* POST p is at the next of its stages.
Stage(p, stage) == post' = [post EXCEPT ![p] = stage]

(* An update by a POST that has no tunnel to add.                          *)
BeginUpdateAnyParty(p) ==
  LET o == sessions[Of(p)] IN
  /\ post[p] = "sent"
  /\ lock = None
  /\ o # None
  /\ lock' = p
  /\ addr' = [addr EXCEPT ![o] = TRUE]
  /\ Stage(p, "update")
  /\ UNCHANGED <<del, smfWait, maps, teid, n6>>

\* u.mu is held: the gNB's POST finds the session and sets its GNBAddr first.
BeginUpdate(p) ==
  LET o == sessions[Of(p)] IN
  /\ post[p] = "sent"
  /\ lock = None
  /\ From(p) = "gnb"
  /\ o # None
  /\ lock' = p
  /\ addr' = [addr EXCEPT ![o] = TRUE]
  /\ Stage(p, "update")
  /\ UNCHANGED <<del, smfWait, maps, teid, n6>>

(* The branch that returns with u.mu held.                                 *)
EndUpdateLocked(p) ==
  /\ post[p] = "update"
  /\ teid' = [teid EXCEPT ![sessions[Of(p)]] = TRUE]
  /\ Stage(p, "done")
  /\ UNCHANGED <<del, smfWait, lock, maps, addr, n6>>

\* GNTEID, and u.mu is released.  The gNB sends no UE address to update.
EndUpdate(p) ==
  /\ post[p] = "update"
  /\ teid' = [teid EXCEPT ![sessions[Of(p)]] = TRUE]
  /\ lock' = None
  /\ Stage(p, "done")
  /\ UNCHANGED <<del, smfWait, maps, addr, n6>>

(* A lookup that takes every POST for a new session.                       *)
LookupNothingAlways(p) ==
  /\ post[p] = "sent"
  /\ lock = None
  /\ Stage(p, "register")
  /\ UNCHANGED <<del, smfWait, lock, maps, fields, n6>>

\* No session of that TEID, or no tunnel to add: u.mu is released again.
LookupNothing(p) ==
  /\ post[p] = "sent"
  /\ lock = None
  /\ From(p) = "smf" \/ sessions[Of(p)] = None
  /\ Stage(p, "register")
  /\ UNCHANGED <<del, smfWait, lock, maps, fields, n6>>

\* RegisterSession under u.mu: overwrites what has come in between.
RegisterMaps(p) ==
  /\ post[p] = "register"
  /\ lock = None
  /\ sessions' = [sessions EXCEPT ![Of(p)] = p]
  /\ byUEIP' = IF From(p) = "smf" THEN [byUEIP EXCEPT ![Of(p)] = p] ELSE byUEIP
  /\ addr' = [addr EXCEPT ![p] = (From(p) = "gnb")]
  /\ teid' = [teid EXCEPT ![p] = (From(p) = "gnb")]
  /\ Stage(p, "handler")
  /\ UNCHANGED <<del, smfWait, lock, handlers, n6>>

\* RegisterTEID under the tunnel's own lock, then 201.
RegisterTEID(p) ==
  /\ post[p] = "handler"
  /\ handlers' = [handlers EXCEPT ![Of(p)] = p]
  /\ Stage(p, "done")
  /\ UNCHANGED <<del, smfWait, lock, sessions, byUEIP, fields, n6>>

----------------------------------------------------------------------------
(* handleSessionDelete.                                                    *)

(* A delete that leaves the index by address alone.                        *)
DeleteSessionOnly(n) ==
  /\ del[n] = "sent"
  /\ lock = None
  /\ sessions' = [sessions EXCEPT ![n] = None]
  /\ del' = [del EXCEPT ![n] = "deregister"]
  /\ UNCHANGED <<post, smfWait, lock, byUEIP, handlers, fields, n6>>

\* Both maps under u.mu; a session without an address has no entry by address.
DeleteMaps(n) ==
  LET o == sessions[n] IN
  /\ del[n] = "sent"
  /\ lock = None
  /\ byUEIP' = IF o # None /\ From(o) = "smf" THEN [byUEIP EXCEPT ![n] = None] ELSE byUEIP
  /\ sessions' = [sessions EXCEPT ![n] = None]
  /\ del' = [del EXCEPT ![n] = "deregister"]
  /\ UNCHANGED <<post, smfWait, lock, handlers, fields, n6>>

\* DeregisterTEID, then 204.
DeregisterTEID(n) ==
  /\ del[n] = "deregister"
  /\ handlers' = [handlers EXCEPT ![n] = None]
  /\ del' = [del EXCEPT ![n] = "done"]
  /\ UNCHANGED <<post, smfWait, lock, sessions, byUEIP, fields, n6>>

----------------------------------------------------------------------------
(* Downlink.                                                               *)

\* A packet is in hand for the session o; its fields are read after the lock.
Take(o) ==
  /\ sender.pc = "idle"
  /\ o # None
  /\ sender' = [pc |-> "addr", obj |-> o, addr |-> addr[o], teid |-> teid[o]]
  /\ UNCHANGED <<post, del, smfWait, lock, maps, fields, kernelN6, sent>>

\* handleN6Packet: a packet for session n's address arrives from the TUN.
TakeFromN6(n) == kernelN6 /\ lock = None /\ Take(byUEIP[n])

\* handleUplinkPacket without a kernel TUN answers an echo request itself.
TakeEchoReply(n) == ~kernelN6 /\ Take(handlers[n])

\* GNBAddr is read: nil drops the packet.  The read is not ordered with the
\* update, so it yields the present value or the one at the lookup.
ReadAddr ==
  /\ sender.pc = "addr"
  /\ \E seen \in {addr[sender.obj], sender.addr} :
        sender' = IF seen THEN [sender EXCEPT !.pc = "teid"] ELSE NoPacket
  /\ UNCHANGED <<post, del, smfWait, lock, maps, fields, kernelN6, sent>>

\* GNTEID is read and the packet sent under it.
ReadTeidAndSend ==
  /\ sender.pc = "teid"
  /\ sent' \in {teid[sender.obj], sender.teid}
  /\ sender' = NoPacket
  /\ UNCHANGED <<post, del, smfWait, lock, maps, fields, kernelN6>>

----------------------------------------------------------------------------
Handle(p) ==
  BeginUpdate(p) \/ EndUpdate(p) \/ LookupNothing(p) \/ RegisterMaps(p) \/ RegisterTEID(p)

HandleDelete(n) == DeleteMaps(n) \/ DeregisterTEID(n)

Calls(n) == SmfPosts(n) \/ SmfAnswered(n) \/ SmfGivesUp(n) \/ GnbPosts(n) \/ OperatorDeletes(n)

Send == ReadAddr \/ ReadTeidAndSend

Next ==
  \/ \E n \in Sessions : Calls(n) \/ HandleDelete(n) \/ TakeFromN6(n) \/ TakeEchoReply(n)
  \/ \E p \in Posts : Handle(p)
  \/ Send

Spec == Init /\ [][Next]_vars

\* A request that has been read has a goroutine, and u.mu is not held across a
\* blocking call.  A POST of the SMF's may be lost on its way, and nobody owes
\* the UPF a call or a packet.
Fairness ==
  \A n \in Sessions : WF_vars(Handle(<<"gnb", n>>)) /\ WF_vars(HandleDelete(n))

FairSpec == Spec /\ Fairness

----------------------------------------------------------------------------
(* Properties.                                                             *)

\* The SMF was answered in time and nobody has deleted the session.
Established(n) == smfWait[n] = "ok" /\ del[n] = "none"

\* What the SMF was told is established can be found in all three tables, and
\* they mean the same UPFSession: the tunnel's handler and the index by address
\* are written under different locks, and the gNB's POST looks up and registers
\* in two critical sections.
TablesAgree ==
  \A n \in Sessions : Established(n) =>
    /\ sessions[n] # None
    /\ byUEIP[n] = sessions[n]
    /\ handlers[n] = sessions[n]

\* When the gNB has been answered as well, the session has the gNB's tunnel,
\* whichever of the tables a downlink packet is routed by.
Routable ==
  \A n \in Sessions : (Established(n) /\ post[<<"gnb", n>>] = "done") =>
    \A o \in {byUEIP[n], handlers[n]} : o # None /\ addr[o] /\ teid[o]

\* A deleted session leaves no entry behind in any table.
Deleted ==
  \A n \in Sessions : (smfWait[n] = "ok" /\ del[n] = "done") =>
    sessions[n] = None /\ byUEIP[n] = None /\ handlers[n] = None

\* The gNB, which waits without a timeout in the loop that serves all its UEs,
\* is answered, and so is a delete: no branch keeps u.mu.
GnbAnswered ==
  \A n \in Sessions :
    /\ (post[<<"gnb", n>>] = "sent") ~> (post[<<"gnb", n>>] = "done")
    /\ (del[n] = "sent") ~> (del[n] = "done")

\* handleN6Packet "forwards the packet to the gNB encapsulated with the
\* session's DL TEID": no packet leaves for the gNB under TEID 0.
DownlinkTeid == sent
=============================================================================
