---------------------------- MODULE SmfSessions ----------------------------
(***************************************************************************)
(* The Session Management Function: its IP pool, its TEID counter, its     *)
(* session store, and the HTTP handlers that work on the three at once.    *)
(*                                                                         *)
(* net/http runs every request in a goroutine of its own.  The pool, the   *)
(* counter and the store each have their own lock, and a handler takes     *)
(* them one after the other, so the unit of atomicity is one locked call:  *)
(*                                                                         *)
(*   create   idle -Allocate-> "teid" -AllocateTEID-> "add" -Add-> "post"  *)
(*            -POST to the UPF-> "await" -answer or 5s timeout-> idle      *)
(*   release  idle -Get-> "release" -pool.Release-> "delete"               *)
(*            -sessions.Delete-> idle                                      *)
(*                                                                         *)
(* Addresses are offsets from the network address: 1 is network+1 and      *)
(* PoolSize is broadcast-1.  A TEID is a uint32, so the counter is taken   *)
(* modulo TeidSpace (2^32 in the program).                                 *)
(***************************************************************************)
EXTENDS Naturals, FiniteSets

CONSTANTS
  Handlers,    \* goroutines serving requests, each reused for the next one
  Supis,       \* subscribers the AMF asks sessions for
  PoolSize,    \* number of usable addresses of the configured CIDR
  TeidSpace,   \* size of the TEID range, 2^32
  NoSupi,      \* the absent entry of the pool's allocated map
  NoSession    \* the absent entry of the session store

ASSUME SmfAssumption ==
  /\ IsFiniteSet(Handlers)
  /\ PoolSize \in Nat
  /\ TeidSpace \in Nat
  /\ PoolSize < TeidSpace
  /\ NoSupi \notin Supis

Addresses  == 1..PoolSize
SessionIds == 1..PoolSize
Teids      == 0..(TeidSpace - 1)

Session == [supi : Supis, ip : Addresses, teid : Teids]

\* The request bodies of PFCPClient.EstablishSession: what the SMF tells the UPF.
PfcpRequest == [teid : Teids, ip : Addresses]

ASSUME NoSessionIsNone == NoSession \notin Session

Stages == {"idle", "teid", "add", "post", "await", "release", "delete"}
Codes  == {"none", "201", "204", "404", "503"}

VARIABLES
  next,         \* IPPool.next
  allocated,    \* IPPool.allocated
  teidCounter,  \* teidCounter of teid.go
  counter,      \* SessionStore.counter
  sessions,     \* SessionStore.sessions
  req,          \* the local variables of each handler
  answer,       \* status code of each handler's latest answer
  wire,         \* PFCP requests sent and not yet served by the UPF
  upf           \* PFCP requests the UPF has served

pool  == <<next, allocated>>
store == <<counter, sessions>>
n4    == <<wire, upf>>
vars  == <<next, allocated, teidCounter, counter, sessions, req, answer, wire, upf>>

\* What a handler knows at the start of a stage; the TEID comes later.
Request(stage, s, a, i) == [pc |-> stage, supi |-> s, ip |-> a, teid |-> 0, ref |-> i]

RequestType == [pc : Stages, supi : Supis \cup {NoSupi},
                ip : 0..PoolSize, teid : Teids, ref : 0..PoolSize]

\* A handler between two requests.
Idle == Request("idle", NoSupi, 0, 0)

TypeOK ==
  /\ next \in 1..(PoolSize + 1)
  /\ allocated \in [Addresses -> Supis \cup {NoSupi}]
  /\ teidCounter \in Teids
  /\ counter \in 0..PoolSize
  /\ sessions \in [SessionIds -> Session \cup {NoSession}]
  /\ req \in [Handlers -> RequestType]
  /\ answer \in [Handlers -> Codes]
  /\ wire \subseteq PfcpRequest
  /\ upf \subseteq PfcpRequest

Init ==
  /\ next = 1
  /\ allocated = [a \in Addresses |-> NoSupi]
  /\ teidCounter = 0
  /\ counter = 0
  /\ sessions = [i \in SessionIds |-> NoSession]
  /\ req = [h \in Handlers |-> Idle]
  /\ answer = [h \in Handlers |-> "none"]
  /\ wire = {}
  /\ upf = {}

----------------------------------------------------------------------------
(* Helpers.                                                                *)

\* The handler answers its client and ends.
Finish(h, code) ==
  /\ req' = [req EXCEPT ![h] = Idle]
  /\ answer' = [answer EXCEPT ![h] = code]

\* The handler goes on to its next locked call.
Goto(h, stage) == req' = [req EXCEPT ![h].pc = stage]

Live(i) == sessions[i] # NoSession

Message(h) == [teid |-> req[h].teid, ip |-> req[h].ip]

\* The ids a client can know: those whose creating handler has answered.
Published ==
  {i \in 1..counter : \A h \in Handlers : req[h].pc \in {"post", "await"} => req[h].ref # i}

(* A pool whose test admits one address too many.                          *)
PoolExhaustedLate == next > PoolSize + 1

\* IPPool.Allocate reports "IP pool exhausted".
PoolExhausted == next > PoolSize

----------------------------------------------------------------------------
(* createSMContext.                                                        *)

\* POST arrives and pool.Allocate fails: 503.
RefuseCreate(h) ==
  /\ req[h].pc = "idle"
  /\ PoolExhausted
  /\ Finish(h, "503")
  /\ UNCHANGED <<pool, teidCounter, store, n4>>

\* POST arrives for subscriber s and pool.Allocate takes the next address.
Allocate(h, s) ==
  /\ req[h].pc = "idle"
  /\ ~PoolExhausted
  /\ next' = next + 1
  /\ allocated' = [allocated EXCEPT ![next] = s]
  /\ req' = [req EXCEPT ![h] = Request("teid", s, next, 0)]
  /\ answer' = [answer EXCEPT ![h] = "none"]
  /\ UNCHANGED <<teidCounter, store, n4>>

(* An add that works from a stale load of the counter: a lost update.      *)
AllocateTEIDRacy(h) ==
  /\ req[h].pc = "teid"
  /\ \E seen \in 0..teidCounter :
        /\ teidCounter' = (seen + 1) % TeidSpace
        /\ req' = [req EXCEPT ![h].pc = "add", ![h].teid = teidCounter']
  /\ UNCHANGED <<pool, store, answer, n4>>

\* AllocateTEID: an atomic add on a uint32.
AllocateTEID(h) ==
  /\ req[h].pc = "teid"
  /\ teidCounter' = (teidCounter + 1) % TeidSpace
  /\ req' = [req EXCEPT ![h].pc = "add", ![h].teid = teidCounter']
  /\ UNCHANGED <<pool, store, answer, n4>>

(* The id is taken from the number of stored sessions.                     *)
AddSessionByCount(h) ==
  LET id == Cardinality({i \in SessionIds : Live(i)}) + 1
  IN /\ req[h].pc = "add"
     /\ counter' = id
     /\ sessions' = [sessions EXCEPT ![id] =
                       [supi |-> req[h].supi, ip |-> req[h].ip, teid |-> req[h].teid]]
     /\ req' = [req EXCEPT ![h].pc = "post", ![h].ref = id]
     /\ UNCHANGED <<pool, teidCounter, answer, n4>>

\* sessions.Add: the context is stored under the next id.
AddSession(h) ==
  /\ req[h].pc = "add"
  /\ counter' = counter + 1
  /\ sessions' = [sessions EXCEPT ![counter + 1] =
                    [supi |-> req[h].supi, ip |-> req[h].ip, teid |-> req[h].teid]]
  /\ req' = [req EXCEPT ![h].pc = "post", ![h].ref = counter + 1]
  /\ UNCHANGED <<pool, teidCounter, answer, n4>>

\* PFCPClient.EstablishSession sends its POST to the UPF.
PostPfcp(h) ==
  /\ req[h].pc = "post"
  /\ wire' = wire \cup {Message(h)}
  /\ Goto(h, "await")
  /\ UNCHANGED <<pool, teidCounter, store, answer, upf>>

\* The UPF serves a request, before or after the SMF stopped waiting for it.
UpfServes(m) ==
  /\ m \in wire
  /\ wire' = wire \ {m}
  /\ upf' = upf \cup {m}
  /\ UNCHANGED <<pool, teidCounter, store, req, answer>>

\* The UPF answered 201: the handler answers 201 in turn.
PfcpEstablished(h) ==
  /\ req[h].pc = "await"
  /\ Message(h) \in upf
  /\ Finish(h, "201")
  /\ UNCHANGED <<pool, teidCounter, store, n4>>

(* A client that waits for the UPF for ever.                               *)
PfcpFailedNever(h) == FALSE /\ Finish(h, "201") /\ UNCHANGED <<pool, teidCounter, store, n4>>

\* No answer, an error or the 5s timeout: not fatal, the answer is 201 as well.
PfcpFailed(h) ==
  /\ req[h].pc = "await"
  /\ Finish(h, "201")
  /\ UNCHANGED <<pool, teidCounter, store, n4>>

----------------------------------------------------------------------------
(* releaseSMContext.                                                       *)

\* DELETE of an id the store no longer holds: 404.
ReleaseUnknown(h, i) ==
  /\ req[h].pc = "idle"
  /\ i \in Published
  /\ ~Live(i)
  /\ Finish(h, "404")
  /\ UNCHANGED <<pool, teidCounter, store, n4>>

\* DELETE: sessions.Get returns the context, whose id and address it keeps.
LookupForRelease(h, i) ==
  /\ req[h].pc = "idle"
  /\ i \in Published
  /\ Live(i)
  /\ req' = [req EXCEPT ![h] = Request("release", NoSupi, sessions[i].ip, i)]
  /\ answer' = [answer EXCEPT ![h] = "none"]
  /\ UNCHANGED <<pool, teidCounter, store, n4>>

(* A pool that gives a released address out again.                         *)
ReleaseIPForReuse(h) ==
  /\ req[h].pc = "release"
  /\ allocated' = [allocated EXCEPT ![req[h].ip] = NoSupi]
  /\ next' = req[h].ip
  /\ Goto(h, "delete")
  /\ UNCHANGED <<teidCounter, store, answer, n4>>

\* pool.Release: forgets who holds the address; next is left alone.
ReleaseIP(h) ==
  /\ req[h].pc = "release"
  /\ allocated' = [allocated EXCEPT ![req[h].ip] = NoSupi]
  /\ Goto(h, "delete")
  /\ UNCHANGED <<next, teidCounter, store, answer, n4>>

(* A release that forgets the address and keeps the session.               *)
DeleteSessionForgotten(h) ==
  /\ req[h].pc = "delete"
  /\ Finish(h, "204")
  /\ UNCHANGED <<pool, teidCounter, store, n4>>

\* sessions.Delete, then 204.  The UPF is not told.
DeleteSession(h) ==
  /\ req[h].pc = "delete"
  /\ sessions' = [sessions EXCEPT ![req[h].ref] = NoSession]
  /\ Finish(h, "204")
  /\ UNCHANGED <<pool, teidCounter, counter, n4>>

----------------------------------------------------------------------------
Create(h) ==
  \/ RefuseCreate(h)
  \/ \E s \in Supis : Allocate(h, s)

Release(h) ==
  \E i \in SessionIds : ReleaseUnknown(h, i) \/ LookupForRelease(h, i)

\* What the handler does by itself once its request has been read.
Progress(h) ==
  \/ AllocateTEID(h)
  \/ AddSession(h)
  \/ PostPfcp(h)
  \/ PfcpEstablished(h)
  \/ PfcpFailed(h)
  \/ ReleaseIP(h)
  \/ DeleteSession(h)

Next ==
  \/ \E h \in Handlers : Create(h) \/ Release(h) \/ Progress(h)
  \/ \E m \in wire : UpfServes(m)

Spec == Init /\ [][Next]_vars

\* A goroutine is always scheduled again, and the wait for the UPF ends after
\* 5s at the latest.  Neither clients nor the UPF owe the SMF anything.
Fairness == \A h \in Handlers : WF_vars(Progress(h))

FairSpec == Spec /\ Fairness
----------------------------------------------------------------------------
(* Properties.                                                             *)

\* Two sessions that exist at the same time never share an address or a TEID,
\* whatever order concurrent creates and (possibly repeated) releases run in:
\* the pool, the counter and the store have separate locks.
UniqueSessions ==
  \A i, j \in SessionIds :
    (i # j /\ Live(i) /\ Live(j)) =>
      /\ sessions[i].ip # sessions[j].ip
      /\ sessions[i].teid # sessions[j].teid

\* Handler h is between pool.Allocate and sessions.Add with address a for s.
Holding(h, a, s) == req[h].pc \in {"teid", "add"} /\ req[h].ip = a /\ req[h].supi = s

\* Some handler has released session i's address and not yet deleted session i.
HalfReleased(i) == \E h \in Handlers : req[h].pc = "delete" /\ req[h].ref = i

\* The pool's books agree with the store: an address is recorded for a
\* subscriber exactly while a create that took it has not stored its session
\* yet, or a stored session that no release has reached has it.  So no sequence
\* of creates and releases leaks an address or frees one that is in use.
PoolTracksSessions ==
  \A a \in Addresses, s \in Supis :
    (allocated[a] = s) <=>
      \/ \E h \in Handlers : Holding(h, a, s)
      \/ \E i \in SessionIds :
           Live(i) /\ sessions[i].ip = a /\ sessions[i].supi = s /\ ~HalfReleased(i)

\* The UPF keys its sessions by TEID and overwrites (RegisterSession), and the
\* gNB takes TEID 0 for "no tunnel": every PFCP request the SMF has ever sent,
\* delivered late or not, names a non-zero TEID of its own, even after the
\* session it announced is gone.
UpfTeidOwner ==
  /\ \A m \in wire \cup upf : m.teid # 0
  /\ \A m, n \in wire \cup upf : m.teid = n.teid => m = n

\* A handler that has taken a request answers it, also when the UPF is dead:
\* the PFCP call fails softly.
Answered == \A h \in Handlers : (req[h].pc # "idle") ~> (req[h].pc = "idle")

\* How far session i is: its creating handler has not sent its PFCP request yet,
\* waits for the UPF, or has answered.
StageOf(i) ==
  IF i > counter THEN "new"
  ELSE IF ~Live(i) THEN "closed"
  ELSE IF \E h \in Handlers : req[h].pc = "post" /\ req[h].ref = i THEN "open"
  ELSE IF \E h \in Handlers : req[h].pc = "await" /\ req[h].ref = i THEN "announced"
  ELSE "published"

Contract == INSTANCE SmfContract WITH
  stage <- [i \in SessionIds |-> StageOf(i)],
  context <- sessions,
  announced <- wire \cup upf

\* To the AMF and the UPF the handlers, with their locks taken one by one, are
\* the contract: each of their steps is one of its steps or none, contexts are
\* never replaced, revived or closed before the AMF knows them, repeated
\* releases close once, and the AMF is told of every session.
ImplementsContract == Contract!Spec

\* "Release returns an IP address to the pool": a create is refused for want of
\* addresses only while every address is held.  The code's pool never looks
\* back at a released address.
ExhaustedMeansFull ==
  [][\A h \in Handlers :
       RefuseCreate(h) => \A a \in Addresses : allocated[a] # NoSupi]_vars
============================================================================
