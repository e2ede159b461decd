# A TLA+ model of the 5g-sim core

5g-sim runs a small 5G network as separate Go processes: UE, gNB, AMF, SMF,
UPF, UDM, NRF and an observatory with a web page.  A UE registers through its
gNB with the AMF, asks for a PDU session, gets an address and a tunnel, and
sends IP packets through gNB and UPF to a data network.

This directory holds TLA+ specifications of that program, configurations with
which TLC checks them on small instances, and proofs, checked by TLAPS, that
the most important properties hold on instances of any size.

## The system and what can go wrong in it

| Part | State | Operations | What is hard | What makes it correct |
|---|---|---|---|---|
| SMF `internal/smf` | IP pool, TEID counter, session store, each with its own lock | create, read and release a session over HTTP; tell the UPF | every request is a goroutine; three locks taken one after the other; the UPF may be slow or absent | no two live sessions share an address or TEID; pool and store agree; each request is answered |
| UE `internal/ue` service | NAS state, address, DL TEID | connect, register, ask for a session, take the accepts, stop | reactions to messages of three other processes; being stopped at any moment | it is known to the core as itself; it gets its own session |
| gNB `internal/gnb` N2 side | UE connections, DL TEID counter, session table, one loop for the AMF | relay NAS both ways, set up a session's tunnel, tell the UPF | a goroutine per UE and one for the AMF; answers before it acts; a call without timeout in the loop | messages reach the UE they are for; tunnels exist before they are used |
| AMF `internal/amf` | UE contexts, kept accept per context | register, session request, resource setup response | several gNBs at once; UDM and SMF may fail after they have acted | contexts, connections and subscribers belong together |
| UPF `internal/upf`, `internal/gtp` tunnel | sessions by TEID and by address, tunnel handlers | create, update and delete over HTTP; send downlink | two locks; a lookup and a registration in two critical sections; late requests; readers without lock | an established session is the same in all tables, and routable |
| gNB GTP relay `ue_gtp_relay.go`, UE data plane `ue/datapath.go` | session by RAN id, UDP source of each; the UE's tunnel and TUN device | relay up, relay down, ping | binds a session to the first unknown source; one table entry for all sessions; a goroutine per datagram | a packet reaches the plane it is addressed to |
| UE supervisor `ue/manager.go` | instances and their states | spawn, stop, list | callbacks of a UE race with its stop; `Close` clears what a goroutine uses | identities are apart; a stopped UE ends and does not bring the rest down |
| Observatory `internal/observatory` | event buffer, subscribers, topology | publish, subscribe, snapshot, spawn UEs | fan-out with full channels; snapshot before subscription | nothing is shown twice or missed without a reason; nobody is held up |
| UDM, NRF | maps of records | register, discover, heartbeat | a lock around each map; what is written nobody reads back | what is read was written |
| NG Setup, SCTP `gnb/service.go`, `amf/service.go`, `transport` | RANs, setupDone, associations | connect with retries, set up, send, receive | a late answer after 10 s; a crash or a break in between; an answer that cannot be built | both ends know each other while a gNB serves UEs |
| Codecs `nas`, `ngap`, `gtp/packet.go` | none | encode, decode | lengths, half-octets and boundaries | decode undoes encode |
| TUN devices, logs, captures, web page | files | I/O | — | — |

How they interact: UE and gNB exchange NAS messages over an SCTP association,
gNB and AMF NGAP messages over another; the AMF calls UDM and SMF over HTTP and
waits; the SMF calls the UPF over HTTP and goes on after 5 s; the gNB calls the
UPF over HTTP and waits without a bound; the UE and the UPF each have a UDP
tunnel with the gNB.

## Modules

| Module | Models | Shape |
|---|---|---|
| `SmfSessions` | SMF: pool, TEID counter, store, create and release handlers, its PFCP call | one action per locked call of a handler |
| `SmfContract` | what the SMF promises AMF and UPF, without locks or handlers | the stages of a session context; implemented by `SmfSessions` |
| `SmfSessionsProofs` | theorems about `SmfSessions`, and that it implements the safety of `SmfContract` | |
| `N2Setup` | how gNBs and AMF come to know each other; then one UE message across N2 | one action per handler or blocking call; associations that break |
| `N2Attach` | UE, gNB and AMF from connecting to the session accept; SMF and UPF as far as they answer | one action per message handled; FIFO channels |
| `UpfSessions` | UPF: PFCP-sim handlers, tunnel handlers, downlink senders | one action per critical section |
| `UpfSessionsProofs` | theorems about `UpfSessions` | |
| `GnbRelay` | user packets from the UE's planes through the gNB to UPF and host and back | one action per datagram handled or critical section; datagrams are lost or reordered |
| `UeSupervisor` | `Manager`, the goroutine and the stop of each instance, and who spawns | one action per step between two uses of shared fields |
| `EventHub` | the observatory's hub, event POSTs and WebSocket connections | one action per critical section or channel operation |
| `Octets`, `NasCodec`, `NgapCodec`, `GtpuCodec` | encoding and decoding, octet by octet | operators, used by `N2Setup` and `GnbRelay` |
| `N2SetupProofs`, `N2AttachProofs`, `GnbRelayProofs`, `UeSupervisorProofs`, `EventHubProofs` | theorems about the module they are named after | |
| `GtpuCodecProofs` | that a GTP-U packet is decoded as it was encoded, and lemmas on octets for `N2SetupProofs` and `GnbRelayProofs` | |
| `MCSmfSessions`, `MCN2Setup`, `MCN2Attach`, `MCUpfSessions`, `MCGnbRelay`, `MCUeSupervisor`, `MCEventHub` | instances for TLC | |

`N2Setup` extends `NgapCodec`, that `NasCodec`, and that and `GtpuCodec` extend
`Octets`.  The models meet at what one shows and the next relies on: `N2Setup`
that a message is read as it was sent, so that `N2Attach` can send messages as
records; `SmfSessions` that a session's address and TEID are its own, which
lets `N2Attach`, `UpfSessions` and `GnbRelay` name it by a number; `N2Attach`
that all sessions of a gNB carry RAN id 1, from which `GnbRelay` starts;
`UpfSessions` that a session is routable once the SMF and the gNB have told the
UPF of it, which is `told` in `GnbRelay`.

The definitions bear the names of the functions or of what they do there; the
`map` of `PROJECT.json` gives the lines each one stands for.

### SmfSessions

A handler is a record of its local variables with a program counter `pc`.
`createSMContext` is `Allocate`, `AllocateTEID`, `AddSession`, `PostPfcp` and
then `PfcpEstablished` or `PfcpFailed`; `releaseSMContext` is
`LookupForRelease`, `ReleaseIP`, `DeleteSession`.  Each is one locked call, so
every interleaving the program has between two locks is there.  Addresses are
offsets in the network; a TEID is counted modulo `TeidSpace` (2^32).  A client
names only ids it can know, those whose create has been answered.  `wire` and
`upf` hold the PFCP requests that are on their way and that the UPF has
served; a request may be served after its sender stopped waiting.

The store's index by subscriber is left out: it is written but no handler reads
it.  `getSMContext` reads only.

### SmfContract

A context is new, open, announced to the UPF, published to the AMF, closed; a
step of the contract is atomic, and gives a session an address and TEID nobody
has.  The refinement takes the stage of an id from the handlers (`StageOf`):
it is open from `AddSession`, announced from `PostPfcp`, published when its
create is answered and closed by `DeleteSession`, which may come after the
address was already given back.  Allocation, the TEID counter and the failures
before the store are stutters.  `Told`, that an open session is published, is a
part of the contract, and so of what `ImplementsContract` checks.

### N2Setup

A gNB's `phase` is how far `Start` is: it dials, up to 15 times, sends the
request, waits 10 s and goes on or exits.  `setupDone` is `amf # None`; the
`select` in the wait (`service.go:82`) takes any ready case, so it may time out
though the answer is there, and a gNB that runs late can still exit.  The AMF's
goroutine of an association registers the RAN before it builds the response; if
the response cannot be built, the RAN stays (`handler.go:164`), and if it cannot
be sent, it is removed.  `Break` and `AmfCrash` close associations with all that
is on them; the gNB's loop for the AMF then ends and it stays up without one.

When a gNB is up, one message of one UE is encoded as NAS, put into NGAP, sent,
dispatched by procedure and kind, and decoded: `said` and `heard` are what was
sent and read.  The fields the program packs itself (PLMN, GUAMI, TAC, gNB id,
slices, F-TEID, security capability, SUPI, GUTI, lengths) are octets.  The ASN.1
library is third-party: an identity that may refuse.

### NasCodec, NgapCodec, GtpuCodec, Octets

One operator per encoding and decoding function, with the lengths and bounds the
code tests.  What the code loses is in them: a gNB reads one octet of the AMF
set and so knows only its first eight bits (`handler.go:69`); the decoder tests
the security capability 0xC0 against 0x20, so NEA2 reads as absent though the
sender's comment says NEA2=1 (`message.go:111`, `:271`); a SUPI comes back only
under PLMN 00101, which is what the subscribers have.

### N2Attach

`conns` is the gNB's `uesByRanID` with the two queues of each association,
`toAmf` and `toGnb` are the NGAP associations.  The AMF reads each gNB's
association in one goroutine and its handlers wait in it for UDM and SMF, so an
AMF handler is one action with the outcomes of those calls as alternatives
(`AmfAccept`, `AmfReject`, `AmfPduCreated`, `AmfPduRefused`, and `AmfPduLost`
when the SMF has acted but its answer is not there in 10 s).  `AmfPduDirect` is
the branch in which no resource setup request can be built
(`pdu_session_handler.go:140`): the accept goes to the UE at once, and has no DL
TEID.  The gNB's loop for the AMF answers a resource setup, opens the tunnel and
calls the UPF, with the UEs' goroutines running in between: three actions and a
program counter.  Where its handler returns early, before or after it took a DL
TEID (`n2_pdu_session.go:58`, `:64`, `:89`), it answers nobody: `GnbSetupFails`,
after which the session is in `silent`.  A tunnel that is not opened after the
answer has left (`:104`, `:107`) leaves its DL TEID in `broken`.  Both variables
stand for lines in the gNB's log; no action reads them.

A connection is numbered when it is accepted (`UeStart`); `Accepted` is the
connections so far, for the bound `MaxConns`.  Writes on an association succeed
while it is open, so an answer that can be built is sent; associations between
gNB and AMF stay open here, and `N2Setup` has those that break.

Session n stands for the n-th address and the n-th uplink TEID of the SMF,
which `SmfSessions` shows to be its own; the AMF-UE-NGAP-ID is the position in
`contexts` because the code's counter and its store never lose an entry.  A
subscriber is the UE.  An uplink NAS transport carries the RAN id of its
connection, which the AMF does not look at.  `UplinkKnown` shows that the AMF's
branches for unknown ids are unreachable, which is why they have no action.

### UpfSessions

A session stands for its TEID and its address.  A `UPFSession` struct is named
by the POST that allocates it, and of its fields only "set" or "not set"
matters.  `handleSessionCreate` is split where the code releases a lock:
`BeginUpdate`, `EndUpdate` under `u.mu` (two actions, because readers take no
lock), or `LookupNothing`, `RegisterMaps`, `RegisterTEID`.  The gNB calls only
after the SMF's wait has ended, because it learns of the session through the
SMF's answer to the AMF; the wait may have ended by timeout, and then the SMF's
POST is served late or never.  The sender looks a session up and reads its
fields afterwards; the reads are a data race with the update, so a read yields
the present value or the one at the lookup.

No network function of the program deletes a session at the UPF; the handler
exists, and the model lets an operator call it once the session is set up.

### GnbRelay

All sessions of the gNB share one entry of `ueSessions` (`slot`), and all
accepts go to the UE with RAN id 1, which makes a further data plane of each,
with a UDP socket of its own.  A datagram is a record of its ends and of the
bytes of `GtpuCodec`; each is handled by a goroutine of its own, so the network
is a set, and any of them may be lost.  `HandleUplinkFromUE` is one critical
section; a downlink packet is looked up in one and sent in another, with `jobs`
in between.  The UPF answers a ping itself without N6, or passes it to a host.

The kernel's own noise on a TUN device is filtered by the code and left out.
Echo requests, `AllocateTEID`, `injectUplink`, `SetEchoHandler` and `SendPing`
have no caller in production.  `Decode` could meet a length below the header it
announces (`packet.go`); no sender of the program produces one.

### UeSupervisor

An instance is its serial number, with the program counters of its goroutine
(`pc`) and of `Stop` (`stop`).  `Run` is split wherever it reads or writes a
field that `Stop` changes: the state, the context, the connection, the tunnel.
`Close` takes no lock, so each use of `conn` and `tunnel` is a step of its own,
and a nil one is a panic, which ends the process with all UEs; it closes and
clears each of the two in two steps.  The callers of `Spawn` draw a serial in one
critical section and store the instance in another.

`receiveLoop` takes any message at any time, and by `N2Attach` a UE can be sent
the accepts of others: `Read` takes registration and session accepts in any
number and order.  Each session accept makes a socket (`UserPlaneUp`), numbered
by `opened`, which `u.tunnel` then refers to (`tunnel`); `ports` are the sockets
that are open.

A stopped instance may be listed as `PDU_ACTIVE` (`manager.go:140` keeps it);
the TUN device of a stopped UE is never closed, so its uplink loop can meet a
nil tunnel; an association opened after `Close` stays open, and so does the
socket of a session accept that was followed by another, which no field refers to
any longer.  A UE whose association Stop closes before its Registration Request
is sent reports `FAILED`; `StopIsNoFailure` is about the read error only.  With
`-no-default`, or with a SUPI given by the user, two UEs may have the same SUPI.

### EventHub

An event's POST stores it and copies the set of subscribers under the lock
(`Store`), and sends to each after it (`Send`).  A connection takes its snapshot
(`Snapshot`) and subscribes (`Subscribe`) in two critical sections.  Ghost
variables record the order in which events were stored and where a connection
came in.  Events reach a client in an order that may differ from that of the
buffer; no property denies it.  `Clear` has no caller.

## What TLC checks

| Run | Instance | Shows |
|---|---|---|
| `smf` | 2 handlers, 2 subscribers, 3 addresses, 4 TEIDs | `TypeOK`; `UniqueSessions`, `PoolTracksSessions`, `UpfTeidOwner`: no interleaving makes two sessions share, or pool, store and UPF differ; `Answered`; `ImplementsContract` |
| `smf_reuse` | 2 addresses | `ExhaustedMeansFull` is violated |
| `n2_setup` | 2 gNBs with PLMNs of 5 and 6 digits, an AMF that can encode its answer or not, 3 dials | `TypeOK`; `SetupAgreement`: a gNB that serves UEs and its AMF know each other; `AsSent`: each message is read as sent; `SetupEnds` |
| `n2_shared` | 2 UEs, 1 gNB, 2 connections | `TypeOK`, `RegisteredAsSelf`, `ContextsApart`, `UplinkKnown`, `TunnelBeforeAccept`, `PeersApart` |
| `n2_own_gnb` | 2 UEs, a gNB each, 2 connections in all | `SessionAgreement`: UE, gNB, AMF, SMF and UPF mean the same session, or without a DL TEID gNB and UPF know of none; `Served`: who gets no address, and why |
| `n2_accept` | 2 UEs, 1 gNB | `AcceptToOwner` is violated |
| `n2_downlink` | 2 UEs, 1 gNB | `DownlinkRoutable` is violated |
| `upf` | 2 sessions, kernel N6 or not | `TypeOK`, `TablesAgree`, `Routable`, `Deleted`, `GnbAnswered` |
| `upf_race` | the same | `DownlinkTeid` is violated |
| `relay` | 2 sessions of 1 gNB, 2 application packets, every data plane mode | `TypeOK`; `DeliveredToOwner`, `PassedOnOwnReply`: packets reach the plane they are addressed to; `ClaimedByOwnerOrEarlier`, `BindingIsStable`: whom a session is bound to; `PingAnswered`: the only reasons for a ping without reply |
| `supervisor` | 3 instances, one of which runs, spawned at boot, by the observatory and a user | `TypeOK`; `IdentitiesApart`; `SettledIsNotComing`, `StopIsNoFailure`: what a stopped UE reports; `CrashOnlyByStop`, `LeftOpenIsLate`: what a stop can break or leave; `StopEnds` |
| `hub` | 2 connections, 3 events, buffer 2, window 1, channel 1 | `TypeOK`; `SeenOnce`, `MissedForAReason`: what a client is shown; `PostAnswered`: no poster is held up |

Bounds.  Two handlers are the smallest number at which the locks matter, and
three addresses let both create, release, release again and run into exhaustion;
what more handlers or addresses could do is covered by the proofs. `MaxRan`
bounds the connections a gNB accepts: 2 lets two UEs be attached at once or one
UE come back after a stop.  `MaxIds` follows from it.  `MaxConns` bounds the
connections of all gNBs together: in `n2_own_gnb` two UEs attach next to each
other, or one of them attaches twice.  What a UE that comes back sees while the
other attaches is left to the proof.  `UpfSessions` has no bound: each session
has one POST of each party and one DELETE.  Two sessions suffice there to
contend for the lock; the proofs cover the rest.

In `GnbRelay`, two sessions are the fewest at which the shared table entry and
the claim of a session by an earlier socket happen, and two application packets
the fewest that can overtake each other.  In `UeSupervisor` instances share only
the table of instances and the process, so one that runs (`MaxRunning`) against
its stop shows what a stop can do; three are needed for the three callers of
`Spawn` to meet.  The network sends the UE up to three accepts (`MaxAccepts`),
registration and session accepts in any order, so that two sockets are replaced;
the proofs have no bound.  One caller at a time stops it.  In `EventHub`, a
buffer of two with three events loses one, a channel of one fills, and a window
smaller than the buffer tells the two limits apart.  In `N2Setup`, gNB ids are
below 2^27, TEIDs and other numbers below 2^31, because TLC's integers end
there; the pointer is below 64 and the AMF set at most 255, as the code's
`Config` has it in an octet; a DNN is at most 254 octets long.  Its values are
boundaries and the defaults.  One UE message per behaviour is enough because
encoding keeps no state.

Deadlock is not checked where a bound or the protocol lets the system come to rest.

Fairness.  Goroutines with input go on (weak fairness of each handler or read
loop), and calls with a timeout end.  Nothing is assumed of clients, of the UPF
towards the SMF, of UEs' stops, or of the gNB's call to the UPF, which has no
timeout: `Served` speaks of behaviours in which that call returns, and of
resource setups the gNB does not drop.  In `GnbRelay` a datagram is delivered or
lost, and lost ones are excused in `PingAnswered`.  In `UeSupervisor` the
goroutine of an instance goes on, since its reads have a deadline; a stop that
has begun may take for ever.  In `EventHub` only the handlers of the POSTs are
fair, not the connections; in `N2Setup` only `Start`, whose dials, sleeps and
wait end, not the AMF.

## Disagreements between the code and its own description

* `smf_reuse` — `context.go:75` says that Release returns an address to the
  pool.  `Allocate` never looks at released addresses: after as many creates as
  the pool has addresses, every create is refused, even with no session left.
* `n2_accept` — the gNB is to deliver NAS messages "to the correct UE
  connection" (`ue_relay.go:113`), and several UEs are advertised.  The AMF
  serves a session request for an arbitrary UE of the gNB (`nas_handler.go:411`)
  and answers to RAN id 1 (`pdu_session_handler.go:163` and `:236`), so a UE can
  take the address given to another.  A UE on a later connection gets none.
* `n2_downlink` — the lookup of downlink packets is meant to work "if the gNB
  hosts multiple PDU sessions" (`user_plane.go:141`).  The table is keyed by the
  RAN id, always 1: the second session replaces the first, and what the UPF
  sends into the first tunnel is dropped.
* `upf_race` — a downlink packet is to carry "the session's DL TEID"
  (`upf.go:216`).  The sender reads address and TEID without the lock under
  which they are set one after the other, and can send under TEID 0.

Consequences of the code that are modelled, and that no property calls wrong:
the SMF keeps a session whose answer the AMF did not wait for (`AmfPduLost`),
and a POST of the SMF's that is served after its timeout replaces the session
the gNB has set up in the meantime, whose tunnel the UPF then no longer knows
(the properties of `UpfSessions` speak of sessions whose POST was answered in
time); a session of the gNB can be claimed by the socket of an earlier one,
which the comment in `ue_gtp_relay.go:73` does not expect
(`ClaimedByOwnerOrEarlier` says how far it goes); stopping one UE can bring down
all (`CrashOnlyByStop` says that nothing else does), and leaves open the sockets
of all its session accepts but the last (`LeftOpenIsLate`); a UE that comes back
to a gNB waits for a session for ever, since its resource setup and its accept
go to the gNB's first connection, and so does a UE whose resource setup the gNB
drops (`Served` excepts both); a UE whose accept bypassed the gNB has an address
and no user plane (the last conjunct of `SessionAgreement`).

What these properties leave open on purpose: `SetupAgreement` speaks of open
associations only, so a RAN that is kept after a break is not its subject;
`Deleted` assumes that the operator who deletes waits for the creates of the
session to end.

Seen while modelling: the comment on `RemoveRAN` (`amf/context.go:140`) says
that it runs when a connection drops, but it only runs when a response cannot be
sent; `decodeGUTI` tests for 10 octets and reads 11; the list of UEs merged with
the AMF's shows a stopped UE as registered (`ues.go:304`); and the observatory's
fallback spawns a UE under the context of the request (`ues.go:196`,
`server.go:141`), whose end kills it.

## What is proved

TLAPS checks the theorems for all values of the constants that satisfy the
named assumptions: any number of UEs, gNBs, sessions, handlers, clients, and any
buffer size.  Each module proves an invariant `IInv`, which TLC has checked on
the instances of the runs too, by one lemma per action (`...Keeps`), and
derives the properties from it.

`SmfSessionsProofs`, from `SmfAssumption` (finitely many handlers, fewer
addresses than TEIDs).  None of the invariants is inductive alone, for a
handler carries what it took under one lock to the next.  `IInv` adds
`Counting` (every address handed out is, up to the handlers on their way, one
TEID and one session id: the pool bounds both counters, so the TEID never
wraps), `CreatorsApart` and `ReleasersApart` (what a handler holds is its own),
and `UsedUp` (whatever exists came from the used part of each counter).
Theorems: `TypeCorrect`, `SessionsUnique`, `PoolAgreesWithStore`,
`TeidsNeverReused`.

`ImplementsContractSafety` maps each step to one of `SmfContract`, or to none,
with `IInv` and one fact more (`RefsApart`): the stage of a session follows the
one handler that has it, so a step of another handler moves no stage.  `Told`,
the liveness part of the contract, is left to TLC.

`UpfSessionsProofs`, from `UpfAssumption`.  The three tables agree from the
SMF's answer on because its POST is over by then and the gNB's cannot have
begun before.  `IInv` follows that order: `Order` of the POSTs and the DELETE,
`Registered` for what the SMF's POST leaves until the gNB's, `Settled` for what
becomes of it.  A step of one session leaves the view of every other unchanged,
so each action is looked at for its own session only.  Theorems: `TypeCorrect`,
`TablesAlwaysAgree`, `AlwaysRoutable`, `DeletedForGood`.

`N2SetupProofs`, from `SetupAssumption` (a gNB's identity has 28 bits, its
tracking area 24, an AMF's region and set 8 and its pointer 6, a PLMN five or six
digits: what `Config` documents), `MessageAssumption` and `NoneAssumption`.
`Exchange` lists how far the set-up of a waiting gNB can be: request under way,
taken, answered.  A context therefore was made of the one message the other end
sends, and holds what it was configured with, since the octets are read back as
they were written (`ReadThree`, `ReadFour`, `ReadPLMN`).  This covers the
identities TLC's integers leave out.

`AsSent` stands on `Said`, which says that a message that is waited for is still
the encoding of what was said (`UnderWay`), and on the codec.  There digits,
slices and elements come in any number, and the readers are recursive functions.
What they compute is shown by induction over the places of a message, as a set of
places that has no least member (`LeastNumber`).  A message is spoken of as the
octets that stand at a place (`Holds`), its elements as what they tell of an
identifier (`Tells`), so that an element is read alike whatever follows it.
`MessageAssumption` is what it takes: a name and slices fit the length octet in
front of them, a SUPI is of PLMN 001-01, which the encoder writes for all, no
slice has SD 0, which is written like none, addresses have four octets and
numbers 32 bits.
Theorems: `TypeCorrect`, `SetUp` (`SetupAgreement`), `ReadAsSent` (`AsSent`), and
of the codec `ReadMSIN`, `ReadGUTI`, `ReadNSSAI`, `UplinkNasRead`,
`DownlinkNasRead`.

`N2AttachProofs`, from `N2Assumption` and `NoneAssumption`.  The invariant says
what a message may be at each queue (`AmfMessageOK`, `GnbMessageOK`, `UplinkOK`,
`DownlinkOK`).  It needs to know that a connection registers once, which no
variable tells: `OnePlace` follows the connection from its first message through
the context it gets to its session request and the answer to a refusal, and one
of these places at a time is taken.  So contexts are apart, and a session uses
up its connection (`Spent`), which bounds `smf` and all tunnel ids.  Resource
setups reach a gNB in the order of their sessions (`SetupsInOrder`), so the id
it is about to open is never one given out before (`TunnelsOK`).
Theorems: `TypeCorrect`, `RegistersAsSelf`, `OneContextEach`, `KnownUplink`,
`TunnelFirst`, `DownlinkApart`.

`SessionAgreed` has one hypothesis more, `OneUePerGnb`; with two UEs at a gNB
parts of the agreement fail, as `n2_accept` and `n2_downlink` show.  Its
invariant `SessionInv` stands on `IInv`.  All session messages are addressed to
a gNB's first connection (`SetupFor`, `AcceptFor`), so only that one ever gets
an address.  While it is the only one, the gNB has one context at the AMF
(`SoleContext`), which makes one session since its request is read once
(`Spent`, `RequestSpent`), and whoever speaks of a session speaks of that one
(`OwnSession`): the resource setup, the tunnel, the accept, the UE.  A UE that
has come back is on a later connection and is given no address, not even one of
its earlier life.  An accept has DL TEID 0 where it bypassed the gNB; then no
resource setup was ever asked for, and no tunnel id is taken (`SoleAccept`).
Fourteen of the twenty-two actions are `Calm`: they bring no session further,
and share one lemma (`CalmKeeps`).

`GnbRelayProofs`, from `RelayAssumption` (TEIDs have 32 bits).  The network is a
set of datagrams, of which `Shape` says per hop what they may be.  What is
carried from hop to hop are facts that outlast every step, because `taken`,
`kernelTun` and `src` never go back (`Grown`): what left a plane's socket bears
the address of that plane or of the one with the TUN device, and what goes under
a session's TEID came from the socket that claimed it.  Theorems: `TypeCorrect`,
`WrittenToOwner`, `PassedOnOwn`, `ClaimedInTime`, `BindingsStable`.

`GtpuCodecProofs` has no assumption; `DecodeUndoesEncode` speaks of every packet
whose payload and optional fields fit the 16-bit length.  The recursive function
that reads a number is unfolded for two to four octets.

`UeSupervisorProofs`, from `SupervisorAssumption`.  A goroutine and the stop of
its UE meet in one record.  `OwnOK` says of each record which connection or
tunnel may be nil and which open one is unreachable, at each pair of program
counters; `SpawnOK` says who may be about to spawn what.  Instances interfere
only through `crashed`, so the theorems hold for any `MaxRunning`, which is 1 in
the run, and for any `MaxAccepts`: `u.tunnel` is nil or the newest socket, so an
open one is the one `Close` will find, a replaced one, or a late one.  Theorems:
`TypeCorrect`, `SupisApart`, `SettledStates`, `StoppedIsNotFailed`,
`PanicsAreStops`, `LeaksAreLate`.

`EventHubProofs`, from `HubAssumption`.  Buffer and snapshots are stretches of
the history, and the events stored since a client subscribed are exactly those
it has seen, has in its channel, is to be sent or found the channel full for; an
event is in one of these only.  Theorems: `TypeCorrect`, `NoneTwice`,
`MissedOnlyFor`.

Only model-checked: all liveness (`Answered`, `Served`, `GnbAnswered`,
`PingAnswered`, `StopEnds`, `PostAnswered`, `SetupEnds`, and `Told` in
`ImplementsContract`), which is out of the prover's reach.  Every safety property
the passing runs check has a theorem.

## Plan for the proofs

Left is what holds with several UEs at a gNB, where `SessionAgreement` as a whole
does not: that no two UEs' sessions share address or tunnel at the SMF and the
UPF, and that what is mixed up are UEs of one gNB only.

## Not modelled

* UDM: maps behind one lock.  Registrations are written and never read back; its
  one answer that matters, whether a subscriber is known, is a choice in
  `N2Attach` and `UeSupervisor`.
* NRF: a map behind one lock.  Functions register once, none discovers another,
  and heartbeats never expire a profile, so nothing depends on it.
* The observatory's fallback that starts UE processes itself, its merge of the
  AMF's UEs into the list, and the topology poller, which has a single writer.
* The failure answers of NG Setup, whose handlers no gNB of the program reaches;
  the UE does not read a Registration Reject; `dispatcher.Send` is not called.
* TUN devices and the `ip` command, capture files, logs, the web page, flags and
  configuration files, deployment: I/O, formatting or presentation.  Their
  success or failure is a choice where something follows from it.
