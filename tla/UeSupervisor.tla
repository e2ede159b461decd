---------------------------- MODULE UeSupervisor ----------------------------
(***************************************************************************)
(* The UE supervisor: instances that are spawned over HTTP, one goroutine  *)
(* each, and stopped by whoever calls Stop while that goroutine runs.      *)
(*                                                                         *)
(*   Run   starting -> preflight -> check -> dialing -> connected          *)
(*         -> sendReg -> receive -> loop <-> read -> (handlers) -> loop    *)
(*         ... -> returned -> done                                         *)
(*   Stop  cancel -> conn -> connNil -> tunnel -> tunnelNil -> mark -> done*)
(*                                                                         *)
(* Manager.mu covers the table of instances only: Close takes no lock, and *)
(* clears the connection and the tunnel the goroutine uses.  A nil one is  *)
(* a panic of the goroutine, and the end of the process with all UEs.      *)
(*                                                                         *)
(* An instance is its serial number, of which id and TUN name are made; a  *)
(* SUPI is the number its digits end in.  The network may send a UE the    *)
(* accepts of others too (N2Attach); every session accept opens one more   *)
(* UDP socket, and the sockets of a UE are numbered in that order.         *)
(***************************************************************************)
EXTENDS Naturals

CONSTANTS
  Users,          \* callers of the HTTP API, which leave the SUPI to it
  MaxInstances,   \* bound: instances spawned in a behaviour
  MaxRunning,     \* bound: the first so many run, the others keep waiting for the UDM
  MaxAccepts      \* bound: registration and session accepts a UE reads in a behaviour

ASSUME SupervisorAssumption ==
  /\ MaxInstances \in Nat \ {0}
  /\ MaxRunning \in 1..MaxInstances
  /\ MaxAccepts \in Nat
  /\ Users \cap {"boot", "observatory"} = {}

Serials  == 1..MaxInstances
Running  == 1..MaxRunning
Sockets  == 1..MaxAccepts
Spawners == Users \cup {"boot", "observatory"}

DefaultSupi == 1

VARIABLES
  inst,         \* the managed instance of each serial and its UE
  nextSerial,   \* Manager.nextSerial
  spawning,     \* each caller of Spawn: the serial it has drawn, or 0
  noDefault,    \* the supervisor was started with -no-default
  boot,         \* runSupervisor: "start", then "up" when the API listens
  ensure,       \* EnsureDefaultUE of the observatory
  crashed       \* a goroutine has panicked

vars == <<inst, nextSerial, spawning, noDefault, boot, ensure, crashed>>
rest == <<nextSerial, spawning, noDefault, boot, ensure>>

States == {"STARTING", "REGISTERING", "REGISTERED", "PDU_ACTIVE", "STOPPED", "FAILED"}

Pcs == {"none", "starting", "preflight", "check", "dialing", "unreachable", "connected",
        "sendReg", "receive", "loop", "read", "regAccept", "registered", "pduAccept",
        "active", "test", "returned", "done"}

Instance ==
  [pc : Pcs, state : States, supi : 0..MaxInstances,
   cancelled : BOOLEAN,                     \* instCtx
   conn : BOOLEAN,                          \* u.conn is not nil
   sock : {"none", "open", "closed"},       \* the association behind it
   tunnel : 0..MaxAccepts,                  \* the socket of u.tunnel, 0 if it is nil
   opened : 0..MaxAccepts,                  \* the newest socket
   ports : SUBSET Sockets,                  \* those that are open
   virtual : BOOLEAN,                       \* userPlaneVirtual
   kernel : BOOLEAN,                        \* a packetUplinkLoop reads from a TUN device
   answered : 0..MaxAccepts,                \* accepts received
   peerGone : BOOLEAN,                      \* the gNB closed the association
   err : {"none", "canceled", "subscriber", "connect", "send", "closed"},
   lateConn : BOOLEAN,                      \* the association was made when Stop had begun
   latePorts : SUBSET Sockets,              \* sockets opened when Stop had begun
   stop : {"no", "conn", "connNil", "tunnel", "tunnelNil", "mark", "done"}]

NoInstance ==
  [pc |-> "none", state |-> "STARTING", supi |-> 0, cancelled |-> FALSE, conn |-> FALSE,
   sock |-> "none", tunnel |-> 0, opened |-> 0, ports |-> {}, virtual |-> FALSE,
   kernel |-> FALSE, answered |-> 0, peerGone |-> FALSE, err |-> "none", lateConn |-> FALSE,
   latePorts |-> {}, stop |-> "no"]

\* Run returns with an error and never without.
Ended == {"unreachable", "returned", "done"}

\* Manager.instances
Instances == {i \in Serials : inst[i].pc # "none"}

TypeOK ==
  /\ inst \in [Serials -> Instance]
  /\ \A i \in Serials : inst[i].err # "none" <=> inst[i].pc \in Ended
  /\ nextSerial \in 0..MaxInstances
  /\ spawning \in [Spawners -> 0..MaxInstances]
  /\ noDefault \in BOOLEAN
  /\ boot \in {"start", "up"}
  /\ ensure \in {"idle", "spawn", "done"}
  /\ crashed \in BOOLEAN

Init ==
  /\ inst = [i \in Serials |-> NoInstance]
  /\ nextSerial = 0
  /\ spawning = [s \in Spawners |-> 0]
  /\ noDefault \in BOOLEAN
  /\ boot = "start"
  /\ ensure = "idle"
  /\ crashed = FALSE

----------------------------------------------------------------------------
(* Spawning.                                                               *)

\* The first critical section of Spawn.
Reserve(s) ==
  /\ spawning[s] = 0
  /\ nextSerial < MaxInstances
  /\ nextSerial' = nextSerial + 1
  /\ spawning' = [spawning EXCEPT ![s] = nextSerial']

\* The second one, and the goroutine.  The callers that start the default UE
\* name its SUPI.
Store(s) ==
  /\ ~crashed
  /\ spawning[s] # 0
  /\ inst' = [inst EXCEPT ![spawning[s]] =
       [NoInstance EXCEPT !.pc = "starting",
          !.supi = IF s \in Users THEN spawning[s] ELSE DefaultSupi]]
  /\ spawning' = [spawning EXCEPT ![s] = 0]
  /\ boot' = "up"
  /\ UNCHANGED <<nextSerial, noDefault, ensure, crashed>>

\* runSupervisor: SpawnDefault before the API listens, when no UE-001 can be there.
SpawnDefault ==
  /\ boot = "start"
  /\ IF noDefault
     THEN boot' = "up" /\ UNCHANGED <<nextSerial, spawning>>
     ELSE Reserve("boot") /\ UNCHANGED boot
  /\ UNCHANGED <<inst, noDefault, ensure, crashed>>

\* POST /v1/instances
UserSpawns(s) ==
  /\ boot = "up" /\ ~crashed
  /\ Reserve(s)
  /\ UNCHANGED <<inst, noDefault, boot, ensure, crashed>>

(* It looks for an instance that is up.                                    *)
NoneActive == \A i \in Instances : inst[i].state \in {"STOPPED", "FAILED"}

\* An instance that was stopped or has failed counts too.
NoneListed == Instances = {}

\* EnsureDefaultUE lists the instances ...
EnsureLists ==
  /\ boot = "up" /\ ~crashed
  /\ ensure = "idle"
  /\ ensure' = IF NoneListed THEN "spawn" ELSE "done"
  /\ UNCHANGED <<inst, nextSerial, spawning, noDefault, boot, crashed>>

\* ... and spawns one in a second request.
EnsureSpawns ==
  /\ ensure = "spawn" /\ ~crashed
  /\ Reserve("observatory")
  /\ ensure' = "done"
  /\ UNCHANGED <<inst, noDefault, boot, crashed>>

----------------------------------------------------------------------------
(* The goroutine of an instance: Run and the handlers it calls.            *)

Goto(i, from, to) ==
  /\ ~crashed
  /\ inst[i].pc = from
  /\ inst' = [inst EXCEPT ![i].pc = to]
  /\ UNCHANGED <<rest, crashed>>

\* onStateChange, under Manager.mu.
SetState(i, from, state, to) ==
  /\ ~crashed
  /\ inst[i].pc = from
  /\ inst' = [inst EXCEPT ![i].state = state, ![i].pc = to]
  /\ UNCHANGED <<rest, crashed>>

Return(i, from, err) ==
  /\ ~crashed
  /\ inst[i].pc = from
  /\ inst' = [inst EXCEPT ![i].pc = "returned", ![i].err = err]
  /\ UNCHANGED <<rest, crashed>>

Panic ==
  /\ crashed' = TRUE
  /\ UNCHANGED <<inst, rest>>

\* sendNAS: the type assertion on a nil connection panics.
SendNAS(i, from, ok, failed, err) ==
  /\ ~crashed
  /\ inst[i].pc = from
  /\ \/ inst[i].conn /\ inst[i].sock = "open" /\ Goto(i, from, ok)
     \/ /\ inst[i].conn /\ (inst[i].sock = "closed" \/ inst[i].peerGone)
        /\ inst' = [inst EXCEPT ![i].pc = failed, ![i].err = err]
        /\ UNCHANGED <<rest, crashed>>
     \/ ~inst[i].conn /\ Panic

Start(i) == SetState(i, "starting", "STARTING", "preflight")

\* The UDM knows the subscriber, or the UE has no UDM to ask.
Preflight(i) == Goto(i, "preflight", "check") \/ Return(i, "preflight", "subscriber")

\* connectToGNB: every attempt begins with a look at the context.
CheckContext(i) ==
  IF inst[i].cancelled
  THEN /\ inst[i].pc = "check" /\ ~crashed
       /\ inst' = [inst EXCEPT ![i].pc = "unreachable", ![i].err = "canceled"]
       /\ UNCHANGED <<rest, crashed>>
  ELSE Goto(i, "check", "dialing")

Dial(i) ==
  \/ /\ ~crashed
     /\ inst[i].pc = "dialing"
     /\ inst' = [inst EXCEPT ![i].pc = "connected", ![i].conn = TRUE, ![i].sock = "open",
                   ![i].lateConn = inst[i].cancelled]
     /\ UNCHANGED <<rest, crashed>>
  \/ Goto(i, "dialing", "check")   \* 5 s later
  \/ /\ ~crashed                   \* after 15 attempts
     /\ inst[i].pc = "dialing"
     /\ inst' = [inst EXCEPT ![i].pc = "unreachable", ![i].err = "connect"]
     /\ UNCHANGED <<rest, crashed>>

Unreachable(i) == SetState(i, "unreachable", "FAILED", "returned")

Connected(i) == SetState(i, "connected", "REGISTERING", "sendReg")

SendRegistration(i) == SendNAS(i, "sendReg", "receive", "returned", "send")

\* receiveLoop takes the connection once.
EnterLoop(i) ==
  \/ inst[i].conn /\ Goto(i, "receive", "loop")
  \/ ~crashed /\ inst[i].pc = "receive" /\ ~inst[i].conn /\ Panic

(* The loop leaves only when a read fails.                                 *)
LoopUnchecked(i) == Goto(i, "loop", "read")

Loop(i) == IF inst[i].cancelled THEN Return(i, "loop", "canceled") ELSE Goto(i, "loop", "read")

\* A message, a timeout after 2 s, or an error; the loop looks at the context
\* again before it takes an error for one of the connection.
Read(i) ==
  \/ Goto(i, "read", "loop")
  \/ /\ ~crashed
     /\ inst[i].pc = "read" /\ inst[i].sock = "open" /\ ~inst[i].peerGone
     /\ inst[i].answered < MaxAccepts
     /\ \E handler \in {"regAccept", "pduAccept"} :
          inst' = [inst EXCEPT ![i].answered = @ + 1, ![i].pc = handler]
     /\ UNCHANGED <<rest, crashed>>
  \/ /\ inst[i].sock = "closed" \/ inst[i].peerGone
     /\ Return(i, "read", IF inst[i].cancelled THEN "canceled" ELSE "closed")

(* The error ends the loop, and is lost.                                   *)
RegistrationAcceptReturns(i) == SendNAS(i, "regAccept", "registered", "returned", "none")

\* handleRegistrationAccept; that a message cannot be sent is logged only.
RegistrationAccept(i) == SendNAS(i, "regAccept", "registered", "loop", "none")

Registered(i) == SetState(i, "registered", "REGISTERED", "loop")

\* startGTPUserPlane: a new socket, which takes the place of an earlier one in
\* u.tunnel; nobody closes the earlier one.
UserPlaneUp(i, virtual) ==
  LET new == inst[i].opened + 1 IN
  inst' = [inst EXCEPT ![i].pc = "active", ![i].opened = new, ![i].tunnel = new,
             ![i].ports = @ \cup {new}, ![i].virtual = virtual,
             ![i].kernel = @ \/ ~virtual,
             ![i].latePorts = IF inst[i].cancelled THEN @ \cup {new} ELSE @]

(* The connectivity test follows a failed set-up too.                      *)
PduAcceptUnchecked(i) ==
  /\ ~crashed
  /\ inst[i].pc = "pduAccept"
  /\ \/ \E virtual \in BOOLEAN : UserPlaneUp(i, virtual)
     \/ inst' = [inst EXCEPT ![i].pc = "active", ![i].virtual = TRUE]
  /\ UNCHANGED <<rest, crashed>>

\* handlePDUSessionAccept: setupDataPlane, which starts packetUplinkLoop too.
PduAccept(i) ==
  \/ /\ ~crashed
     /\ inst[i].pc = "pduAccept"
     /\ \E virtual \in BOOLEAN : UserPlaneUp(i, virtual)
     /\ UNCHANGED <<rest, crashed>>
  \/ Goto(i, "pduAccept", "loop")   \* no address, or the set-up failed

\* setState and onPDUActive
Active(i) == SetState(i, "active", "PDU_ACTIVE", "test")

\* runConnectivityTest: the synthetic ping uses the tunnel.
Test(i) ==
  \/ (inst[i].virtual => inst[i].tunnel # 0) /\ Goto(i, "test", "loop")
  \/ /\ ~crashed /\ inst[i].pc = "test"
     /\ inst[i].virtual /\ inst[i].tunnel = 0
     /\ Panic

(* A cancelled UE's state is left to Stop.                                 *)
EndedCanceledByStop(i) == inst[i].state

EndedCanceled(i) == IF inst[i].state = "PDU_ACTIVE" THEN "PDU_ACTIVE" ELSE "STOPPED"

\* What the goroutine does with Run's error.
End(i) ==
  SetState(i, "returned", IF inst[i].err = "canceled" THEN EndedCanceled(i) ELSE "FAILED", "done")

\* packetUplinkLoop reads a packet of its own address from the TUN device, which
\* nobody closes.
UplinkWithoutTunnel(i) ==
  /\ ~crashed
  /\ inst[i].kernel /\ inst[i].tunnel = 0
  /\ Panic

----------------------------------------------------------------------------
(* DELETE /v1/instances/{id} and the network.                              *)

(* The UE is closed first and cancelled when that is done.                 *)
StopWithoutCancel(i) ==
  /\ ~crashed
  /\ i \in Instances
  /\ inst[i].stop \in {"no", "done"}
  /\ inst' = [inst EXCEPT ![i].stop = "conn"]
  /\ UNCHANGED <<rest, crashed>>

StopCancel(i) ==
  /\ ~crashed
  /\ i \in Instances
  /\ inst[i].stop \in {"no", "done"}
  /\ inst' = [inst EXCEPT ![i].stop = "conn", ![i].cancelled = TRUE]
  /\ UNCHANGED <<rest, crashed>>

NextToClose(i) == IF inst[i].conn THEN "connNil" ELSE "tunnel"

CloseConn(i) ==
  /\ ~crashed
  /\ inst[i].stop = "conn"
  /\ inst' = [inst EXCEPT ![i].stop = NextToClose(i),
                ![i].sock = IF inst[i].conn THEN "closed" ELSE @]
  /\ UNCHANGED <<rest, crashed>>

(* Close returns when the connection is closed.                            *)
ClearConnOnly(i) ==
  /\ ~crashed
  /\ inst[i].stop = "connNil"
  /\ inst' = [inst EXCEPT ![i].stop = "mark", ![i].conn = FALSE]
  /\ UNCHANGED <<rest, crashed>>

ClearConn(i) ==
  /\ ~crashed
  /\ inst[i].stop = "connNil"
  /\ inst' = [inst EXCEPT ![i].stop = "tunnel", ![i].conn = FALSE]
  /\ UNCHANGED <<rest, crashed>>

NextToClear(i) == IF inst[i].tunnel # 0 THEN "tunnelNil" ELSE "mark"

CloseTunnel(i) ==
  /\ ~crashed
  /\ inst[i].stop = "tunnel"
  /\ inst' = [inst EXCEPT ![i].stop = NextToClear(i), ![i].ports = @ \ {inst[i].tunnel}]
  /\ UNCHANGED <<rest, crashed>>

ClearTunnel(i) ==
  /\ ~crashed
  /\ inst[i].stop = "tunnelNil"
  /\ inst' = [inst EXCEPT ![i].stop = "mark", ![i].tunnel = 0]
  /\ UNCHANGED <<rest, crashed>>

MarkStopped(i) ==
  /\ ~crashed
  /\ inst[i].stop = "mark"
  /\ inst' = [inst EXCEPT ![i].stop = "done", ![i].state = "STOPPED"]
  /\ UNCHANGED <<rest, crashed>>

PeerCloses(i) ==
  /\ ~crashed
  /\ inst[i].sock = "open" /\ ~inst[i].peerGone
  /\ inst' = [inst EXCEPT ![i].peerGone = TRUE]
  /\ UNCHANGED <<rest, crashed>>

----------------------------------------------------------------------------

Run(i) ==
  \/ Start(i) \/ Preflight(i) \/ CheckContext(i) \/ Dial(i) \/ Unreachable(i)
  \/ Connected(i) \/ SendRegistration(i) \/ EnterLoop(i) \/ Loop(i) \/ Read(i)
  \/ RegistrationAccept(i) \/ Registered(i) \/ PduAccept(i) \/ Active(i) \/ Test(i)
  \/ End(i)

Stop(i) ==
  \/ StopCancel(i) \/ CloseConn(i) \/ ClearConn(i)
  \/ CloseTunnel(i) \/ ClearTunnel(i) \/ MarkStopped(i)

Next ==
  \/ SpawnDefault \/ EnsureLists \/ EnsureSpawns
  \/ \E s \in Spawners : Store(s)
  \/ \E s \in Users : UserSpawns(s)
  \/ \E i \in Running : Run(i) \/ Stop(i) \/ UplinkWithoutTunnel(i) \/ PeerCloses(i)

Spec == Init /\ [][Next]_vars

\* A goroutine runs, reads have a deadline and the connectivity test an end.
FairSpec == Spec /\ \A i \in Running : WF_vars(Run(i))

----------------------------------------------------------------------------
(* Properties.                                                             *)

\* A serial is drawn once, whoever spawns at the same time; and if the supervisor
\* starts the default UE itself, neither the observatory nor a user adds another
\* one of its SUPI, even after it was stopped or has failed.
IdentitiesApart ==
  /\ \A s, t \in Spawners : spawning[s] # 0 /\ spawning[s] = spawning[t] => s = t
  /\ \A s \in Spawners : spawning[s] \notin Instances
  /\ ~noDefault => \A i, j \in Instances : inst[i].supi = inst[j].supi => i = j

Settled(i) == inst[i].pc = "done" /\ inst[i].stop \in {"no", "done"}

\* When goroutine and Stop have ended, the list does not show a UE on its way up,
\* whichever of them wrote last.  PDU_ACTIVE it may show: the code keeps that.
SettledIsNotComing ==
  \A i \in Serials : Settled(i) => inst[i].state \in {"STOPPED", "FAILED", "PDU_ACTIVE"}

\* A receiveLoop whose read fails because Stop has closed the association does not
\* report a failure: Stop cancels before it closes.  (A Registration Request that
\* cannot be sent for the same reason is one: the UE ends as FAILED.)
StopIsNoFailure ==
  \A i \in Serials : inst[i].err = "closed" => inst[i].peerGone

\* The process dies of a nil connection or tunnel only if some UE was stopped: no
\* order of answers and failures of the network brings it down.
CrashOnlyByStop ==
  crashed => \E i \in Instances : inst[i].stop # "no"

\* What a stopped UE has left open was opened after Stop had begun, or it is the
\* socket of a session accept that a later one has put another in the place of.
LeftOpenIsLate ==
  \A i \in Serials : inst[i].stop = "done" =>
    /\ inst[i].sock = "open" => inst[i].lateConn
    /\ \A p \in inst[i].ports : p \in inst[i].latePorts \/ p < inst[i].opened

\* The goroutine of a UE that was stopped ends.
StopEnds ==
  \A i \in Running : (inst[i].stop # "no") ~> (inst[i].pc = "done" \/ crashed)
============================================================================
