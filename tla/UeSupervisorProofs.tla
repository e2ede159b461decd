------------------------- MODULE UeSupervisorProofs -------------------------
(***************************************************************************)
(* Proofs about UeSupervisor, for every number of users and instances, any *)
(* number of which run.                                                    *)
(*                                                                         *)
(* A goroutine and the stop of its UE meet in one record, so the invariant *)
(* is one about each record, OwnOK, and one about who spawns, SpawnOK.     *)
(* OwnOK follows an association and the sockets through Close: until it is *)
(* closed, the newest socket is that of u.tunnel unless it was opened      *)
(* late, and until a UE is stopped nothing that its goroutine uses is nil. *)
(***************************************************************************)
EXTENDS UeSupervisor, TLAPS

\* Where the goroutine uses u.conn.
Attached == {"connected", "sendReg", "receive", "loop", "read", "regAccept", "registered",
             "pduAccept", "active", "test"}

\* Where Close has dealt with the association, and with the tunnel.
AfterConn   == {"connNil", "tunnel", "tunnelNil", "mark", "done"}
AfterTunnel == {"tunnelNil", "mark", "done"}

OwnOK(r) ==
  /\ r.pc = "none" => r = NoInstance
  /\ r.err # "none" <=> r.pc \in Ended
  /\ r.cancelled <=> r.stop # "no"
  /\ r.sock = "closed" => r.cancelled
  /\ r.sock = "open" /\ (~r.conn \/ r.stop \in AfterConn) => r.lateConn
  /\ r.opened <= r.answered
  /\ r.pc = "pduAccept" => r.opened < r.answered
  /\ \A p \in r.ports : p <= r.opened
  /\ r.opened \in r.ports /\ r.opened \notin r.latePorts =>
       r.tunnel = r.opened /\ r.stop \notin AfterTunnel
  /\ r.stop = "no" /\ r.pc \in Attached => r.conn
  /\ r.stop = "no" /\ r.opened # 0 => r.tunnel # 0
  /\ r.pc \in {"active", "test"} \/ r.kernel => r.opened # 0
  /\ r.pc = "done" => r.state \in {"STOPPED", "FAILED", "PDU_ACTIVE"}
  /\ r.err = "closed" => r.peerGone

\* Serials are drawn once and used once; while the supervisor starts nobody else
\* spawns, and the default UE is there before the API is.
SpawnOK ==
  /\ \A s, t \in Spawners : spawning[s] # 0 /\ spawning[s] = spawning[t] => s = t
  /\ \A s \in Spawners : spawning[s] \notin Instances /\ spawning[s] <= nextSerial
  /\ \A i \in Instances : i <= nextSerial
  /\ boot = "start" =>
       /\ Instances = {} /\ ensure = "idle"
       /\ nextSerial = spawning["boot"]
       /\ \A s \in Spawners : s # "boot" => spawning[s] = 0
       /\ nextSerial \in {0, DefaultSupi}
       /\ noDefault => nextSerial = 0
  /\ ~noDefault =>
       /\ boot = "up" => Instances # {} /\ spawning["boot"] = 0
       /\ ensure # "spawn" /\ spawning["observatory"] = 0
       /\ \A i \in Instances : inst[i].supi = i

IInv ==
  /\ TypeOK
  /\ \A i \in Serials : OwnOK(inst[i])
  /\ SpawnOK
  /\ CrashOnlyByStop

----------------------------------------------------------------------------
(* Steps of one instance.                                                  *)

\* A step that gives i the record r: who spawns is not concerned.
Becomes(i, r) ==
  /\ inst' = [inst EXCEPT ![i] = r]
  /\ r \in Instance
  /\ OwnOK(r)
  /\ r.supi = inst[i].supi
  /\ r.pc = "none" <=> inst[i].pc = "none"
  /\ inst[i].stop # "no" => r.stop # "no"
  /\ UNCHANGED <<rest, crashed>>

\* A panic after Stop had begun.
PanicsStopped(i) == Panic /\ i \in Instances /\ inst[i].stop # "no"

OwnStep(i) == (\E r : Becomes(i, r)) \/ PanicsStopped(i)

LEMMA OwnStepKeeps ==
  ASSUME IInv, NEW i \in Serials, OwnStep(i)
  PROVE  IInv'
<1>1. ASSUME NEW r, Becomes(i, r) PROVE IInv'
  <2>1. inst \in [Serials -> Instance]
    BY DEF IInv, TypeOK
  <2>2. /\ inst' \in [Serials -> Instance]
        /\ \A j \in Serials : j # i => inst'[j] = inst[j]
        /\ inst'[i] = r
    BY <1>1, <2>1 DEF Becomes
  <2>3. UNCHANGED <<nextSerial, spawning, noDefault, boot, ensure, crashed>>
    BY <1>1 DEF Becomes, rest
  <2>4. \A j \in Serials : OwnOK(inst'[j])
    BY <1>1, <2>2 DEF Becomes, IInv
  <2>5. Instances' = Instances
    BY <1>1, <2>2 DEF Becomes, Instances
  <2>6. TypeOK'
    BY <2>2, <2>3, <2>4 DEF IInv, TypeOK, OwnOK
  <2>7. SpawnOK'
    BY <1>1, <2>2, <2>3, <2>5 DEF Becomes, IInv, SpawnOK, Instances
  <2>8. CrashOnlyByStop'
    BY <1>1, <2>2, <2>3, <2>5 DEF Becomes, IInv, CrashOnlyByStop, Instances
  <2> QED BY <2>4, <2>6, <2>7, <2>8 DEF IInv
<1>2. ASSUME PanicsStopped(i) PROVE IInv'
  <2>1. UNCHANGED <<inst, nextSerial, spawning, noDefault, boot, ensure>> /\ crashed' = TRUE
    BY <1>2 DEF PanicsStopped, Panic, rest
  <2>2. TypeOK' /\ SpawnOK'
    BY <2>1 DEF IInv, TypeOK, SpawnOK, Instances
  <2>3. CrashOnlyByStop'
    BY <1>2, <2>1 DEF PanicsStopped, CrashOnlyByStop, Instances
  <2> QED BY <2>1, <2>2, <2>3 DEF IInv
<1> QED BY <1>1, <1>2 DEF OwnStep

LEMMA OwnFacts ==
  ASSUME IInv, NEW i \in Serials
  PROVE  inst[i] \in Instance /\ OwnOK(inst[i])
BY DEF IInv, TypeOK

Errors == {"none", "canceled", "subscriber", "connect", "send", "closed"}

LEMMA EndedTyped ==
  ASSUME NEW o \in Instance, NEW to \in Pcs, NEW err \in Errors
  PROVE  [o EXCEPT !.pc = to, !.err = err] \in Instance
BY DEF Instance, Errors

LEMMA ActiveTyped ==
  ASSUME NEW o \in Instance, NEW new \in 1..MaxAccepts, NEW virtual \in BOOLEAN,
         NEW kernel \in BOOLEAN, NEW ports \in SUBSET Sockets, NEW late \in SUBSET Sockets
  PROVE  [o EXCEPT !.pc = "active", !.opened = new, !.tunnel = new, !.ports = ports,
                   !.virtual = virtual, !.kernel = kernel, !.latePorts = late] \in Instance
<1>1. "active" \in Pcs /\ new \in 0..MaxAccepts
  BY SupervisorAssumption DEF Pcs
<1> QED BY <1>1 DEF Instance

\* Moving on without touching anything else.
LEMMA GotoOwn ==
  ASSUME IInv, NEW i \in Serials, NEW from \in Pcs, NEW to \in Pcs, Goto(i, from, to),
         from \notin Ended \cup {"none"}, to \notin Ended \cup {"none"},
         to \in Attached => (inst[i].stop = "no" => inst[i].conn),
         to \in {"active", "test"} => inst[i].opened # 0, to # "pduAccept"
  PROVE  OwnStep(i)
<1> DEFINE r == [inst[i] EXCEPT !.pc = to]
<1>1. r \in Instance /\ r.supi = inst[i].supi /\ r.stop = inst[i].stop /\ r.pc = to
  BY OwnFacts DEF Instance
<1>2. inst[i].pc = from /\ inst' = [inst EXCEPT ![i] = r] /\ UNCHANGED <<rest, crashed>>
  BY DEF Goto
<1>3. OwnOK(r)
  BY OwnFacts, <1>2 DEF OwnOK, Instance, Ended
<1> QED BY <1>1, <1>2, <1>3 DEF OwnStep, Becomes

LEMMA SetStateOwn ==
  ASSUME IInv, NEW i \in Serials, NEW from \in Pcs, NEW to \in Pcs, NEW state \in States,
         SetState(i, from, state, to),
         from # "none", to # "none", from \in Ended <=> to \in Ended,
         to \in Attached => from \in Attached,
         to \in {"active", "test"} => from \in {"active", "test"}, to # "pduAccept",
         to = "done" => state \in {"STOPPED", "FAILED", "PDU_ACTIVE"}
  PROVE  OwnStep(i)
<1> DEFINE r == [inst[i] EXCEPT !.state = state, !.pc = to]
<1>1. r \in Instance /\ r.supi = inst[i].supi /\ r.stop = inst[i].stop /\ r.pc = to
  BY ZenonT(60), OwnFacts DEF Instance
<1>2. inst[i].pc = from /\ inst' = [inst EXCEPT ![i] = r] /\ UNCHANGED <<rest, crashed>>
  BY DEF SetState
<1>3. OwnOK(r)
  BY OwnFacts, <1>2 DEF OwnOK, Instance, Ended
<1> QED BY <1>1, <1>2, <1>3 DEF OwnStep, Becomes

\* Run ends with an error: only a stopped UE's is that of its context, and only
\* one whose gNB has closed the association takes that for a failure.
LEMMA EndsOwn ==
  ASSUME IInv, NEW i \in Serials, NEW to \in {"unreachable", "returned"},
         NEW err \in {"canceled", "subscriber", "connect", "send", "closed"},
         inst[i].pc \notin Ended \cup {"none"},
         err = "closed" => inst[i].peerGone,
         inst' = [inst EXCEPT ![i].pc = to, ![i].err = err],
         UNCHANGED <<rest, crashed>>
  PROVE  OwnStep(i)
<1> DEFINE r == [inst[i] EXCEPT !.pc = to, !.err = err]
<1>0. to \in Pcs /\ err \in Errors
  BY DEF Pcs, Errors
<1>t. r \in Instance
  BY <1>0, OwnFacts, EndedTyped
<1>1. r \in Instance /\ r.supi = inst[i].supi /\ r.stop = inst[i].stop /\ r.pc = to
  BY <1>t, OwnFacts DEF Instance
<1>2. inst' = [inst EXCEPT ![i] = r]
  OBVIOUS
<1>3. OwnOK(r)
  BY OwnFacts DEF OwnOK, Instance, Ended, Attached
<1> QED BY <1>1, <1>2, <1>3 DEF OwnStep, Becomes

LEMMA SendNASOwn ==
  ASSUME IInv, NEW i \in Serials, NEW from \in Attached, NEW ok \in Attached,
         NEW failed \in {"returned", "loop"}, NEW err \in {"send", "none"},
         SendNAS(i, from, ok, failed, err),
         failed = "returned" <=> err # "none", ok \notin {"active", "test", "pduAccept"}
  PROVE  OwnStep(i)
<1>1. /\ ~crashed /\ inst[i].pc = from
      /\ \/ inst[i].conn /\ Goto(i, from, ok)
         \/ /\ inst[i].conn
            /\ inst' = [inst EXCEPT ![i].pc = failed, ![i].err = err]
            /\ UNCHANGED <<rest, crashed>>
         \/ ~inst[i].conn /\ Panic
  BY DEF SendNAS
<1>2. CASE inst[i].conn /\ Goto(i, from, ok)
  BY <1>2, GotoOwn DEF Attached, Pcs, Ended
<1>3. CASE ~inst[i].conn /\ Panic
  BY <1>1, <1>3, OwnFacts DEF OwnStep, PanicsStopped, OwnOK, Instances, Attached
<1>4. CASE /\ inst[i].conn
           /\ inst' = [inst EXCEPT ![i].pc = failed, ![i].err = err]
           /\ UNCHANGED <<rest, crashed>>
  <2>1. CASE failed = "returned"
    BY <1>1, <1>4, <2>1, EndsOwn DEF Attached, Ended
  <2>2. CASE failed = "loop" /\ err = "none"
    <3>1. inst[i].err = "none"
      BY <1>1, OwnFacts DEF OwnOK, Attached, Ended
    <3> DEFINE r == [inst[i] EXCEPT !.pc = "loop", !.err = "none"]
    <3>p. "loop" \in Pcs
      BY DEF Pcs
    <3>t. r \in Instance
      BY <3>p, OwnFacts, EndedTyped DEF Errors
    <3>2. r \in Instance /\ r.supi = inst[i].supi /\ r.stop = inst[i].stop /\ r.pc = "loop"
      BY <3>t, OwnFacts DEF Instance
    <3>3. OwnOK(r)
      BY <1>1, <1>4, <3>1, OwnFacts DEF OwnOK, Instance, Ended, Attached
    <3> QED BY <1>1, <1>4, <2>2, <3>2, <3>3 DEF OwnStep, Becomes, Attached
  <2> QED BY <2>1, <2>2
<1> QED BY <1>1, <1>2, <1>3, <1>4

LEMMA RunOwn ==
  ASSUME IInv, NEW i \in Serials, Run(i)
  PROVE  OwnStep(i)
<1> USE OwnFacts
<1>1. CASE Start(i)
  BY <1>1, SetStateOwn DEF Start, Pcs, States, Ended, Attached
<1>2. CASE Preflight(i)
  <2>1. CASE Goto(i, "preflight", "check")
    BY <2>1, GotoOwn DEF Pcs, Ended, Attached
  <2>2. CASE Return(i, "preflight", "subscriber")
    BY <2>2, EndsOwn DEF Return, Ended
  <2> QED BY <1>2, <2>1, <2>2 DEF Preflight
<1>3. CASE CheckContext(i)
  <2>1. CASE Goto(i, "check", "dialing")
    BY <2>1, GotoOwn DEF Pcs, Ended, Attached
  <2>2. CASE /\ inst[i].pc = "check"
             /\ inst' = [inst EXCEPT ![i].pc = "unreachable", ![i].err = "canceled"]
             /\ UNCHANGED <<rest, crashed>>
    BY <2>2, EndsOwn DEF Ended
  <2> QED BY <1>3, <2>1, <2>2 DEF CheckContext
<1>4. CASE Dial(i)
  <2>1. CASE /\ inst[i].pc = "dialing"
             /\ inst' = [inst EXCEPT ![i].pc = "connected", ![i].conn = TRUE, ![i].sock = "open",
                           ![i].lateConn = inst[i].cancelled]
             /\ UNCHANGED <<rest, crashed>>
    <3>1. PICK late : late = inst[i].cancelled
      OBVIOUS
    <3>2. late \in BOOLEAN /\ "connected" \in Pcs
      BY <3>1 DEF Instance, Pcs
    <3> DEFINE r == [inst[i] EXCEPT !.pc = "connected", !.conn = TRUE, !.sock = "open",
                                    !.lateConn = late]
    <3>3. r \in Instance /\ r.supi = inst[i].supi /\ r.stop = inst[i].stop /\ r.pc = "connected"
      BY ZenonT(60), <3>2 DEF Instance
    <3>4. OwnOK(r)
      BY <2>1, <3>1 DEF OwnOK, Instance, Ended, Attached, AfterConn
    <3>5. inst' = [inst EXCEPT ![i] = r]
      BY <2>1, <3>1
    <3> HIDE DEF r
    <3> QED BY <2>1, <3>3, <3>4, <3>5 DEF OwnStep, Becomes
  <2>2. CASE Goto(i, "dialing", "check")
    BY <2>2, GotoOwn DEF Pcs, Ended, Attached
  <2>3. CASE /\ inst[i].pc = "dialing"
             /\ inst' = [inst EXCEPT ![i].pc = "unreachable", ![i].err = "connect"]
             /\ UNCHANGED <<rest, crashed>>
    BY <2>3, EndsOwn DEF Ended
  <2> QED BY <1>4, <2>1, <2>2, <2>3 DEF Dial
<1>5. CASE Unreachable(i)
  BY <1>5, SetStateOwn DEF Unreachable, Pcs, States, Ended, Attached
<1>6. CASE Connected(i)
  BY <1>6, SetStateOwn DEF Connected, Pcs, States, Ended, Attached
<1>7. CASE SendRegistration(i)
  BY <1>7, SendNASOwn DEF SendRegistration, Attached
<1>8. CASE EnterLoop(i)
  <2>1. CASE inst[i].conn /\ Goto(i, "receive", "loop")
    BY <2>1, GotoOwn DEF Pcs, Ended, Attached
  <2>2. CASE inst[i].pc = "receive" /\ ~inst[i].conn /\ Panic
    BY <2>2 DEF OwnStep, PanicsStopped, OwnOK, Instances, Attached
  <2> QED BY <1>8, <2>1, <2>2 DEF EnterLoop
<1>9. CASE Loop(i)
  <2>1. CASE Return(i, "loop", "canceled")
    BY <2>1, EndsOwn DEF Return, Ended
  <2>2. CASE Goto(i, "loop", "read")
    BY <2>2, GotoOwn DEF Goto, OwnOK, Pcs, Ended, Attached
  <2> QED BY <1>9, <2>1, <2>2 DEF Loop
<1>10. CASE Read(i)
  <2>1. CASE Goto(i, "read", "loop")
    BY <2>1, GotoOwn DEF Goto, OwnOK, Pcs, Ended, Attached
  <2>2. ASSUME NEW handler \in {"regAccept", "pduAccept"},
               inst[i].pc = "read", inst[i].answered < MaxAccepts,
               inst' = [inst EXCEPT ![i].answered = @ + 1, ![i].pc = handler],
               UNCHANGED <<rest, crashed>>
        PROVE  OwnStep(i)
    <3>1. PICK n : n = inst[i].answered + 1
      OBVIOUS
    <3>2. n \in 0..MaxAccepts /\ handler \in Pcs
      BY <2>2, <3>1, SupervisorAssumption DEF Instance, Pcs
    <3> DEFINE r == [inst[i] EXCEPT !.answered = n, !.pc = handler]
    <3>3. r \in Instance /\ r.supi = inst[i].supi /\ r.stop = inst[i].stop /\ r.pc = handler
      BY ZenonT(60), <3>2 DEF Instance
    <3>4. OwnOK(r)
      BY <2>2, <3>1, <3>3, SupervisorAssumption DEF OwnOK, Instance, Ended, Attached
    <3>5. inst' = [inst EXCEPT ![i] = r]
      BY <2>2, <3>1
    <3> HIDE DEF r
    <3> QED BY <2>2, <3>3, <3>4, <3>5 DEF OwnStep, Becomes
  <2>3. CASE /\ inst[i].sock = "closed" \/ inst[i].peerGone
             /\ Return(i, "read", IF inst[i].cancelled THEN "canceled" ELSE "closed")
    BY <2>3, EndsOwn DEF Return, Ended, OwnOK
  <2> QED BY <1>10, <2>1, <2>2, <2>3 DEF Read
<1>11. CASE RegistrationAccept(i)
  BY <1>11, SendNASOwn DEF RegistrationAccept, Attached
<1>12. CASE Registered(i)
  BY <1>12, SetStateOwn DEF Registered, Pcs, States, Ended, Attached
<1>13. CASE PduAccept(i)
  <2>1. ASSUME NEW virtual \in BOOLEAN, inst[i].pc = "pduAccept", UserPlaneUp(i, virtual),
               UNCHANGED <<rest, crashed>>
        PROVE  OwnStep(i)
    <3>1. PICK new, kernel, ports, late :
            /\ new = inst[i].opened + 1 /\ kernel = (inst[i].kernel \/ ~virtual)
            /\ ports = inst[i].ports \cup {new}
            /\ late = IF inst[i].cancelled THEN inst[i].latePorts \cup {new} ELSE inst[i].latePorts
      OBVIOUS
    <3>2. /\ inst[i].opened \in 0..MaxAccepts /\ inst[i].answered \in 0..MaxAccepts
          /\ inst[i].kernel \in BOOLEAN /\ inst[i].supi \in 0..MaxInstances
          /\ inst[i].ports \in SUBSET Sockets /\ inst[i].latePorts \in SUBSET Sockets
      BY DEF Instance
    <3>3. new \in 1..MaxAccepts /\ new <= inst[i].answered
      BY <2>1, <3>1, <3>2, SupervisorAssumption DEF OwnOK
    <3>4. kernel \in BOOLEAN /\ ports \in SUBSET Sockets /\ late \in SUBSET Sockets
      BY <3>1, <3>2, <3>3 DEF Sockets
    <3> DEFINE r == [inst[i] EXCEPT !.pc = "active", !.opened = new, !.tunnel = new,
                                    !.ports = ports, !.virtual = virtual, !.kernel = kernel,
                                    !.latePorts = late]
    <3>t. r \in Instance
      BY <3>3, <3>4, ActiveTyped
    <3>5. r \in Instance /\ r.supi = inst[i].supi /\ r.stop = inst[i].stop /\ r.pc = "active"
      BY <3>t DEF Instance
    <3>6. OwnOK(r)
      <4>1. inst[i].stop # "no" => new \in late
        BY <3>1 DEF OwnOK
      <4>2. \A p \in ports : p <= new
        BY <3>1, <3>2, <3>3 DEF OwnOK, Sockets
      <4>3. /\ r.opened = new /\ r.tunnel = new /\ r.ports = ports /\ r.latePorts = late
            /\ r.kernel = kernel /\ r.answered = inst[i].answered /\ r.conn = inst[i].conn
            /\ r.sock = inst[i].sock /\ r.lateConn = inst[i].lateConn /\ r.state = inst[i].state
            /\ r.cancelled = inst[i].cancelled /\ r.err = inst[i].err
            /\ r.peerGone = inst[i].peerGone
        BY <3>t DEF Instance
      <4> HIDE DEF r
      <4> QED BY <2>1, <3>3, <3>5, <4>1, <4>2, <4>3 DEF OwnOK, Ended, Attached, AfterConn, AfterTunnel
    <3>7. inst' = [inst EXCEPT ![i] = r]
      BY <2>1, <3>1 DEF UserPlaneUp
    <3> HIDE DEF r
    <3> QED BY <2>1, <3>5, <3>6, <3>7 DEF OwnStep, Becomes
  <2>2. CASE Goto(i, "pduAccept", "loop")
    BY <2>2, GotoOwn DEF Goto, OwnOK, Pcs, Ended, Attached
  <2> QED BY <1>13, <2>1, <2>2 DEF PduAccept
<1>14. CASE Active(i)
  BY <1>14, SetStateOwn DEF Active, Pcs, States, Ended, Attached
<1>15. CASE Test(i)
  <2>1. CASE Goto(i, "test", "loop")
    BY <2>1, GotoOwn DEF Goto, OwnOK, Pcs, Ended, Attached
  <2>2. CASE inst[i].pc = "test" /\ inst[i].tunnel = 0 /\ Panic
    BY <2>2 DEF OwnStep, PanicsStopped, OwnOK, Instances
  <2> QED BY <1>15, <2>1, <2>2 DEF Test
<1>16. CASE End(i)
  BY <1>16, SetStateOwn DEF End, EndedCanceled, Pcs, States, Ended, Attached
<1> QED BY <1>1, <1>2, <1>3, <1>4, <1>5, <1>6, <1>7, <1>8, <1>9, <1>10, <1>11, <1>12, <1>13,
           <1>14, <1>15, <1>16 DEF Run

LEMMA StopOwn ==
  ASSUME IInv, NEW i \in Serials, Stop(i) \/ UplinkWithoutTunnel(i) \/ PeerCloses(i)
  PROVE  OwnStep(i)
<1> USE OwnFacts
<1> DEFINE o == inst[i]
<1>1. CASE StopCancel(i)
  <2> DEFINE r == [o EXCEPT !.stop = "conn", !.cancelled = TRUE]
  <2>1. o.pc # "none" /\ inst' = [inst EXCEPT ![i] = r] /\ UNCHANGED <<rest, crashed>>
    BY <1>1 DEF StopCancel, Instances
  <2>2. r \in Instance /\ r.supi = o.supi /\ r.pc = o.pc /\ r.stop = "conn"
    BY ZenonT(60) DEF Instance
  <2>3. OwnOK(r)
    BY <2>1 DEF OwnOK, Instance, AfterConn, AfterTunnel
  <2> QED BY <2>1, <2>2, <2>3 DEF OwnStep, Becomes
<1>2. CASE CloseConn(i)
  <2>1. PICK stop, sock : /\ stop = IF o.conn THEN "connNil" ELSE "tunnel"
                          /\ sock = IF o.conn THEN "closed" ELSE o.sock
    OBVIOUS
  <2>2. /\ stop \in {"no", "conn", "connNil", "tunnel", "tunnelNil", "mark", "done"}
        /\ sock \in {"none", "open", "closed"}
    BY <2>1 DEF Instance
  <2> DEFINE r == [o EXCEPT !.stop = stop, !.sock = sock]
  <2>3. o.stop = "conn" /\ inst' = [inst EXCEPT ![i] = r] /\ UNCHANGED <<rest, crashed>>
    BY <1>2, <2>1 DEF CloseConn, NextToClose
  <2>4. r \in Instance /\ r.supi = o.supi /\ r.pc = o.pc /\ r.stop = stop
    BY ZenonT(60), <2>2 DEF Instance
  <2>5. OwnOK(r)
    BY <2>1, <2>3 DEF OwnOK, Instance, NoInstance, AfterConn, AfterTunnel
  <2> HIDE DEF r
  <2> QED BY <2>1, <2>3, <2>4, <2>5 DEF OwnStep, Becomes
<1>3. CASE ClearConn(i)
  <2> DEFINE r == [o EXCEPT !.stop = "tunnel", !.conn = FALSE]
  <2>1. o.stop = "connNil" /\ inst' = [inst EXCEPT ![i] = r] /\ UNCHANGED <<rest, crashed>>
    BY <1>3 DEF ClearConn
  <2>2. r \in Instance /\ r.supi = o.supi /\ r.pc = o.pc /\ r.stop = "tunnel"
    BY ZenonT(60) DEF Instance
  <2>3. OwnOK(r)
    BY <2>1 DEF OwnOK, Instance, NoInstance, AfterConn, AfterTunnel
  <2> QED BY <2>1, <2>2, <2>3 DEF OwnStep, Becomes
<1>4. CASE CloseTunnel(i)
  <2>1. PICK stop, ports : /\ stop = IF o.tunnel # 0 THEN "tunnelNil" ELSE "mark"
                           /\ ports = o.ports \ {o.tunnel}
    OBVIOUS
  <2>2. /\ stop \in {"no", "conn", "connNil", "tunnel", "tunnelNil", "mark", "done"}
        /\ ports \in SUBSET Sockets
    BY <2>1 DEF Instance
  <2> DEFINE r == [o EXCEPT !.stop = stop, !.ports = ports]
  <2>3. o.stop = "tunnel" /\ inst' = [inst EXCEPT ![i] = r] /\ UNCHANGED <<rest, crashed>>
    BY <1>4, <2>1 DEF CloseTunnel, NextToClear
  <2>4. r \in Instance /\ r.supi = o.supi /\ r.pc = o.pc /\ r.stop = stop
    BY ZenonT(60), <2>2 DEF Instance
  <2>5. OwnOK(r)
    BY <2>1, <2>3 DEF OwnOK, Instance, NoInstance, AfterConn, AfterTunnel
  <2> HIDE DEF r
  <2> QED BY <2>1, <2>3, <2>4, <2>5 DEF OwnStep, Becomes
<1>5. CASE ClearTunnel(i)
  <2> DEFINE r == [o EXCEPT !.stop = "mark", !.tunnel = 0]
  <2>1. o.stop = "tunnelNil" /\ inst' = [inst EXCEPT ![i] = r] /\ UNCHANGED <<rest, crashed>>
    BY <1>5 DEF ClearTunnel
  <2>z. 0 \in 0..MaxAccepts
    BY SupervisorAssumption
  <2>2. r \in Instance /\ r.supi = o.supi /\ r.pc = o.pc /\ r.stop = "mark"
    BY ZenonT(60), <2>z DEF Instance
  <2>3. OwnOK(r)
    BY <2>1 DEF OwnOK, Instance, NoInstance, AfterConn, AfterTunnel
  <2> QED BY <2>1, <2>2, <2>3 DEF OwnStep, Becomes
<1>6. CASE MarkStopped(i)
  <2> DEFINE r == [o EXCEPT !.stop = "done", !.state = "STOPPED"]
  <2>1. o.stop = "mark" /\ inst' = [inst EXCEPT ![i] = r] /\ UNCHANGED <<rest, crashed>>
    BY <1>6 DEF MarkStopped
  <2>s. "STOPPED" \in States
    BY DEF States
  <2>2. r \in Instance /\ r.supi = o.supi /\ r.pc = o.pc /\ r.stop = "done"
    BY ZenonT(60), <2>s DEF Instance
  <2>3. OwnOK(r)
    BY <2>1 DEF OwnOK, Instance, NoInstance, AfterConn, AfterTunnel
  <2> QED BY <2>1, <2>2, <2>3 DEF OwnStep, Becomes
<1>7. CASE UplinkWithoutTunnel(i)
  BY <1>7 DEF UplinkWithoutTunnel, OwnStep, PanicsStopped, OwnOK, NoInstance, Instances
<1>8. CASE PeerCloses(i)
  <2> DEFINE r == [o EXCEPT !.peerGone = TRUE]
  <2>1. o.sock = "open" /\ inst' = [inst EXCEPT ![i] = r] /\ UNCHANGED <<rest, crashed>>
    BY <1>8 DEF PeerCloses
  <2>2. r \in Instance /\ r.supi = o.supi /\ r.pc = o.pc /\ r.stop = o.stop
    BY ZenonT(60) DEF Instance
  <2>3. OwnOK(r)
    BY <2>1 DEF OwnOK, Instance, NoInstance, AfterConn, AfterTunnel
  <2> QED BY <2>1, <2>2, <2>3 DEF OwnStep, Becomes
<1> QED BY <1>1, <1>2, <1>3, <1>4, <1>5, <1>6, <1>7, <1>8 DEF Stop

----------------------------------------------------------------------------
(* Who spawns.                                                             *)

LEMMA NoInstanceTyped == NoInstance \in Instance /\ OwnOK(NoInstance) /\ NoInstance.pc = "none"
BY SupervisorAssumption
   DEF NoInstance, Instance, Pcs, States, OwnOK, Ended, Attached, AfterConn, AfterTunnel

LEMMA StoreKeeps ==
  ASSUME IInv, NEW s \in Spawners, Store(s)
  PROVE  IInv'
<1> USE SupervisorAssumption
<1>1. PICK i, supi : i = spawning[s] /\ supi = IF s \in Users THEN i ELSE DefaultSupi
  OBVIOUS
<1> DEFINE r == [NoInstance EXCEPT !.pc = "starting", !.supi = supi]
<1>2. /\ ~crashed /\ i # 0
      /\ inst' = [inst EXCEPT ![i] = r]
      /\ spawning' = [spawning EXCEPT ![s] = 0]
      /\ boot' = "up"
      /\ UNCHANGED <<nextSerial, noDefault, ensure, crashed>>
  BY <1>1 DEF Store
<1>3. i \in Serials /\ i \notin Instances /\ supi \in 0..MaxInstances
  BY <1>1, <1>2 DEF IInv, TypeOK, SpawnOK, Serials, DefaultSupi
<1>4. r \in Instance /\ r.pc = "starting" /\ r.supi = supi
  <2>1. "starting" \in Pcs
    BY DEF Pcs
  <2>2. [NoInstance EXCEPT !.pc = "starting", !.supi = supi] \in Instance
    BY <1>3, <2>1, NoInstanceTyped DEF Instance
  <2> QED BY <2>2 DEF NoInstance
<1>5. OwnOK(r)
  BY DEF OwnOK, NoInstance, Ended, Attached
<1> HIDE DEF r
<1>6. /\ inst'[i] = r
      /\ \A j \in Serials : j # i => inst'[j] = inst[j]
      /\ inst' \in [Serials -> Instance]
  BY <1>2, <1>3, <1>4 DEF IInv, TypeOK
<1>7. Instances' = Instances \cup {i}
  BY <1>3, <1>4, <1>6 DEF Instances
<1>8. \A j \in Serials : OwnOK(inst'[j])
  BY <1>5, <1>6 DEF IInv
<1>9. TypeOK'
  BY <1>2, <1>6, <1>8 DEF IInv, TypeOK, OwnOK
<1>10. \A t \in Spawners : t # s => spawning'[t] = spawning[t] /\ spawning'[t] # i
  BY <1>1, <1>2, <1>3 DEF IInv, TypeOK, SpawnOK
<1>11. spawning'[s] = 0
  BY <1>2 DEF IInv, TypeOK
<1>12. SpawnOK'
  <2>1. \A t, u \in Spawners : spawning'[t] # 0 /\ spawning'[t] = spawning'[u] => t = u
    BY <1>10, <1>11 DEF IInv, SpawnOK
  <2>2. \A t \in Spawners : spawning'[t] \notin Instances' /\ spawning'[t] <= nextSerial'
    BY <1>2, <1>7, <1>10, <1>11 DEF IInv, SpawnOK, TypeOK, Instances, Serials
  <2>3. \A j \in Instances' : j <= nextSerial'
    BY <1>1, <1>2, <1>7 DEF IInv, SpawnOK
  <2>4. ASSUME ~noDefault
        PROVE  /\ Instances' # {} /\ spawning'["boot"] = 0
               /\ ensure' # "spawn" /\ spawning'["observatory"] = 0
               /\ supi = i
    <3>1. "boot" \in Spawners /\ "observatory" \in Spawners /\ s \in Users \cup {"boot", "observatory"}
      BY DEF Spawners
    <3>2. s # "observatory"
      BY <1>1, <1>2, <2>4 DEF IInv, SpawnOK
    <3>3. s = "boot" => i = DefaultSupi
      BY <1>1, <1>2, <2>4, <3>1 DEF IInv, SpawnOK, TypeOK, DefaultSupi
    <3>4. supi = i
      BY <1>1, <3>1, <3>2, <3>3
    <3>5. spawning'["boot"] = 0
      <4>1. CASE s = "boot"
        BY <4>1, <1>11
      <4>2. CASE s # "boot"
        <5>1. boot = "up"
          BY <1>1, <1>2, <4>2 DEF IInv, SpawnOK, TypeOK
        <5> QED BY <1>10, <2>4, <3>1, <4>2, <5>1 DEF IInv, SpawnOK
      <4> QED BY <4>1, <4>2
    <3>6. spawning'["observatory"] = 0
      BY <1>10, <1>11, <2>4, <3>1 DEF IInv, SpawnOK
    <3> QED BY <1>2, <1>7, <2>4, <3>4, <3>5, <3>6 DEF IInv, SpawnOK
  <2>5. ~noDefault => \A j \in Instances' : inst'[j].supi = j
    BY <1>4, <1>6, <1>7, <2>4 DEF IInv, SpawnOK, Instances
  <2> QED BY <1>2, <2>1, <2>2, <2>3, <2>4, <2>5 DEF SpawnOK
<1>13. CrashOnlyByStop'
  BY <1>2 DEF CrashOnlyByStop
<1> QED BY <1>8, <1>9, <1>12, <1>13 DEF IInv

\* The next serial is drawn; nothing else of the supervisor changes with it.
LEMMA ReserveKeeps ==
  ASSUME IInv, NEW s \in Spawners, Reserve(s),
         UNCHANGED <<inst, noDefault, boot, crashed>>,
         ensure' \in {"idle", "spawn", "done"}, boot = "start" => ensure' = "idle",
         ~noDefault => s # "observatory" /\ ensure' # "spawn",
         boot = "start" <=> s = "boot", s = "boot" => ~noDefault
  PROVE  IInv'
<1> USE SupervisorAssumption
<1>1. PICK n : n = nextSerial + 1
  OBVIOUS
<1>2. /\ nextSerial' = n /\ n \in 1..MaxInstances /\ nextSerial \in 0..MaxInstances
      /\ spawning' = [spawning EXCEPT ![s] = n] /\ spawning[s] = 0
  BY <1>1 DEF Reserve, IInv, TypeOK
<1>3. /\ spawning'[s] = n
      /\ \A t \in Spawners : t # s => spawning'[t] = spawning[t]
      /\ spawning' \in [Spawners -> 0..MaxInstances]
  BY <1>2 DEF IInv, TypeOK
<1>4. Instances' = Instances /\ \A j \in Instances : j \in Serials
  BY DEF Instances
<1>5. TypeOK'
  BY <1>2, <1>3 DEF IInv, TypeOK
<1>6. SpawnOK'
  <2>1. \A t, u \in Spawners : spawning'[t] # 0 /\ spawning'[t] = spawning'[u] => t = u
    BY <1>1, <1>2, <1>3 DEF IInv, SpawnOK, TypeOK
  <2>2. \A t \in Spawners : spawning'[t] \notin Instances' /\ spawning'[t] <= nextSerial'
    BY <1>1, <1>2, <1>3, <1>4 DEF IInv, SpawnOK, TypeOK, Serials
  <2>3. \A j \in Instances' : j <= nextSerial'
    BY <1>1, <1>2, <1>4 DEF IInv, SpawnOK, Serials
  <2>4. "boot" \in Spawners /\ "observatory" \in Spawners
    BY DEF Spawners
  <2>5. boot' = "start" =>
          /\ Instances' = {} /\ ensure' = "idle"
          /\ nextSerial' = spawning'["boot"]
          /\ \A t \in Spawners : t # "boot" => spawning'[t] = 0
          /\ nextSerial' \in {0, DefaultSupi}
          /\ noDefault' => nextSerial' = 0
    BY <1>1, <1>2, <1>3, <1>4, <2>4 DEF IInv, SpawnOK, DefaultSupi
  <2>6. ~noDefault' =>
          /\ boot' = "up" => Instances' # {} /\ spawning'["boot"] = 0
          /\ ensure' # "spawn" /\ spawning'["observatory"] = 0
          /\ \A j \in Instances' : inst'[j].supi = j
    BY <1>3, <1>4, <2>4 DEF IInv, SpawnOK
  <2> QED BY <2>1, <2>2, <2>3, <2>5, <2>6 DEF SpawnOK
<1>7. CrashOnlyByStop' /\ \A j \in Serials : OwnOK(inst'[j])
  BY DEF IInv, CrashOnlyByStop, Instances
<1> QED BY <1>5, <1>6, <1>7 DEF IInv

LEMMA SpawnDefaultKeeps == IInv /\ SpawnDefault => IInv'
<1> SUFFICES ASSUME IInv, SpawnDefault PROVE IInv'
  OBVIOUS
<1>1. boot = "start" /\ UNCHANGED <<inst, noDefault, ensure, crashed>>
  BY DEF SpawnDefault
<1>2. CASE noDefault
  <2>1. boot' = "up" /\ UNCHANGED <<nextSerial, spawning>>
    BY <1>2 DEF SpawnDefault
  <2>2. TypeOK' /\ SpawnOK' /\ CrashOnlyByStop'
    BY <1>1, <1>2, <2>1 DEF IInv, TypeOK, SpawnOK, CrashOnlyByStop, Instances
  <2> QED BY <1>1, <2>2 DEF IInv
<1>3. CASE ~noDefault
  <2>1. Reserve("boot") /\ boot' = boot /\ "boot" \in Spawners /\ "boot" # "observatory"
    BY <1>3 DEF SpawnDefault, Spawners
  <2> QED BY <1>1, <1>3, <2>1, ReserveKeeps DEF IInv, SpawnOK, TypeOK
<1> QED BY <1>2, <1>3

LEMMA EnsureListsKeeps == IInv /\ EnsureLists => IInv'
<1> SUFFICES ASSUME IInv, EnsureLists PROVE IInv'
  OBVIOUS
<1>1. /\ boot = "up" /\ ensure' = IF Instances = {} THEN "spawn" ELSE "done"
      /\ UNCHANGED <<inst, nextSerial, spawning, noDefault, boot, crashed>>
  BY DEF EnsureLists, NoneListed
<1>2. TypeOK' /\ SpawnOK' /\ CrashOnlyByStop'
  BY <1>1 DEF IInv, TypeOK, SpawnOK, CrashOnlyByStop, Instances
<1> QED BY <1>1, <1>2 DEF IInv

----------------------------------------------------------------------------
(* The theorems.                                                           *)

\* Neither callers of the API nor the goroutine and the stop of an instance, in
\* any order, break the invariant.
THEOREM Invariance == Spec => []IInv
<1>1. Init => IInv
  <2> SUFFICES ASSUME Init PROVE IInv
    OBVIOUS
  <2> USE SupervisorAssumption DEF Init
  <2>1. NoInstance \in Instance /\ OwnOK(NoInstance) /\ NoInstance.pc = "none"
    BY NoInstanceTyped
  <2>2. \A i \in Serials : inst[i] = NoInstance /\ OwnOK(inst[i])
    BY <2>1
  <2>3. TypeOK
    <3>1. inst \in [Serials -> Instance]
      BY <2>1
    <3>2. \A i \in Serials : inst[i].err # "none" <=> inst[i].pc \in Ended
      BY <2>2 DEF OwnOK
    <3>3. nextSerial \in 0..MaxInstances /\ spawning \in [Spawners -> 0..MaxInstances]
      OBVIOUS
    <3>4. boot \in {"start", "up"} /\ ensure \in {"idle", "spawn", "done"} /\ crashed \in BOOLEAN
      OBVIOUS
    <3> QED BY <3>1, <3>2, <3>3, <3>4, Zenon DEF TypeOK
  <2>4. Instances = {}
    BY <2>1 DEF Instances
  <2>5. SpawnOK /\ CrashOnlyByStop
    BY <2>4 DEF SpawnOK, CrashOnlyByStop, Spawners, DefaultSupi
  <2> QED BY <2>2, <2>3, <2>5 DEF IInv
<1>2. IInv /\ [Next]_vars => IInv'
  <2> SUFFICES ASSUME IInv, [Next]_vars PROVE IInv'
    OBVIOUS
  <2>1. CASE SpawnDefault
    BY <2>1, SpawnDefaultKeeps
  <2>2. CASE EnsureLists
    BY <2>2, EnsureListsKeeps
  <2>3. CASE EnsureSpawns
    <3>1. "observatory" \in Spawners /\ "observatory" # "boot"
      BY DEF Spawners
    <3>2. /\ ensure = "spawn" /\ ensure' = "done" /\ Reserve("observatory")
          /\ UNCHANGED <<inst, noDefault, boot, crashed>>
      BY <2>3 DEF EnsureSpawns
    <3>3. boot # "start" /\ noDefault
      BY <3>2 DEF IInv, SpawnOK
    <3> QED BY <3>1, <3>2, <3>3, ReserveKeeps
  <2>4. ASSUME NEW s \in Spawners, Store(s) PROVE IInv'
    BY <2>4, StoreKeeps
  <2>5. ASSUME NEW s \in Users, UserSpawns(s) PROVE IInv'
    <3>1. s \in Spawners /\ s # "boot" /\ s # "observatory"
      BY SupervisorAssumption DEF Spawners
    <3>2. /\ boot = "up" /\ Reserve(s)
          /\ UNCHANGED <<inst, noDefault, boot, ensure, crashed>>
      BY <2>5 DEF UserSpawns
    <3> QED BY <3>1, <3>2, ReserveKeeps DEF IInv, SpawnOK, TypeOK
  <2>6. ASSUME NEW i \in Running,
               Run(i) \/ Stop(i) \/ UplinkWithoutTunnel(i) \/ PeerCloses(i)
        PROVE  IInv'
    <3>1. i \in Serials
      BY SupervisorAssumption DEF Running, Serials
    <3> QED BY <2>6, <3>1, RunOwn, StopOwn, OwnStepKeeps
  <2>7. CASE UNCHANGED vars
    <3>1. TypeOK' /\ SpawnOK' /\ CrashOnlyByStop'
      BY <2>7 DEF vars, IInv, TypeOK, SpawnOK, CrashOnlyByStop, Instances
    <3> QED BY <2>7, <3>1 DEF vars, IInv
  <2> QED BY <2>1, <2>2, <2>3, <2>4, <2>5, <2>6, <2>7 DEF Next
<1> QED BY <1>1, <1>2, PTL DEF Spec

\* The records stay within their types, and a goroutine has an error exactly when
\* Run has returned.
THEOREM TypeCorrect == Spec => []TypeOK
<1>1. IInv => TypeOK
  BY DEF IInv
<1> QED BY <1>1, Invariance, PTL

\* Manager.mu, taken twice by Spawn, and the start-up order of runSupervisor are
\* enough to keep serials apart, and SUPIs if there is a default UE.
THEOREM SupisApart == Spec => []IdentitiesApart
<1>1. IInv => IdentitiesApart
  BY DEF IInv, SpawnOK, IdentitiesApart
<1> QED BY <1>1, Invariance, PTL

\* Whichever of goroutine and Stop writes the state last, it is not one of a UE on
\* its way up.
THEOREM SettledStates == Spec => []SettledIsNotComing
<1>1. IInv => SettledIsNotComing
  BY DEF IInv, OwnOK, SettledIsNotComing, Settled
<1> QED BY <1>1, Invariance, PTL

\* A read error of a UE that was stopped is never reported as a failure.
THEOREM StoppedIsNotFailed == Spec => []StopIsNoFailure
<1>1. IInv => StopIsNoFailure
  BY DEF IInv, OwnOK, StopIsNoFailure
<1> QED BY <1>1, Invariance, PTL

\* Whatever the network does, the nil connection or tunnel behind a panic is one
\* that Close has cleared.
THEOREM PanicsAreStops == Spec => []CrashOnlyByStop
<1>1. IInv => CrashOnlyByStop
  BY DEF IInv
<1> QED BY <1>1, Invariance, PTL

\* Close leaves nothing open that was there when Stop began, but the sockets of
\* accepts that a later one has replaced, however many accepts there are.
THEOREM LeaksAreLate == Spec => []LeftOpenIsLate
<1>1. IInv => LeftOpenIsLate
  <2> SUFFICES ASSUME IInv, NEW i \in Serials, inst[i].stop = "done"
               PROVE  /\ inst[i].sock = "open" => inst[i].lateConn
                      /\ \A p \in inst[i].ports : p \in inst[i].latePorts \/ p < inst[i].opened
    BY DEF LeftOpenIsLate
  <2>1. inst[i] \in Instance /\ OwnOK(inst[i])
    BY OwnFacts
  <2>2. inst[i].opened \in Nat /\ \A p \in inst[i].ports : p \in Nat
    BY <2>1, SupervisorAssumption DEF Instance, Sockets
  <2> QED BY <2>1, <2>2 DEF OwnOK, AfterConn, AfterTunnel
<1> QED BY <1>1, Invariance, PTL
============================================================================
