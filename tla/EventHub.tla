------------------------------ MODULE EventHub ------------------------------
(***************************************************************************)
(* The observatory's event hub: a bounded buffer of events and a channel   *)
(* for each WebSocket connection.                                          *)
(*                                                                         *)
(*   Emit  (any network function)  posted -> stored, or posted -> lost     *)
(*   client (one connection)       away -> snapshot -> subscribed -> gone  *)
(*                                                                         *)
(* Every POST has a handler of its own, which stores the event and copies  *)
(* the set of subscribers under Hub.mu and sends after it has let go of    *)
(* it.  A connection takes its snapshot before it subscribes.  An event is *)
(* a number, and its POST under way from the start: any may be the next to *)
(* be stored, as each has a goroutine of its own.                          *)
(***************************************************************************)
EXTENDS Naturals, Sequences, Functions

CONSTANTS
  Clients,     \* connections to /ws
  MaxEvents,   \* bound: events emitted
  BufferMax,   \* Hub.max, 500 in the program
  Window,      \* events in a snapshot, 100
  Capacity     \* of a connection's channel, 32

ASSUME HubAssumption ==
  /\ MaxEvents \in Nat
  /\ BufferMax \in Nat \ {0} /\ Window \in Nat \ {0} /\ Capacity \in Nat \ {0}

Events == 1..MaxEvents

VARIABLES
  post,         \* each event's POST
  todo,         \* the subscribers its handler has yet to send to
  events,       \* Hub.events
  subscribers,  \* Hub.subscribers
  client,       \* each connection's handler
  chan,         \* its channel
  snapshot,     \* the messages of its snapshot
  shown,        \* the events written to it
  history,      \* events in the order they were stored
  snapAt,       \* length of history when a connection's snapshot was taken ...
  since,        \* ... and when it subscribed
  full          \* events that found its channel full

hubVars    == <<events, subscribers>>
clientVars == <<client, snapshot, shown>>
ghosts     == <<history, snapAt, since, full>>
vars       == <<post, todo, events, subscribers, client, chan, snapshot, shown, history,
                snapAt, since, full>>

Elements(s) == {s[i] : i \in DOMAIN s}

TypeOK ==
  /\ post \in [Events -> {"posted", "stored", "lost"}]
  /\ todo \in [Events -> SUBSET Clients]
  /\ events \in Seq(Events) /\ Len(events) <= BufferMax
  /\ subscribers = {c \in Clients : client[c] = "subscribed"}
  /\ client \in [Clients -> {"away", "snapshot", "subscribed", "gone"}]
  /\ chan \in [Clients -> Seq(Events)] /\ \A c \in Clients : Len(chan[c]) <= Capacity
  /\ snapshot \in [Clients -> Seq(Events)] /\ \A c \in Clients : Len(snapshot[c]) <= Window
  /\ shown \in [Clients -> Seq(Events)]
  /\ snapAt \in [Clients -> 0..MaxEvents] /\ since \in [Clients -> 0..MaxEvents]
  /\ full \in [Clients -> SUBSET Events]
  /\ history \in Seq(Events)

Init ==
  /\ post = [e \in Events |-> "posted"]
  /\ todo = [e \in Events |-> {}]
  /\ events = <<>> /\ history = <<>>
  /\ subscribers = {}
  /\ client = [c \in Clients |-> "away"]
  /\ chan = [c \in Clients |-> <<>>]
  /\ snapshot = [c \in Clients |-> <<>>]
  /\ shown = [c \in Clients |-> <<>>]
  /\ snapAt = [c \in Clients |-> 0]
  /\ since = [c \in Clients |-> 0]
  /\ full = [c \in Clients |-> {}]

LastN(s, n) == SubSeq(s, Len(s) - (IF n < Len(s) THEN n ELSE Len(s)) + 1, Len(s))

----------------------------------------------------------------------------
(* Events.                                                                 *)

\* The observatory is down or does not take the request within 2 s.
Lose(e) ==
  /\ post[e] = "posted"
  /\ post' = [post EXCEPT ![e] = "lost"]
  /\ UNCHANGED <<todo, hubVars, clientVars, chan, ghosts>>

(* The buffer is full when it is longer than it may be.                    *)
TrimmedLate(s) == IF Len(s) > BufferMax + 1 THEN LastN(s, BufferMax) ELSE s

Trimmed(s) == IF Len(s) > BufferMax THEN LastN(s, BufferMax) ELSE s

\* The critical section of Add.
Store(e) ==
  /\ post[e] = "posted"
  /\ post' = [post EXCEPT ![e] = "stored"]
  /\ events' = Trimmed(Append(events, e))
  /\ history' = Append(history, e)
  /\ todo' = [todo EXCEPT ![e] = subscribers]
  /\ UNCHANGED <<subscribers, clientVars, chan, snapAt, since, full>>

(* The handler waits for room in the channel.                              *)
SendBlocking(e, c) ==
  /\ c \in todo[e]
  /\ Len(chan[c]) < Capacity
  /\ chan' = [chan EXCEPT ![c] = Append(@, e)]
  /\ todo' = [todo EXCEPT ![e] = @ \ {c}]
  /\ UNCHANGED <<post, hubVars, clientVars, ghosts>>

(* The loop over the subscribers ends at the first full channel.           *)
SendUntilFull(e, c) ==
  /\ c \in todo[e]
  /\ IF Len(chan[c]) < Capacity
     THEN /\ chan' = [chan EXCEPT ![c] = Append(@, e)]
          /\ todo' = [todo EXCEPT ![e] = @ \ {c}]
          /\ UNCHANGED full
     ELSE /\ full' = [full EXCEPT ![c] = @ \cup {e}]
          /\ todo' = [todo EXCEPT ![e] = {}]
          /\ UNCHANGED chan
  /\ UNCHANGED <<post, hubVars, clientVars, history, snapAt, since>>

\* The channel stays when its connection has gone, and nobody reads it.
Send(e, c) ==
  /\ c \in todo[e]
  /\ todo' = [todo EXCEPT ![e] = @ \ {c}]
  /\ IF Len(chan[c]) < Capacity
     THEN /\ chan' = IF client[c] = "gone" THEN chan ELSE [chan EXCEPT ![c] = Append(@, e)]
          /\ UNCHANGED full
     ELSE full' = [full EXCEPT ![c] = @ \cup {e}] /\ UNCHANGED chan
  /\ UNCHANGED <<post, hubVars, clientVars, history, snapAt, since>>

\* handleEvents: 202
Accepted(e) == post[e] = "stored" /\ todo[e] = {}

----------------------------------------------------------------------------
(* handleWebSocket.                                                        *)

Recent == LastN(events, Window)

Snapshot(c) ==
  /\ client[c] = "away"
  /\ client' = [client EXCEPT ![c] = "snapshot"]
  /\ snapshot' = [snapshot EXCEPT ![c] = Recent]
  /\ snapAt' = [snapAt EXCEPT ![c] = Len(history)]
  /\ UNCHANGED <<post, todo, hubVars, chan, shown, history, since, full>>

(* The client gets what is in the buffer by now.                           *)
SubscribeWithBacklog(c) ==
  /\ client[c] = "snapshot"
  /\ client' = [client EXCEPT ![c] = "subscribed"]
  /\ subscribers' = subscribers \cup {c}
  /\ since' = [since EXCEPT ![c] = Len(history)]
  /\ chan' = [chan EXCEPT ![c] = LastN(events, Capacity)]
  /\ UNCHANGED <<post, todo, events, snapshot, shown, history, snapAt, full>>

Subscribe(c) ==
  /\ client[c] = "snapshot"
  /\ client' = [client EXCEPT ![c] = "subscribed"]
  /\ subscribers' = subscribers \cup {c}
  /\ since' = [since EXCEPT ![c] = Len(history)]
  /\ UNCHANGED <<post, todo, events, chan, snapshot, shown, history, snapAt, full>>

\* An event is taken from the channel and written.
Show(c) ==
  /\ client[c] = "subscribed"
  /\ chan[c] # <<>>
  /\ chan' = [chan EXCEPT ![c] = Tail(@)]
  /\ shown' = [shown EXCEPT ![c] = Append(@, Head(chan[c]))]
  /\ UNCHANGED <<post, todo, hubVars, client, snapshot, ghosts>>

\* Writing an event or the topology fails: Unsubscribe, and the connection is
\* forgotten with all that it was shown.
Disconnect(c) ==
  /\ client[c] = "subscribed"
  /\ client' = [client EXCEPT ![c] = "gone"]
  /\ subscribers' = subscribers \ {c}
  /\ chan' = [chan EXCEPT ![c] = <<>>]
  /\ snapshot' = [snapshot EXCEPT ![c] = <<>>]
  /\ shown' = [shown EXCEPT ![c] = <<>>]
  /\ full' = [full EXCEPT ![c] = {}]
  /\ snapAt' = [snapAt EXCEPT ![c] = 0]
  /\ since' = [since EXCEPT ![c] = 0]
  /\ UNCHANGED <<post, todo, events, history>>

----------------------------------------------------------------------------

Handle(e) == Store(e) \/ \E c \in Clients : Send(e, c)

Next ==
  \/ \E e \in Events : Lose(e) \/ Handle(e)
  \/ \E c \in Clients : Snapshot(c) \/ Subscribe(c) \/ Show(c) \/ Disconnect(c)

Spec == Init /\ [][Next]_vars

\* Handlers of POSTs run; nothing is assumed of the connections.
FairSpec == Spec /\ \A e \in Events : WF_vars(Handle(e))

----------------------------------------------------------------------------
(* Properties.                                                             *)

\* No client is shown an event twice, in its snapshot and after it or in two
\* messages, though both snapshot and channel are filled while events come in.
SeenOnce ==
  \A c \in Clients : IsInjective(snapshot[c] \o shown[c] \o chan[c])

\* A connected client misses an event only if it was stored between its snapshot
\* and Subscribe, had left the window, or met the client's own channel full: a
\* slow client costs no other one an event.
MissedForAReason ==
  \A c \in Clients, i \in DOMAIN history :
    LET e == history[i]
        known == Elements(snapshot[c]) \cup Elements(shown[c]) \cup Elements(chan[c])
        reach == IF Window < BufferMax THEN Window ELSE BufferMax
    IN client[c] = "subscribed" =>
         \/ e \in known \cup full[c] \/ c \in todo[e]
         \/ snapAt[c] < i /\ i <= since[c]
         \/ i <= snapAt[c] /\ i + reach <= snapAt[c]

\* The POST of an event is answered though no client takes anything from its
\* channel: the hub holds up no network function's goroutine.
PostAnswered ==
  \A e \in Events : (post[e] = "posted") ~> (Accepted(e) \/ post[e] = "lost")
============================================================================
