---------------------------- MODULE SmfContract ----------------------------
(***************************************************************************)
(* What the SMF promises the AMF and the UPF, with no locks, counters or   *)
(* handlers: the life of a session context, each step of which is one      *)
(* atomic change.                                                          *)
(*                                                                         *)
(*   "new" -Open-> "open" -Announce-> "announced" -Publish-> "published"   *)
(*         -Close-> "closed"                                               *)
(*                                                                         *)
(* The UPF hears of a session before the AMF does, the AMF alone ends it,  *)
(* and an id or a TEID is never used twice.                                *)
(***************************************************************************)
EXTENDS Naturals

CONSTANTS Supis, SessionIds, Addresses, Teids, NoSession

VARIABLES
  stage,      \* of the context of each id
  context,    \* the context, while there is one
  announced   \* what was sent to the UPF

vars == <<stage, context, announced>>

Init ==
  /\ stage = [i \in SessionIds |-> "new"]
  /\ context = [i \in SessionIds |-> NoSession]
  /\ announced = {}

Held(i) == context[i] # NoSession

Advance(i, from, to) ==
  /\ stage[i] = from
  /\ stage' = [stage EXCEPT ![i] = to]

\* A session gets an address nobody has and a TEID nobody ever had.
Open(i) ==
  /\ Advance(i, "new", "open")
  /\ UNCHANGED announced
  /\ \E s \in Supis, a \in Addresses, t \in Teids \ {0} :
       /\ \A j \in SessionIds : Held(j) => context[j].ip # a /\ context[j].teid # t
       /\ \A m \in announced : m.teid # t
       /\ context' = [context EXCEPT ![i] = [supi |-> s, ip |-> a, teid |-> t]]

Announce(i) ==
  /\ Advance(i, "open", "announced")
  /\ announced' = announced \cup {[teid |-> context[i].teid, ip |-> context[i].ip]}
  /\ UNCHANGED context

\* The AMF learns the id.
Publish(i) == Advance(i, "announced", "published") /\ UNCHANGED <<context, announced>>

Close(i) ==
  /\ Advance(i, "published", "closed")
  /\ context' = [context EXCEPT ![i] = NoSession]
  /\ UNCHANGED announced

Next ==
  \E i \in SessionIds : Open(i) \/ Announce(i) \/ Publish(i) \/ Close(i)

\* The AMF is told of every session that was opened.
Told == \A i \in SessionIds : (stage[i] = "open") ~> (stage[i] = "published")

Safety == Init /\ [][Next]_vars

Spec == Safety /\ Told
============================================================================
