----------------------------- MODULE MqttUplink -----------------------------
(***************************************************************************)
(* What one node publishes on MQTT, on its way to the outbox and into the  *)
(* edge's view of that node: node -> broker session -> paho's thread ->    *)
(* asyncio loop -> `_pending` -> outbox (MqttConsumer._on_connect,         *)
(* _on_message, _handle and _subscribe_status in mqtt_consumer.py,         *)
(* push_node_reading and _flush_loop in scheduler.py).  Every measurement  *)
(* differs from the one before it; Dedup shows that leaving out those that *)
(* do not changes nothing of what Main is shown.                           *)
(*                                                                         *)
(* paho acknowledges a message as soon as _on_message returns, that is     *)
(* when _handle has been scheduled, not when it has run.  The broker keeps *)
(* the messages of a persistent session while the edge is away and sends   *)
(* again what was not acknowledged; it serves a retained message to an     *)
(* exact subscription only (mqtt_consumer.py:309-319).  Commands and their *)
(* acknowledgements are in NodeCommand, mqtt_consumer_forward is on.       *)
(***************************************************************************)
EXTENDS Integers, Sequences, FiniteSets

CONSTANTS
  Firmwares,    \* what a node may run: [cmd, sigCmd, signs]
  MaxMeas,      \* bound: measurements the node publishes
  MaxEvents,    \* bound: comings and goings of the node, new keys, lost
                \* connections, expired sessions and restarts together
  None

ASSUME MqttUplinkAssumption ==
  /\ Firmwares \subseteq
       [cmd : BOOLEAN, sigCmd : BOOLEAN, signs : SUBSET {"meas", "status"}]
  /\ Firmwares # {} /\ None \notin Nat
  /\ MaxMeas \in Nat /\ MaxEvents \in Nat

VARIABLES
  node,      \* the node: [on, fw, key], key 0: it has not learnt one
  mainKey,   \* Main: the api_key of the node's device
  edgeKey,   \* SourceManager.api_keys; 0: no entry
  session,   \* the broker holds a session for the edge's client_id
  linked,    \* paho is connected
  queue,     \* messages of the session the edge has not been sent
  onLink,    \* messages sent to paho over the present connection
  retained,  \* the retained status of the node, or None
  ready,     \* _handle calls scheduled with call_soon_threadsafe
  view,      \* stats["online"], caps and sig_caps of the node
  signed,    \* _signed_kinds: kind -> key; 0: no entry
  known,     \* the node is in stats["by_serial"]
  pending,   \* `_pending` of the node, measurements by number
  kept,      \* the measurements the outbox has been given
  shown,     \* the one it was given last, or None: what Main will show
  unheld,    \* history: measurements the broker had no session for, or whose
             \* session expired
  lost,      \* history: measurements refused, or lost with the process
  unheard,   \* history: the retained status never came to the edge's session
             \* or was refused, or the process that heard it is gone
  spent      \* what has been used of the bounds

edge == <<edgeKey, ready, view, signed, known, pending>>
broker == <<session, linked, queue, onLink, retained>>
history == <<unheld, lost, unheard>>
vars == <<node, mainKey, edge, broker, kept, shown, history, spent>>

Kinds == {"meas", "status"}
Keys == 0..MaxEvents + 1
Samples == 1..MaxMeas
Measurement == [kind : {"meas"}, n : Samples, key : Keys]
Status ==
  [kind : {"status"}, online : BOOLEAN, cmd : BOOLEAN, sigCmd : BOOLEAN, key : Keys]
Message == Measurement \cup Status
Nowhere == [online |-> None, caps |-> FALSE, sigCaps |-> FALSE]

TypeOK ==
  /\ node \in [on : BOOLEAN, fw : Firmwares, key : Keys]
  /\ mainKey \in Keys \ {0} /\ edgeKey \in 0..mainKey
  /\ session \in BOOLEAN /\ linked \in BOOLEAN /\ (linked => session)
  /\ queue \in Seq(Message) /\ onLink \in Seq(Message) /\ ready \in Seq(Message)
  /\ retained \in Status \cup {None}
  /\ view \in [online : BOOLEAN \cup {None}, caps : BOOLEAN, sigCaps : BOOLEAN]
  /\ view.sigCaps => view.caps
  /\ signed \in [Kinds -> 0..mainKey]
  /\ known \in BOOLEAN
  /\ pending \in Seq(Samples)
  /\ kept \subseteq 1..spent.meas /\ shown \in kept \cup {None}
  /\ unheld \subseteq 1..spent.meas /\ lost \subseteq 1..spent.meas /\ unheard \in BOOLEAN
  /\ spent \in [meas : 0..MaxMeas, events : 0..MaxEvents]

Init ==
  /\ node = [on |-> FALSE, fw |-> CHOOSE fw \in Firmwares : TRUE, key |-> 0]
  /\ mainKey = 1 /\ edgeKey = 0
  /\ session = FALSE /\ linked = FALSE /\ queue = << >> /\ onLink = << >>
  /\ retained = None /\ ready = << >>
  /\ view = Nowhere /\ signed = [k \in Kinds |-> 0] /\ known = FALSE
  /\ pending = << >> /\ kept = {} /\ shown = None
  /\ unheld = {} /\ lost = {} /\ unheard = TRUE
  /\ spent = [meas |-> 0, events |-> 0]

-----------------------------------------------------------------------------
(* The node and the broker (external).                                     *)

\* The measurements in a sequence of messages.
SamplesOf(q) == {q[i].n : i \in {j \in DOMAIN q : q[j].kind = "meas"}}

InSequence(q) == {q[i] : i \in DOMAIN q}

Last(q) == q[Len(q)]

HoldsStatus(q) == \E i \in DOMAIN q : q[i].kind = "status"

KeyFor(kind, fw) == IF kind \in fw.signs THEN node.key ELSE 0

\* The broker keeps a message for the edge while it has a session for it.
Route(m) == queue' = IF session THEN Append(queue, m) ELSE queue

Event == spent.events < MaxEvents /\ spent' = [spent EXCEPT !.events = @ + 1]

\* The node publishes a measurement.
Publish ==
  /\ node.on
  /\ spent.meas < MaxMeas
  /\ spent' = [spent EXCEPT !.meas = @ + 1]
  /\ Route([kind |-> "meas", n |-> spent'.meas, key |-> KeyFor("meas", node.fw)])
  /\ unheld' = IF session THEN unheld ELSE unheld \cup {spent'.meas}
  /\ UNCHANGED <<node, mainKey, edge, session, linked, onLink, retained, kept, shown, lost,
                 unheard>>

\* The node connects, perhaps with other firmware, and reports itself.
NodeUp ==
  /\ ~node.on
  /\ Event
  /\ \E fw \in Firmwares :
       /\ node' = [node EXCEPT !.on = TRUE, !.fw = fw]
       /\ retained' = [kind |-> "status", online |-> TRUE, cmd |-> fw.cmd,
                       sigCmd |-> fw.sigCmd, key |-> KeyFor("status", fw)]
  /\ Route(retained')
  /\ unheard' = ~session
  /\ UNCHANGED <<mainKey, edge, session, linked, onLink, kept, shown, unheld,
                 lost>>

\* The node goes; the broker publishes its Last Will, which nobody signed.
NodeDown ==
  /\ node.on
  /\ Event
  /\ node' = [node EXCEPT !.on = FALSE]
  /\ retained' = [kind |-> "status", online |-> FALSE, cmd |-> FALSE,
                  sigCmd |-> FALSE, key |-> 0]
  /\ Route(retained')
  /\ unheard' = ~session
  /\ UNCHANGED <<mainKey, edge, session, linked, onLink, kept, shown, unheld,
                 lost>>

\* A node that signs learns its key with /node/v1/hello.
NodeLearns ==
  /\ node.fw.signs # {}
  /\ edgeKey # 0
  /\ node.key # edgeKey
  /\ node' = [node EXCEPT !.key = edgeKey]
  /\ UNCHANGED <<mainKey, edge, broker, kept, shown, history, spent>>

\* Main gives the node's device another key.
RotateKey ==
  /\ Event
  /\ mainKey' = mainKey + 1
  /\ UNCHANGED <<node, edge, broker, kept, shown, history>>

\* Mutant: clean_session=True, the session ends with the connection.
CleanSession(acked) == << >>

\* What the session of clean_session=False holds once the connection is gone,
\* when the first `acked` PUBACKs have reached the broker.
Requeued(acked) == SubSeq(onLink, acked + 1, Len(onLink)) \o queue

\* The connection is lost: the broker will send again what is not acknowledged.
LinkLost ==
  /\ linked
  /\ Event
  /\ linked' = FALSE
  /\ \E acked \in 0..Len(onLink) : queue' = Requeued(acked)
  /\ onLink' = << >>
  /\ UNCHANGED <<node, mainKey, edge, session, retained, kept, shown, history>>

\* max_session_expiry_interval_seconds pass without the edge.
SessionExpires ==
  /\ ~linked
  /\ session
  /\ Event
  /\ session' = FALSE
  /\ queue' = << >>
  /\ unheld' = unheld \cup SamplesOf(queue)
  /\ unheard' = (unheard \/ HoldsStatus(queue))
  /\ UNCHANGED <<node, mainKey, edge, linked, onLink, retained, kept, shown,
                 lost>>

-----------------------------------------------------------------------------
(* The edge.                                                               *)

\* paho connects; _on_connect subscribes to the patterns.
Connect ==
  /\ ~linked
  /\ linked' = TRUE
  /\ session' = TRUE
  /\ UNCHANGED <<node, mainKey, edge, queue, onLink, retained, kept, shown, history, spent>>

\* The broker sends the next message; _on_message schedules _handle.
OnMessage ==
  /\ linked
  /\ queue # << >>
  /\ onLink' = Append(onLink, Head(queue))
  /\ ready' = Append(ready, Head(queue))
  /\ queue' = Tail(queue)
  /\ UNCHANGED <<node, mainKey, edgeKey, view, signed, known, pending, session, linked,
                 retained, kept, shown, history, spent>>

\* Mutant: the loop takes the last call first.
Newest == [m |-> ready[Len(ready)], rest |-> SubSeq(ready, 1, Len(ready) - 1)]

\* The call the loop runs next, and those left.
NextCall == [m |-> Head(ready), rest |-> Tail(ready)]

\* The node signed this kind of packet before, with the key it has now.
Sticky(kind) == signed[kind] # 0 /\ signed[kind] = edgeKey

\* The signature check at the head of _handle.
Genuine(m) ==
  IF m.key # 0 THEN m.key = edgeKey
               ELSE ~Sticky(m.kind) \/ (m.kind = "status" /\ ~m.online)

SignedAfter(m) ==
  IF m.key # 0 THEN [signed EXCEPT ![m.kind] = m.key] ELSE signed

\* Mutant: sig_caps is only ever switched on.
SigCapsRise(m) ==
  [online |-> m.online,
   caps |-> view.caps \/ (m.online /\ m.cmd),
   sigCaps |-> view.sigCaps \/ (m.online /\ m.cmd /\ m.sigCmd)]

\* Mutant: a node that goes offline loses its declaration.
CapsDropped(m) ==
  [online |-> m.online,
   caps |-> m.online /\ m.cmd,
   sigCaps |-> IF m.online /\ m.cmd THEN m.sigCmd ELSE view.sigCaps]

\* What a status makes of the view; going offline does not take caps away.
ViewAfter(m) ==
  [online |-> m.online,
   caps |-> view.caps \/ (m.online /\ m.cmd),
   sigCaps |-> IF m.online /\ m.cmd THEN m.sigCmd ELSE view.sigCaps]

\* _subscribe_status at the first measurement of a node: the broker answers
\* with the retained status.  Without a connection paho drops the request.
SubscribeStatus ==
  IF ~known /\ linked /\ retained # None
  THEN queue' = Append(queue, retained) /\ unheard' = FALSE
  ELSE UNCHANGED <<queue, unheard>>

\* _handle of a measurement.
HandleMeas ==
  /\ ready # << >>
  /\ LET m == NextCall.m IN
       /\ m.kind = "meas"
       /\ Genuine(m)
       /\ signed' = SignedAfter(m)
       /\ pending' = Append(pending, m.n)
  /\ ready' = NextCall.rest
  /\ SubscribeStatus
  /\ known' = TRUE
  /\ UNCHANGED <<node, mainKey, edgeKey, view, session, linked, onLink, retained,
                 kept, shown, unheld, lost, spent>>

\* _handle of a status.
HandleStatus ==
  /\ ready # << >>
  /\ LET m == NextCall.m IN
       /\ m.kind = "status"
       /\ Genuine(m)
       /\ signed' = SignedAfter(m)
       /\ view' = ViewAfter(m)
  /\ ready' = NextCall.rest
  /\ UNCHANGED <<node, mainKey, edgeKey, known, pending, broker, kept, shown, history, spent>>

\* _handle of a packet that fails the check: it is counted and forgotten.
Refuse ==
  /\ ready # << >>
  /\ LET m == NextCall.m IN
       /\ ~Genuine(m)
       /\ lost' = IF m.kind = "meas" THEN lost \cup {m.n} ELSE lost
       /\ unheard' = (unheard \/ m = retained)
  /\ ready' = NextCall.rest
  /\ UNCHANGED <<node, mainKey, edgeKey, view, signed, known, pending, broker, kept, shown,
                 unheld, spent>>

\* apply_config brings the key Main has.
ApplyConfig ==
  /\ edgeKey # mainKey
  /\ edgeKey' = mainKey
  /\ UNCHANGED <<node, mainKey, ready, view, signed, known, pending, broker, kept, shown,
                 history, spent>>

\* _flush_loop.
Flush ==
  /\ pending # << >>
  /\ kept' = kept \cup InSequence(pending)
  /\ shown' = Last(pending)
  /\ pending' = << >>
  /\ UNCHANGED <<node, mainKey, edgeKey, ready, view, signed, known, broker, history,
                 spent>>

\* The process dies and starts again, not yet connected: the calls that have
\* not run and `_pending` are gone, acknowledged or not.  It counts as a loss
\* too when an earlier copy of the measurement is in the outbox already.
Restart ==
  /\ Event
  /\ linked' = FALSE
  /\ \E acked \in 0..Len(onLink) : queue' = Requeued(acked)
  /\ onLink' = << >>
  /\ edgeKey' = 0
  /\ ready' = << >>
  /\ view' = Nowhere
  /\ signed' = [k \in Kinds |-> 0]
  /\ known' = FALSE
  /\ pending' = << >>
  /\ lost' = lost \cup ((SamplesOf(ready) \cup InSequence(pending)) \ SamplesOf(queue'))
  /\ unheard' = (unheard \/ ~HoldsStatus(queue'))
  /\ UNCHANGED <<node, mainKey, session, retained, kept, shown, unheld>>

Edge == Connect \/ OnMessage \/ HandleMeas \/ HandleStatus \/ Refuse \/ Flush

Next ==
  \/ Edge \/ Publish \/ NodeUp \/ NodeDown \/ NodeLearns \/ RotateKey
  \/ LinkLost \/ SessionExpires \/ Restart \/ ApplyConfig

Spec == Init /\ [][Next]_vars

-----------------------------------------------------------------------------
(* Properties.                                                             *)

Published == 1..spent.meas

\* Measurements between the node and their handler.
UnderWay == SamplesOf(queue) \cup SamplesOf(ready)

StatusUnderWay == HoldsStatus(queue) \/ HoldsStatus(ready)

\* What Main is shown once `_pending` has arrived.
Shown == IF pending # << >> THEN Last(pending) ELSE shown

(***************************************************************************)
(* End to end: every measurement is under way, in `_pending`, in the       *)
(* outbox, or lost in one of the ways that are excepted; and once none is  *)
(* under way, Main is shown the newest one that is not lost, though a lost *)
(* connection made the broker send a run of older ones again               *)
(* (mqtt_consumer.py:46-51).                                               *)
(***************************************************************************)
NewestWins ==
  /\ Published = UnderWay \cup InSequence(pending) \cup kept \cup unheld \cup lost
  /\ UnderWay = {} => \A n \in Published \ (unheld \cup lost) : n <= Shown

(***************************************************************************)
(* Once no status is under way, the edge's view of the node is what the    *)
(* node said last: online or not, and, for a node that takes commands by   *)
(* MQTT, whether they must be signed.  It may be upgraded or downgraded,   *)
(* die, and be heard twice (mqtt_consumer.py:261-277).                     *)
(***************************************************************************)
ViewIsCurrent ==
  ~unheard /\ ~StatusUnderWay =>
    /\ view.online = retained.online
    /\ retained.online /\ retained.cmd => view.caps /\ view.sigCaps = retained.sigCmd
=============================================================================
