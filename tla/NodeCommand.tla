---------------------------- MODULE NodeCommand ----------------------------
(***************************************************************************)
(* A command of Main for a node: SourceManager.queue_command and           *)
(* _dispatch_node_command (manager.py), publish_command, cancel_pending    *)
(* and the status and cmdack handlers of MqttConsumer (mqtt_consumer.py),  *)
(* and the poll route of nodes with old firmware (node_api.py).            *)
(*                                                                         *)
(* Three parties run concurrently: the asyncio loop (every action of the   *)
(* edge is one run of it between two awaits), paho's network thread, which *)
(* hands its events to the loop with call_soon_threadsafe, and the nodes   *)
(* behind the broker.  paho, broker and nodes are external; paho 1.6.1 is  *)
(* modelled from what publish_command and cancel_pending say of it: a QoS1 *)
(* message is kept in _out_messages until its PUBACK, and a reconnect      *)
(* sends again, marked dup, what was sent before.                          *)
(***************************************************************************)
EXTENDS Integers, Sequences, FiniteSets

CONSTANTS
  Nodes,         \* the nodes, by serial
  Pollers,       \* those with old firmware: they poll /node/v1/commands
  Signers,       \* those whose status declares sig_cmd
  MaxCommands,   \* bound: commands Main gives
  MaxEvents      \* bound: commands and losses of a broker connection together

ASSUME NodeCommandAssumption ==
  /\ Pollers \subseteq Nodes
  /\ Signers \subseteq Nodes \ Pollers
  /\ MaxCommands \in Nat /\ MaxEvents \in Nat

VARIABLES
  issued,     \* _node_cmd_seq, counted from its random start
  sentTo,     \* sentTo[s]: the commands given for s (_node_cmd_owner)
  reply,      \* reply[i]: the result set on the future of command i
  answer,     \* answer[i]: what the caller of queue_command knows
  known,      \* _node_last_seen
  caps,       \* MqttConsumer.caps with sig_caps
  online,     \* MqttConsumer.stats["online"]
  connected,  \* MqttConsumer._connected
  tracked,    \* MqttConsumer._pending_mids
  polls,      \* _node_queues
  callbacks,  \* calls scheduled with call_soon_threadsafe
  link,       \* paho's socket: down, connecting (no CONNACK yet), up
  out,        \* paho's _out_messages
  toBroker,   \* PUBLISH packets on the wire to the broker
  pubacks,    \* PUBACK packets on the wire from the broker
  session,    \* what the broker holds for the edge's session
  present,    \* the MQTT nodes connected to the broker
  atNode,     \* atNode[s]: commands on their way from broker or poll to s
  did,        \* did[i]: the outcomes of the runs of command i
  losses      \* how often the edge or a node has lost the broker

edge == <<issued, sentTo, reply, answer, known, caps, online, connected, tracked, polls>>
paho == <<link, out, toBroker, pubacks, losses>>
nodes == <<present, atNode, did>>
vars == <<edge, callbacks, paho, session, nodes>>

Ids == 1..MaxCommands
Outcome == {"ok", "refused"}
Caps == {"none", "plain", "signed"}
Message == [id : Ids, state : {"publish", "wait"}, dup : BOOLEAN]
Event == [type : {"link"}, up : BOOLEAN]
         \cup [type : {"status"}, node : Nodes, up : BOOLEAN]
         \cup [type : {"ack"}, node : Nodes, id : Ids, outcome : Outcome]

TypeOK ==
  /\ issued \in 0..MaxCommands
  /\ sentTo \in [Nodes -> SUBSET Ids]
  /\ reply \in [Ids -> Outcome \cup {"none"}]
  /\ answer \in [Ids -> Outcome \cup {"idle", "wait", "error", "unknown", "gone"}]
  /\ known \subseteq Nodes
  /\ caps \in [Nodes -> Caps]
  /\ online \subseteq Nodes
  /\ connected \in BOOLEAN
  /\ tracked \subseteq Ids
  /\ polls \in [Nodes -> Seq(Ids)]
  /\ callbacks \in Seq(Event)
  /\ link \in {"down", "connecting", "up"}
  /\ out \subseteq Message
  /\ toBroker \subseteq Ids
  /\ pubacks \subseteq Ids
  /\ session \in Seq(Event)
  /\ present \subseteq Nodes \ Pollers
  /\ atNode \in [Nodes -> SUBSET Ids]
  /\ did \in [Ids -> SUBSET Outcome]
  /\ losses \in 0..MaxEvents

\* The edge has reached the broker; it knows of no node yet.
Init ==
  /\ issued = 0
  /\ sentTo = [s \in Nodes |-> {}]
  /\ reply = [i \in Ids |-> "none"]
  /\ answer = [i \in Ids |-> "idle"]
  /\ known = {} /\ caps = [s \in Nodes |-> "none"] /\ online = {}
  /\ connected = TRUE /\ tracked = {} /\ polls = [s \in Nodes |-> << >>]
  /\ callbacks = << >>
  /\ link = "up" /\ out = {} /\ toBroker = {} /\ pubacks = {} /\ losses = 0
  /\ session = << >>
  /\ present = Nodes \ Pollers
  /\ atNode = [s \in Nodes |-> {}] /\ did = [i \in Ids |-> {}]

Awaited(i) == answer[i] = "wait"

Exhausted == issued + losses >= MaxEvents

-----------------------------------------------------------------------------
(* The edge: giving a command.                                             *)

\* Mutant: the counter is read but not advanced.
SameId == issued

NextId == issued + 1

\* The first measurement (or poll) of s: touch_node, and for an MQTT node a
\* subscription to its own status topic, which brings the retained snapshot.
Touch(s) ==
  /\ s \notin known
  /\ s \in Pollers \/ (s \in present /\ link = "up")
  /\ known' = known \cup {s}
  /\ session' = IF s \in Pollers THEN session
                ELSE Append(session, [type |-> "status", node |-> s, up |-> TRUE])
  /\ UNCHANGED <<issued, sentTo, reply, answer, caps, online, connected, tracked,
                 polls, callbacks, paho, nodes>>

\* paho's publish: kept unsent without a socket (NO_CONN), sent otherwise;
\* publish_command remembers the first kind only.
Publish(i) ==
  \/ /\ link = "down"
     /\ out' = out \cup {[id |-> i, state |-> "publish", dup |-> FALSE]}
     /\ tracked' = tracked \cup {i}
     /\ UNCHANGED toBroker
  \/ /\ link # "down"
     /\ out' = out \cup {[id |-> i, state |-> "wait", dup |-> FALSE]}
     /\ toBroker' = toBroker \cup {i}
     /\ UNCHANGED tracked

\* The guards of publish_command, in the loop's (late) view.
Reachable(s) == connected /\ caps[s] # "none" /\ s \in online

\* queue_command up to its wait: sign, then MQTT, an error at once, or the
\* poll queue.
Command(s) ==
  /\ s \in known
  /\ issued < MaxCommands /\ ~Exhausted
  /\ issued' = issued + 1
  /\ sentTo' = [sentTo EXCEPT ![s] = @ \cup {issued'}]
  /\ \/ /\ caps[s] = "signed"         \* no api_key to sign with, or too long
        /\ answer' = [answer EXCEPT ![issued'] = "error"]
        /\ UNCHANGED <<tracked, polls, out, toBroker>>
     \/ /\ Reachable(s)
        /\ answer' = [answer EXCEPT ![issued'] = "wait"]
        /\ Publish(NextId)
        /\ UNCHANGED polls
     \/ /\ ~Reachable(s)
        /\ caps[s] # "none"
        /\ answer' = [answer EXCEPT ![issued'] = "error"]
        /\ UNCHANGED <<tracked, polls, out, toBroker>>
     \/ /\ caps[s] = "none"
        /\ answer' = [answer EXCEPT ![issued'] = "wait"]
        /\ polls' = [polls EXCEPT ![s] = Append(@, NextId)]
        /\ UNCHANGED <<tracked, out, toBroker>>
  /\ UNCHANGED <<reply, known, caps, online, connected, callbacks, link, pubacks,
                 losses, session, nodes>>

-----------------------------------------------------------------------------
(* The edge: the end of a command.                                         *)

\* Mutant: a message that was on the wire before counts as never sent.
NeverSentOrDup(i) ==
  i \in tracked /\ \E m \in out : m.id = i /\ m.state = "publish"

\* What cancel_pending answers: paho still holds i, and never sent it.
NeverSent(i) ==
  i \in tracked /\ \E m \in out : m.id = i /\ m.state = "publish" /\ ~m.dup

\* Mutant: _pending_mids is cleaned, paho's own message is not.
ForgetsMidOnly(i) == tracked' = tracked \ {i} /\ UNCHANGED out

\* What cancel_pending does: a tracked message that paho has yet to send, or
\* to send again, is taken from it.
CancelPending(i) ==
  /\ tracked' = tracked \ {i}
  /\ out' = IF i \in tracked THEN {m \in out : m.id # i \/ m.state # "publish"}
            ELSE out

\* queue_command returns a to its caller; its finally drops the future.
Answer(i, a) ==
  /\ answer' = [answer EXCEPT ![i] = a]
  /\ CancelPending(i)
  /\ UNCHANGED <<issued, sentTo, reply, known, caps, online, connected, polls,
                 callbacks, link, toBroker, pubacks, losses, session, nodes>>

\* The future is set and the coroutine resumes.
Resume(i) ==
  /\ Awaited(i)
  /\ reply[i] # "none"
  /\ Answer(i, reply[i])

\* wait_for expires.  In Python 3.12 it also wins over a future that was set
\* in the same turn of the loop.
Timeout(i) ==
  /\ Awaited(i)
  /\ Answer(i, IF NeverSent(i) THEN "error" ELSE "unknown")

\* The task of the caller is cancelled.
Cancelled(i) ==
  /\ Awaited(i)
  /\ Answer(i, "gone")

\* Mutant: an ack answers the oldest command of its node.
OldestOf(e) == CHOOSE i \in sentTo[e.node] : \A j \in sentTo[e.node] : i <= j

\* The command a cmdack names.
AckedId(e) == e.id

\* node_ack_command, from a cmdack or from /node/v1/commands/ack: only for a
\* command still awaited, given for this very node, and not yet answered.
NodeAck(e) ==
  reply' = IF /\ Awaited(AckedId(e))
              /\ reply[AckedId(e)] = "none"
              /\ AckedId(e) \in sentTo[e.node]
           THEN [reply EXCEPT ![AckedId(e)] = e.outcome]
           ELSE reply

\* The loop runs the next call scheduled by paho's thread.
Callback ==
  /\ callbacks # << >>
  /\ LET e == Head(callbacks) IN
       \/ /\ e.type = "link"
          /\ connected' = e.up
          /\ UNCHANGED <<reply, online, caps>>
       \/ /\ e.type = "status"
          /\ online' = IF e.up THEN online \cup {e.node} ELSE online \ {e.node}
          /\ caps' = IF e.up
                     THEN [caps EXCEPT ![e.node] =
                             IF e.node \in Signers THEN "signed" ELSE "plain"]
                     ELSE caps
          /\ UNCHANGED <<reply, connected>>
       \/ /\ e.type = "ack"
          /\ NodeAck(e)
          /\ UNCHANGED <<online, caps, connected>>
  /\ callbacks' = Tail(callbacks)
  /\ UNCHANGED <<issued, sentTo, answer, known, tracked, polls, paho, session, nodes>>

\* Mutant: what is handed out stays in the queue.
KeepsFirst(s, k) == SubSeq(polls[s], k, Len(polls[s]))

\* What get_nowait() leaves of a poll queue once its entry k is taken.
Rest(s, k) == SubSeq(polls[s], k + 1, Len(polls[s]))

\* node_pull_command: skip what nobody awaits any more, hand out the first
\* that is awaited; the HTTP answer may be lost.
Poll(s) ==
  /\ s \in Pollers
  /\ polls[s] # << >>
  /\ LET live == {k \in DOMAIN polls[s] : Awaited(polls[s][k])} IN
       \/ /\ live = {}
          /\ polls' = [polls EXCEPT ![s] = << >>]
          /\ UNCHANGED atNode
       \/ \E k \in live :
            /\ \A j \in live : k <= j
            /\ polls' = [polls EXCEPT ![s] = Rest(s, k)]
            /\ \/ atNode' = [atNode EXCEPT ![s] = @ \cup {polls[s][k]}]
               \/ UNCHANGED atNode
  /\ UNCHANGED <<issued, sentTo, reply, answer, known, caps, online, connected,
                 tracked, callbacks, paho, session, present, did>>

-----------------------------------------------------------------------------
(* paho and the broker (external).                                         *)

LinkDrops ==
  /\ link # "down"
  /\ ~Exhausted
  /\ losses' = losses + 1
  /\ link' = "down"
  /\ toBroker' = {} /\ pubacks' = {}
  /\ callbacks' = Append(callbacks, [type |-> "link", up |-> FALSE])
  /\ UNCHANGED <<edge, out, session, nodes>>

\* reconnect(): what was on the wire is to be sent again, as a duplicate.
Connect ==
  /\ link = "down"
  /\ link' = "connecting"
  /\ out' = {[id |-> m.id, state |-> "publish", dup |-> m.dup \/ m.state = "wait"]
               : m \in out}
  /\ UNCHANGED <<edge, callbacks, toBroker, pubacks, losses, session, nodes>>

\* CONNACK: paho sends everything that is to be sent.
Connack ==
  /\ link = "connecting"
  /\ link' = "up"
  /\ out' = {[m EXCEPT !.state = "wait"] : m \in out}
  /\ toBroker' = toBroker \cup {m.id : m \in {n \in out : n.state = "publish"}}
  /\ callbacks' = Append(callbacks, [type |-> "link", up |-> TRUE])
  /\ UNCHANGED <<edge, pubacks, losses, session, nodes>>

\* The broker acknowledges a command and passes it to its node, if present:
\* the topic is not retained and the node has no lasting session.
BrokerTakes(s) ==
  /\ link = "up"
  /\ \E i \in toBroker \cap sentTo[s] :
       /\ toBroker' = toBroker \ {i}
       /\ pubacks' = pubacks \cup {i}
       /\ atNode' = IF s \in present THEN [atNode EXCEPT ![s] = @ \cup {i}] ELSE atNode
  /\ UNCHANGED <<edge, callbacks, link, out, losses, session, present, did>>

Puback ==
  /\ \E i \in pubacks :
       /\ pubacks' = pubacks \ {i}
       /\ out' = {m \in out : m.id # i}
  /\ UNCHANGED <<edge, callbacks, link, toBroker, losses, session, nodes>>

\* The edge's session delivers: on_message schedules _handle.
Deliver ==
  /\ link = "up"
  /\ session # << >>
  /\ callbacks' = Append(callbacks, Head(session))
  /\ session' = Tail(session)
  /\ UNCHANGED <<edge, paho, nodes>>

-----------------------------------------------------------------------------
(* The nodes (external).                                                   *)

\* A node runs a command and acknowledges it.  To the edge, an ack that is
\* lost is one that is still on its way when the command expires.
Run(s) ==
  /\ \E i \in atNode[s], r \in Outcome :
       LET ack == [type |-> "ack", node |-> s, id |-> i, outcome |-> r] IN
       /\ atNode' = [atNode EXCEPT ![s] = @ \ {i}]
       /\ did' = [did EXCEPT ![i] = @ \cup {r}]
       /\ \/ /\ s \in Pollers
             /\ callbacks' = Append(callbacks, ack)
             /\ UNCHANGED session
          \/ /\ s \notin Pollers
             /\ session' = Append(session, ack)
             /\ UNCHANGED callbacks
  /\ UNCHANGED <<edge, paho, present>>

\* A node loses the broker, which publishes its Last Will; what was on its
\* way to the node is lost.
NodeDrops(s) ==
  /\ s \in present
  /\ ~Exhausted
  /\ losses' = losses + 1
  /\ present' = present \ {s}
  /\ atNode' = [atNode EXCEPT ![s] = {}]
  /\ session' = Append(session, [type |-> "status", node |-> s, up |-> FALSE])
  /\ UNCHANGED <<edge, callbacks, link, out, toBroker, pubacks, did>>

NodeReturns(s) ==
  /\ s \in Nodes \ (Pollers \cup present)
  /\ present' = present \cup {s}
  /\ session' = Append(session, [type |-> "status", node |-> s, up |-> TRUE])
  /\ UNCHANGED <<edge, callbacks, paho, atNode, did>>

-----------------------------------------------------------------------------
Edge ==
  \/ Callback
  \/ \E s \in Nodes : Touch(s) \/ Command(s) \/ Poll(s)
  \/ \E i \in Ids : Resume(i) \/ Timeout(i) \/ Cancelled(i)

Broker == LinkDrops \/ Connect \/ Connack \/ Puback \/ Deliver

Next ==
  \/ Edge \/ Broker
  \/ \E s \in Nodes : BrokerTakes(s) \/ Run(s) \/ NodeDrops(s) \/ NodeReturns(s)

Spec == Init /\ [][Next]_vars

-----------------------------------------------------------------------------
(* Properties.                                                             *)

(***************************************************************************)
(* A command whose caller was told that it was not sent never runs: not    *)
(* now, not after a reconnect, not from the poll queue (manager.py:285-291 *)
(* and 298-301, "biết CHẮC là lệnh chưa đi").                              *)
(***************************************************************************)
SureErrorNeverRuns == \A i \in Ids : answer[i] = "error" => did[i] = {}

(***************************************************************************)
(* The outcome a caller gets is one the node reported for this command,    *)
(* though the acks of several commands come late, twice, out of order or   *)
(* after a timeout (manager.py:341-351).                                   *)
(***************************************************************************)
AnswerIsTrue == \A i \in Ids : answer[i] \in Outcome => answer[i] \in did[i]

(***************************************************************************)
(* What paho holds back without having sent it belongs to a command that   *)
(* is still awaited, and nothing is remembered of the others: however a    *)
(* command ends, its held message and its entry in _pending_mids are gone  *)
(* (manager.py:263-269, mqtt_consumer.py:486-512).                         *)
(***************************************************************************)
HeldIsAwaited ==
  /\ \A i \in tracked : Awaited(i)
  /\ \A m \in out : m.state = "publish" /\ ~m.dup => Awaited(m.id)

(***************************************************************************)
(* A polling node is handed its commands in the order they were given, and *)
(* each once: what it has with it or has run is older than what a poll     *)
(* brings it, however the answers to its polls were lost, whichever        *)
(* commands expired meanwhile, and though it polls again before its ack of *)
(* a command that is still awaited has been handled (manager.py:329-351).  *)
(***************************************************************************)
PolledInTurn ==
  [][\A s \in Pollers : \A i \in atNode'[s] \ atNode[s], j \in sentTo[s] :
        j \in atNode[s] \/ did[j] # {} => j < i]_vars

\* What the caller of command i has been told.
Told(i) ==
  CASE answer[i] \in {"idle", "wait"} -> "nothing"
    [] answer[i] = "error" -> "never"
    [] answer[i] \in {"unknown", "gone"} -> "unknown"
    [] OTHER -> answer[i]

Promise == INSTANCE CallPromise
  WITH Calls <- Ids, Outcomes <- Outcome,
       done <- did, told <- [i \in Ids |-> Told(i)]

(***************************************************************************)
(* Together: a caller is told once, of an outcome its command has had, or  *)
(* that it is unknown, or that the command was not sent, after which it is *)
(* not run any more; however the acks, the time-out, the reconnects of     *)
(* paho and the polls of a node are ordered (manager.py:254-309).          *)
(***************************************************************************)
CommandPromiseKept == Promise!Spec

(***************************************************************************)
(* Claim of mqtt_consumer.py:488-490: a command that has expired is taken  *)
(* back so that the node does not run late what its caller has been        *)
(* answered for.  So paho never puts a command on the wire whose caller    *)
(* has been answered.                                                      *)
(***************************************************************************)
NoLateSend == [][\A i \in toBroker' \ toBroker : answer'[i] = "wait"]_vars
=============================================================================
