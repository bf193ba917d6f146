-------------------------- MODULE NodeCommandProofs --------------------------
(***************************************************************************)
(* What the caller of queue_command may believe, for every set of nodes,   *)
(* pollers and signers among them, and any number of commands and losses   *)
(* of a connection.                                                        *)
(***************************************************************************)
EXTENDS NodeCommand, SequenceTheorems, TLAPS

-----------------------------------------------------------------------------
(* The inductive invariant.                                                *)

\* paho keeps a message of command i.
Has(i) == \E m \in out : m.id = i

\* Command i has left the edge: on the wire, on its way to a node, or run.
Left(i) ==
  \/ i \in toBroker
  \/ \E s \in Nodes : i \in atNode[s]
  \/ did[i] # {}

\* Command i is in a poll queue.
Queued(i) == \E s \in Nodes : \E k \in 1..Len(polls[s]) : polls[s][k] = i

\* Nothing is known anywhere of a command that was not given yet.
Fresh == \A i \in Ids : i > issued => i \notin tracked /\ ~Has(i) /\ ~Left(i) /\ ~Queued(i)

\* A command goes to paho once.
OneMessage == \A m, n \in out : m.id = n.id => m = n

\* _pending_mids names commands that are awaited.
Tracked == \A i \in tracked : Awaited(i)

\* A message that paho has never sent is tracked, has not left the edge, and is
\* not waiting to be polled either.
Unsent ==
  \A m \in out : m.state = "publish" /\ ~m.dup =>
    m.id \in tracked /\ ~Left(m.id) /\ ~Queued(m.id)

\* A command that ended as "error" is neither with paho nor on its way.
Sure == \A i \in Ids : answer[i] = "error" => ~Has(i) /\ ~Left(i)

\* The acks in q tell of runs that have been.
Truths(q) == \A k \in 1..Len(q) : q[k].type = "ack" => q[k].outcome \in did[q[k].id]

\* So do results and answers.
Truth ==
  /\ Truths(callbacks) /\ Truths(session)
  /\ \A i \in Ids : reply[i] # "none" => reply[i] \in did[i]
  /\ \A i \in Ids : answer[i] \in Outcome => answer[i] \in did[i]

IInv == TypeOK /\ Fresh /\ OneMessage /\ Tracked /\ Unsent /\ Sure /\ Truth

-----------------------------------------------------------------------------
(* Types.                                                                  *)

LEMMA TypeInit == Init => TypeOK
BY NodeCommandAssumption DEF Init, TypeOK, Ids, Outcome, Caps

\* A function keeps its type if a value of that type changes.
LEMMA ExceptIs ==
  ASSUME NEW S, NEW T, NEW f \in [S -> T], NEW x \in S, NEW v \in T
  PROVE  [f EXCEPT ![x] = v] \in [S -> T]
OBVIOUS

\* What is left of a queue after its first k entries.
LEMMA AfterFirst ==
  ASSUME NEW S, NEW q \in Seq(S), NEW k \in 1..Len(q)
  PROVE  /\ SubSeq(q, k + 1, Len(q)) \in Seq(S)
         /\ \A j \in 1..Len(SubSeq(q, k + 1, Len(q))) :
              SubSeq(q, k + 1, Len(q))[j] = q[j + k] /\ j + k \in 1..Len(q)
<1>1. \A j \in k + 1 .. Len(q) : q[j] \in S
  BY LenProperties, ElementOfSeq
<1>. QED
  BY <1>1, SubSeqProperties, LenProperties

\* What is appended comes last, and nothing else changes.
LEMMA AppendIs ==
  ASSUME NEW S, NEW q \in Seq(S), NEW e \in S
  PROVE  /\ Append(q, e) \in Seq(S)
         /\ Len(Append(q, e)) = Len(q) + 1
         /\ \A k \in 1..Len(q) + 1 : Append(q, e)[k] = IF k <= Len(q) THEN q[k] ELSE e
OBVIOUS

\* The messages paho makes of a message.
LEMMA Messages ==
  /\ \A m \in Message : m.id \in Ids /\ m.state \in {"publish", "wait"} /\ m.dup \in BOOLEAN
  /\ \A i \in Ids, st \in {"publish", "wait"}, d \in BOOLEAN :
       [id |-> i, state |-> st, dup |-> d] \in Message
  /\ \A m \in Message : /\ [m EXCEPT !.state = "wait"] \in Message
                       /\ [m EXCEPT !.state = "wait"].id = m.id
                       /\ [m EXCEPT !.state = "wait"].state = "wait"
BY DEF Message

\* A poll drops what nobody awaits, and what it hands out is awaited.
LEMMA PollIs ==
  ASSUME NEW s \in Nodes, Poll(s)
  PROVE  \/ polls' = [polls EXCEPT ![s] = << >>] /\ UNCHANGED atNode
         \/ \E k \in DOMAIN polls[s] :
              /\ Awaited(polls[s][k])
              /\ polls' = [polls EXCEPT ![s] = SubSeq(polls[s], k + 1, Len(polls[s]))]
              /\ \/ atNode' = [atNode EXCEPT ![s] = atNode[s] \cup {polls[s][k]}]
                 \/ UNCHANGED atNode
BY DEF Poll, Rest

\* A run is reported with its outcome.
LEMMA RunIs ==
  ASSUME NEW s \in Nodes, Run(s)
  PROVE  \E i \in atNode[s], r \in Outcome : \E ack :
           /\ ack = [type |-> "ack", node |-> s, id |-> i, outcome |-> r]
           /\ atNode' = [atNode EXCEPT ![s] = atNode[s] \ {i}]
           /\ did' = [did EXCEPT ![i] = did[i] \cup {r}]
           /\ \/ callbacks' = Append(callbacks, ack) /\ UNCHANGED session
              \/ session' = Append(session, ack) /\ UNCHANGED callbacks
<1>. DEFINE Ack(i, r) == [type |-> "ack", node |-> s, id |-> i, outcome |-> r]
<1>1. PICK i \in atNode[s], r \in Outcome :
        /\ atNode' = [atNode EXCEPT ![s] = atNode[s] \ {i}]
        /\ did' = [did EXCEPT ![i] = did[i] \cup {r}]
        /\ \/ callbacks' = Append(callbacks, Ack(i, r)) /\ UNCHANGED session
           \/ session' = Append(session, Ack(i, r)) /\ UNCHANGED callbacks
  BY DEF Run
<1>. QED
  BY <1>1

\* The end of a command, of any kind.
LEMMA TypeAnswer ==
  ASSUME TypeOK, NEW i \in Ids, NEW a \in Outcome \cup {"error", "unknown", "gone"},
         Answer(i, a)
  PROVE  TypeOK'
<1>1. answer' \in [Ids -> Outcome \cup {"idle", "wait", "error", "unknown", "gone"}]
  BY DEF Answer, TypeOK
<1>2. tracked' \subseteq tracked /\ out' \subseteq out
  BY DEF Answer, CancelPending
<1>. QED
  BY <1>1, <1>2 DEF Answer, TypeOK, nodes

LEMMA TypeStep == TypeOK /\ [Next]_vars => TypeOK'
<1>. SUFFICES ASSUME TypeOK, [Next]_vars PROVE TypeOK'
  OBVIOUS
<1>. USE NodeCommandAssumption
<1>1. CASE Callback
  <2>1. Head(callbacks) \in Event /\ Tail(callbacks) \in Seq(Event)
    BY <1>1, HeadTailProperties DEF Callback, TypeOK
  <2>2. CASE Head(callbacks).type = "link"
    BY <1>1, <2>1, <2>2 DEF Callback, TypeOK, Event, paho, nodes
  <2>3. CASE Head(callbacks).type = "status"
    BY <1>1, <2>1, <2>3 DEF Callback, TypeOK, Event, Caps, paho, nodes
  <2>4. CASE Head(callbacks).type = "ack"
    BY <1>1, <2>1, <2>4 DEF Callback, TypeOK, Event, NodeAck, AckedId, paho, nodes
  <2>. QED
    BY <2>1, <2>2, <2>3, <2>4 DEF Event
<1>2. ASSUME NEW s \in Nodes, Touch(s) PROVE TypeOK'
  <2>1. [type |-> "status", node |-> s, up |-> TRUE] \in Event
    BY DEF Event
  <2>2. session' \in Seq(Event)
    BY <1>2, <2>1, AppendIs DEF Touch, TypeOK
  <2>. QED
    BY <1>2, <2>2 DEF Touch, TypeOK, paho, nodes
<1>3. ASSUME NEW s \in Nodes, Command(s) PROVE TypeOK'
  <2>1. issued' = NextId /\ NextId \in Ids
    BY <1>3 DEF Command, TypeOK, NextId, Ids
  <2>2. polls' \in [Nodes -> Seq(Ids)]
    <3>1. polls' = polls \/ polls' = [polls EXCEPT ![s] = Append(polls[s], NextId)]
      BY <1>3 DEF Command
    <3>2. polls \in [Nodes -> Seq(Ids)]
      BY DEF TypeOK
    <3>3. Append(polls[s], NextId) \in Seq(Ids)
      BY <2>1, <3>2, AppendIs
    <3>. QED
      BY <3>1, <3>2, <3>3, ExceptIs
  <2>3. out' \subseteq Message /\ toBroker' \subseteq Ids /\ tracked' \subseteq Ids
    <3>1. CASE Publish(NextId)
      <4>1. [id |-> NextId, state |-> "publish", dup |-> FALSE] \in Message
            /\ [id |-> NextId, state |-> "wait", dup |-> FALSE] \in Message
        BY <2>1, Messages
      <4>. QED
        BY <3>1, <4>1, <2>1 DEF Publish, TypeOK
    <3>2. CASE UNCHANGED <<tracked, out, toBroker>>
      BY <3>2 DEF TypeOK
    <3>. QED
      BY <1>3, <3>1, <3>2 DEF Command
  <2>4. answer' \in [Ids -> Outcome \cup {"idle", "wait", "error", "unknown", "gone"}]
    BY <1>3, <2>1 DEF Command, TypeOK
  <2>5. issued' \in 0..MaxCommands /\ sentTo' \in [Nodes -> SUBSET Ids]
    BY <1>3, <2>1 DEF Command, TypeOK, Ids
  <2>. QED
    BY <1>3, <2>2, <2>3, <2>4, <2>5 DEF Command, TypeOK, nodes
<1>4. ASSUME NEW s \in Nodes, Poll(s) PROVE TypeOK'
  <2>1. \A k \in DOMAIN polls[s] : polls[s][k] \in Ids
                                   /\ SubSeq(polls[s], k + 1, Len(polls[s])) \in Seq(Ids)
    BY AfterFirst, LenProperties, ElementOfSeq DEF TypeOK
  <2>2. polls' \in [Nodes -> Seq(Ids)] /\ atNode' \in [Nodes -> SUBSET Ids]
    <3>1. CASE polls' = [polls EXCEPT ![s] = << >>] /\ UNCHANGED atNode
      BY <3>1 DEF TypeOK
    <3>2. ASSUME NEW k \in DOMAIN polls[s],
                 polls' = [polls EXCEPT ![s] = SubSeq(polls[s], k + 1, Len(polls[s]))],
                 \/ atNode' = [atNode EXCEPT ![s] = atNode[s] \cup {polls[s][k]}]
                 \/ UNCHANGED atNode
          PROVE  polls' \in [Nodes -> Seq(Ids)] /\ atNode' \in [Nodes -> SUBSET Ids]
      <4>1. polls[s][k] \in Ids /\ SubSeq(polls[s], k + 1, Len(polls[s])) \in Seq(Ids)
        BY <2>1
      <4>2. polls' \in [Nodes -> Seq(Ids)]
        BY <3>2, <4>1 DEF TypeOK
      <4>3. atNode' \in [Nodes -> SUBSET Ids]
        <5>1. atNode \in [Nodes -> SUBSET Ids]
          BY DEF TypeOK
        <5>2. atNode[s] \cup {polls[s][k]} \in SUBSET Ids
          BY <5>1, <4>1
        <5>. QED
          BY <3>2, <5>1, <5>2, ExceptIs
      <4>. QED
        BY <4>2, <4>3
    <3>. QED
      BY <1>4, <3>1, <3>2, PollIs
  <2>. QED
    BY <1>4, <2>2 DEF Poll, TypeOK, paho
<1>5. ASSUME NEW i \in Ids, Resume(i) PROVE TypeOK'
  BY <1>5, TypeAnswer DEF Resume, TypeOK
<1>6. ASSUME NEW i \in Ids, Timeout(i) PROVE TypeOK'
  BY <1>6, TypeAnswer DEF Timeout
<1>7. ASSUME NEW i \in Ids, Cancelled(i) PROVE TypeOK'
  BY <1>7, TypeAnswer DEF Cancelled
<1>8. CASE LinkDrops
  <2>1. [type |-> "link", up |-> FALSE] \in Event
    BY DEF Event
  <2>2. callbacks' \in Seq(Event)
    BY <1>8, <2>1, AppendIs DEF LinkDrops, TypeOK
  <2>. QED
    BY <1>8, <2>2 DEF LinkDrops, Exhausted, TypeOK, edge, nodes
<1>9. CASE Connect
  <2>1. ASSUME NEW m \in out
        PROVE  [id |-> m.id, state |-> "publish", dup |-> m.dup \/ m.state = "wait"] \in Message
    <3>1. m.id \in Ids /\ (m.dup \/ m.state = "wait") \in BOOLEAN
      BY Messages DEF TypeOK
    <3>. QED
      BY <3>1, Messages
  <2>2. out' \subseteq Message
    BY <1>9, <2>1 DEF Connect
  <2>. QED
    BY <1>9, <2>2 DEF Connect, TypeOK, edge, nodes
<1>10. CASE Connack
  <2>1. [type |-> "link", up |-> TRUE] \in Event
    BY DEF Event
  <2>2. callbacks' \in Seq(Event)
    BY <1>10, <2>1, AppendIs DEF Connack, TypeOK
  <2>3. out' \subseteq Message /\ toBroker' \subseteq Ids
    BY <1>10, Messages DEF Connack, TypeOK
  <2>. QED
    BY <1>10, <2>2, <2>3 DEF Connack, TypeOK, edge, nodes
<1>11. CASE Puback
  BY <1>11 DEF Puback, TypeOK, edge, nodes
<1>12. CASE Deliver
  <2>1. Head(session) \in Event /\ Tail(session) \in Seq(Event)
    BY <1>12, HeadTailProperties DEF Deliver, TypeOK
  <2>2. callbacks' \in Seq(Event)
    BY <1>12, <2>1, AppendIs DEF Deliver, TypeOK
  <2>. QED
    BY <1>12, <2>1, <2>2 DEF Deliver, TypeOK, edge, paho, nodes
<1>13. ASSUME NEW s \in Nodes, BrokerTakes(s) PROVE TypeOK'
  BY <1>13 DEF BrokerTakes, TypeOK, edge
<1>14. ASSUME NEW s \in Nodes, Run(s) PROVE TypeOK'
  <2>0. PICK i \in atNode[s], r \in Outcome : \E ack :
          /\ ack = [type |-> "ack", node |-> s, id |-> i, outcome |-> r]
          /\ atNode' = [atNode EXCEPT ![s] = atNode[s] \ {i}]
          /\ did' = [did EXCEPT ![i] = did[i] \cup {r}]
          /\ \/ callbacks' = Append(callbacks, ack) /\ UNCHANGED session
             \/ session' = Append(session, ack) /\ UNCHANGED callbacks
    BY <1>14, RunIs
  <2>1. PICK ack :
          /\ ack = [type |-> "ack", node |-> s, id |-> i, outcome |-> r]
          /\ atNode' = [atNode EXCEPT ![s] = atNode[s] \ {i}]
          /\ did' = [did EXCEPT ![i] = did[i] \cup {r}]
          /\ \/ callbacks' = Append(callbacks, ack) /\ UNCHANGED session
             \/ session' = Append(session, ack) /\ UNCHANGED callbacks
    BY <2>0
  <2>2. ack \in Event
    BY <2>1 DEF Event, TypeOK
  <2>3. callbacks' \in Seq(Event) /\ session' \in Seq(Event)
    <3>1. callbacks \in Seq(Event) /\ session \in Seq(Event)
      BY DEF TypeOK
    <3>2. Append(callbacks, ack) \in Seq(Event) /\ Append(session, ack) \in Seq(Event)
      BY <2>2, <3>1, AppendIs
    <3>. QED
      BY <2>1, <3>1, <3>2
  <2>4. atNode' \in [Nodes -> SUBSET Ids] /\ did' \in [Ids -> SUBSET Outcome]
    <3>1. i \in Ids /\ did \in [Ids -> SUBSET Outcome] /\ atNode \in [Nodes -> SUBSET Ids]
      BY DEF TypeOK
    <3>2. did[i] \cup {r} \in SUBSET Outcome /\ atNode[s] \ {i} \in SUBSET Ids
      BY <3>1
    <3>. QED
      BY <2>1, <3>1, <3>2, ExceptIs
  <2>5. UNCHANGED <<edge, paho, present>>
    BY <1>14 DEF Run
  <2>. QED
    BY <2>3, <2>4, <2>5 DEF TypeOK, edge, paho
<1>15. ASSUME NEW s \in Nodes, NodeDrops(s) PROVE TypeOK'
  <2>1. [type |-> "status", node |-> s, up |-> FALSE] \in Event
    BY DEF Event
  <2>2. session' \in Seq(Event)
    BY <1>15, <2>1, AppendIs DEF NodeDrops, TypeOK
  <2>. QED
    BY <1>15, <2>2 DEF NodeDrops, Exhausted, TypeOK, edge
<1>16. ASSUME NEW s \in Nodes, NodeReturns(s) PROVE TypeOK'
  <2>1. [type |-> "status", node |-> s, up |-> TRUE] \in Event
    BY DEF Event
  <2>2. session' \in Seq(Event)
    BY <1>16, <2>1, AppendIs DEF NodeReturns, TypeOK
  <2>. QED
    BY <1>16, <2>2 DEF NodeReturns, TypeOK, edge, paho
<1>17. CASE UNCHANGED vars
  BY <1>17 DEF TypeOK, vars, edge, paho, nodes
<1>. QED
  BY <1>1, <1>2, <1>3, <1>4, <1>5, <1>6, <1>7, <1>8, <1>9, <1>10, <1>11, <1>12, <1>13,
     <1>14, <1>15, <1>16, <1>17 DEF Next, Edge, Broker

-----------------------------------------------------------------------------
(* Where a command is.                                                     *)

\* Every step but the giving of a command.
Other == [Next]_vars /\ ~(\E s \in Nodes : Command(s))

\* Only a poll moves a queue, and it makes no command appear in one.
LEMMA QueuesShrink ==
  ASSUME TypeOK, NEW s \in Nodes, Poll(s), NEW j \in Ids
  PROVE  /\ Queued(j)' => Queued(j)
         /\ Left(j)' => Left(j) \/ (Queued(j) /\ Awaited(j))
<1>0. polls \in [Nodes -> Seq(Ids)] /\ atNode \in [Nodes -> SUBSET Ids]
  BY DEF TypeOK
<1>1. UNCHANGED <<toBroker, did>>
  BY DEF Poll, paho
<1>2. CASE polls' = [polls EXCEPT ![s] = << >>] /\ UNCHANGED atNode
  BY <1>0, <1>1, <1>2 DEF Queued, Left
<1>3. ASSUME NEW k \in DOMAIN polls[s],
             Awaited(polls[s][k]),
             polls' = [polls EXCEPT ![s] = SubSeq(polls[s], k + 1, Len(polls[s]))],
             \/ atNode' = [atNode EXCEPT ![s] = atNode[s] \cup {polls[s][k]}]
             \/ UNCHANGED atNode
      PROVE  /\ Queued(j)' => Queued(j)
             /\ Left(j)' => Left(j) \/ (Queued(j) /\ Awaited(j))
  <2>1. k \in 1..Len(polls[s])
    BY <1>0, LenProperties
  <2>2. \A n \in 1..Len(polls'[s]) : \E m \in 1..Len(polls[s]) : polls'[s][n] = polls[s][m]
    <3>1. polls[s] \in Seq(Ids) /\ polls'[s] = SubSeq(polls[s], k + 1, Len(polls[s]))
      BY <1>0, <1>3
    <3>. DEFINE q == polls[s]
    <3>2. \A n \in 1..Len(SubSeq(q, k + 1, Len(q))) :
            SubSeq(q, k + 1, Len(q))[n] = q[n + k] /\ n + k \in 1..Len(q)
      <4>. HIDE DEF q
      <4>. QED
        BY <2>1, <3>1, AfterFirst DEF q
    <3>. QED
      BY <3>1, <3>2
  <2>3. \A t \in Nodes : t # s => polls'[t] = polls[t]
    BY <1>0, <1>3
  <2>4. Queued(j)' => Queued(j)
    BY <2>2, <2>3 DEF Queued
  <2>5. \A t \in Nodes : j \in atNode'[t] => j \in atNode[t] \/ j = polls[s][k]
    <3>1. CASE atNode' = [atNode EXCEPT ![s] = atNode[s] \cup {polls[s][k]}]
      BY <1>0, <3>1
    <3>2. CASE UNCHANGED atNode
      BY <3>2
    <3>. QED
      BY <1>3, <3>1, <3>2
  <2>6. Left(j)' => Left(j) \/ j = polls[s][k]
    BY <1>1, <2>5 DEF Left
  <2>. QED
    BY <1>3, <2>1, <2>4, <2>6 DEF Queued
<1>. QED
  BY <1>2, <1>3, PollIs

\* A command leaves when a poll takes it, while it is awaited, or when paho
\* sends what it has.
LEMMA WhereFrom ==
  ASSUME TypeOK, Other, NEW j \in Ids
  PROVE  /\ Has(j)' => Has(j)
         /\ Queued(j)' => Queued(j)
         /\ Left(j)' => Left(j) \/ (Queued(j) /\ Awaited(j)) \/ (Connack /\ Has(j))
<1>. USE DEF Has, Left, Queued
<1>1. CASE Callback
  BY <1>1 DEF Callback, paho, nodes
<1>2. ASSUME NEW s \in Nodes, Touch(s)
      PROVE  (Has(j)' => Has(j)) /\ (Queued(j)' => Queued(j)) /\ (Left(j)' => Left(j))
  BY <1>2 DEF Touch, paho, nodes
<1>4. ASSUME NEW s \in Nodes, Poll(s)
      PROVE  /\ Has(j)' => Has(j)
             /\ Queued(j)' => Queued(j)
             /\ Left(j)' => Left(j) \/ (Queued(j) /\ Awaited(j))
  BY <1>4, QueuesShrink DEF Poll, paho
<1>5. ASSUME NEW i \in Ids, Resume(i) \/ Timeout(i) \/ Cancelled(i)
      PROVE  (Has(j)' => Has(j)) /\ (Queued(j)' => Queued(j)) /\ (Left(j)' => Left(j))
  BY <1>5 DEF Resume, Timeout, Cancelled, Answer, CancelPending, nodes
<1>6. CASE LinkDrops
  BY <1>6 DEF LinkDrops, edge, nodes
<1>7. CASE Connect
  BY <1>7 DEF Connect, edge, nodes
<1>8. CASE Connack
  <2>1. ASSUME NEW m \in out' PROVE \E n \in out : m.id = n.id
    <3>1. PICK n \in out : m = [n EXCEPT !.state = "wait"]
      BY <1>8 DEF Connack
    <3>2. n \in Message
      BY DEF TypeOK
    <3>. QED
      BY <3>1, <3>2, Messages
  <2>. QED
    BY <1>8, <2>1 DEF Connack, edge, nodes
<1>9. CASE Puback
  BY <1>9 DEF Puback, edge, nodes
<1>10. CASE Deliver
  BY <1>10 DEF Deliver, edge, paho, nodes
<1>11. ASSUME NEW s \in Nodes, BrokerTakes(s)
       PROVE  (Has(j)' => Has(j)) /\ (Queued(j)' => Queued(j)) /\ (Left(j)' => Left(j))
  BY <1>11 DEF BrokerTakes, edge, TypeOK
<1>12. ASSUME NEW s \in Nodes, Run(s)
       PROVE  (Has(j)' => Has(j)) /\ (Queued(j)' => Queued(j)) /\ (Left(j)' => Left(j))
  BY <1>12 DEF Run, edge, paho, TypeOK
<1>13. ASSUME NEW s \in Nodes, NodeDrops(s) \/ NodeReturns(s)
       PROVE  (Has(j)' => Has(j)) /\ (Queued(j)' => Queued(j)) /\ (Left(j)' => Left(j))
  BY <1>13 DEF NodeDrops, NodeReturns, edge, paho, TypeOK
<1>14. CASE UNCHANGED vars
  BY <1>14 DEF vars, edge, paho, nodes
<1>. QED
  BY <1>1, <1>2, <1>4, <1>5, <1>6, <1>7, <1>8, <1>9, <1>10, <1>11, <1>12, <1>13, <1>14
     DEF Other, Next, Edge, Broker

\* A new command has its own number, and is an error at once, with paho, or in
\* a poll queue.
LEMMA NewCommand ==
  ASSUME TypeOK, Fresh, NEW s \in Nodes, Command(s), NEW i, i = NextId
  PROVE  /\ i \in Ids /\ i > issued /\ issued' = i
         /\ i \notin tracked /\ tracked' \subseteq tracked \cup {i}
         /\ \A j \in Ids : j # i =>
              /\ Has(j)' => Has(j)
              /\ Queued(j)' => Queued(j)
              /\ Left(j)' => Left(j)
              /\ answer'[j] = answer[j]
         /\ \/ ~Has(i)' /\ ~Left(i)' /\ tracked' = tracked /\ out' = out
               /\ answer'[i] = "error"
            \/ Publish(i) /\ ~Queued(i)' /\ answer'[i] = "wait"
            \/ ~Has(i)' /\ tracked' = tracked /\ out' = out
               /\ answer'[i] = "wait"
<1>1. i \in Ids /\ i > issued /\ issued' = i
  BY NodeCommandAssumption DEF Command, NextId, Ids, TypeOK
<1>2. i \notin tracked /\ ~Has(i) /\ ~Left(i) /\ ~Queued(i)
  BY <1>1 DEF Fresh
<1>3. answer \in [Ids -> Outcome \cup {"idle", "wait", "error", "unknown", "gone"}]
  BY DEF TypeOK
<1>4. UNCHANGED nodes
  BY DEF Command
<1>5. CASE answer' = [answer EXCEPT ![issued'] = "error"]
           /\ UNCHANGED <<tracked, polls, out, toBroker>>
  <2>1. \A j \in Ids : (Has(j)' <=> Has(j)) /\ (Queued(j)' <=> Queued(j)) /\ (Left(j)' <=> Left(j))
    BY <1>4, <1>5 DEF Has, Left, Queued, nodes
  <2>2. answer'[i] = "error" /\ \A j \in Ids : j # i => answer'[j] = answer[j]
    BY <1>1, <1>3, <1>5
  <2>. QED
    BY <1>1, <1>2, <1>5, <2>1, <2>2
<1>6. CASE answer' = [answer EXCEPT ![issued'] = "wait"] /\ Publish(i) /\ UNCHANGED polls
  <2>1. \A j \in Ids : j # i => (Has(j)' => Has(j))
    BY <1>6 DEF Publish, Has
  <2>2. \A j \in Ids : j # i => (Left(j)' => Left(j))
    BY <1>4, <1>6 DEF Publish, Left, nodes
  <2>3. \A j \in Ids : Queued(j)' => Queued(j)
    BY <1>6 DEF Queued
  <2>4. answer'[i] = "wait" /\ \A j \in Ids : j # i => answer'[j] = answer[j]
    BY <1>1, <1>3, <1>6
  <2>5. tracked' \subseteq tracked \cup {i}
    BY <1>6 DEF Publish
  <2>. QED
    BY <1>1, <1>2, <1>6, <2>1, <2>2, <2>3, <2>4, <2>5
<1>7. CASE /\ answer' = [answer EXCEPT ![issued'] = "wait"]
           /\ polls' = [polls EXCEPT ![s] = Append(polls[s], i)]
           /\ UNCHANGED <<tracked, out, toBroker>>
  <2>1. polls \in [Nodes -> Seq(Ids)]
    BY DEF TypeOK
  <2>2. \A n \in 1..Len(polls'[s]) :
          polls'[s][n] = i \/ \E m \in 1..Len(polls[s]) : polls'[s][n] = polls[s][m]
    BY <1>1, <1>7, <2>1, AppendIs, LenProperties
  <2>3. \A t \in Nodes : t # s => polls'[t] = polls[t]
    BY <1>7, <2>1
  <2>4. \A j \in Ids : j # i => (Queued(j)' => Queued(j))
    BY <2>2, <2>3 DEF Queued
  <2>5. \A j \in Ids : (Has(j)' <=> Has(j)) /\ (Left(j)' <=> Left(j))
    BY <1>4, <1>7 DEF Has, Left, nodes
  <2>6. answer'[i] = "wait" /\ \A j \in Ids : j # i => answer'[j] = answer[j]
    BY <1>1, <1>3, <1>7
  <2>. QED
    BY <1>1, <1>2, <1>7, <2>4, <2>5, <2>6
<1>. QED
  BY <1>1, <1>5, <1>6, <1>7 DEF Command

-----------------------------------------------------------------------------
(* Each part of the invariant is kept.                                     *)

LEMMA FreshStep == TypeOK /\ Fresh /\ [Next]_vars => Fresh'
<1>. SUFFICES ASSUME TypeOK, Fresh, [Next]_vars, NEW j \in Ids, j > issued'
              PROVE  j \notin tracked' /\ ~Has(j)' /\ ~Left(j)' /\ ~Queued(j)'
  BY DEF Fresh, Ids
<1>1. ASSUME NEW s \in Nodes, Command(s)
      PROVE  j \notin tracked' /\ ~Has(j)' /\ ~Left(j)' /\ ~Queued(j)'
  <2>1. PICK i : i = NextId
    OBVIOUS
  <2>2. i \in Ids /\ i > issued /\ issued' = i
    BY <1>1, <2>1, NewCommand
  <2>3. j # i /\ j > issued
    BY <2>2 DEF TypeOK, Ids
  <2>. QED
    BY <1>1, <2>1, <2>3, NewCommand DEF Fresh
<1>2. CASE Other
  <2>1. issued' = issued
    BY <1>2 DEF Other, Next, Edge, Broker, vars, edge, Callback, Touch, Poll, Resume, Timeout,
       Cancelled, Answer, LinkDrops, Connect, Connack, Puback, Deliver, BrokerTakes, Run,
       NodeDrops, NodeReturns
  <2>2. j \notin tracked /\ ~Has(j) /\ ~Left(j) /\ ~Queued(j)
    BY <2>1 DEF Fresh
  <2>3. tracked' \subseteq tracked
    BY <1>2 DEF Other, Next, Edge, Broker, vars, edge, Callback, Touch, Poll, Resume, Timeout,
       Cancelled, Answer, CancelPending, LinkDrops, Connect, Connack, Puback, Deliver,
       BrokerTakes, Run, NodeDrops, NodeReturns
  <2>. QED
    BY <1>2, <2>2, <2>3, WhereFrom
<1>. QED
  BY <1>1, <1>2 DEF Other

LEMMA OneMessageStep == TypeOK /\ Fresh /\ OneMessage /\ [Next]_vars => OneMessage'
<1>. SUFFICES ASSUME TypeOK, Fresh, OneMessage, [Next]_vars PROVE OneMessage'
  OBVIOUS
<1>1. ASSUME NEW s \in Nodes, Command(s) PROVE OneMessage'
  <2>1. PICK i : i = NextId
    OBVIOUS
  <2>2. i \in Ids /\ i > issued
    BY <1>1, <2>1, NewCommand
  <2>3. ~Has(i)
    BY <2>2 DEF Fresh
  <2>4. CASE Publish(i)
    <3>1. ASSUME NEW n, n.id = i, out' = out \cup {n} PROVE OneMessage'
      BY <2>3, <3>1 DEF Has, OneMessage
    <3>2. /\ [id |-> i, state |-> "publish", dup |-> FALSE].id = i
          /\ [id |-> i, state |-> "wait", dup |-> FALSE].id = i
      OBVIOUS
    <3>. QED
      BY <2>4, <3>1, <3>2 DEF Publish
  <2>. QED
    BY <1>1, <2>1, <2>4 DEF Command, OneMessage
<1>2. ASSUME NEW i \in Ids, Resume(i) \/ Timeout(i) \/ Cancelled(i) PROVE OneMessage'
  BY <1>2 DEF Resume, Timeout, Cancelled, Answer, CancelPending, OneMessage
<1>3. CASE Connect
  BY <1>3 DEF Connect, OneMessage
<1>4. CASE Connack
  <2>1. \A m \in out : [m EXCEPT !.state = "wait"].id = m.id
    BY Messages DEF TypeOK
  <2>2. ASSUME NEW m \in out', NEW n \in out', m.id = n.id PROVE m = n
    <3>1. PICK p \in out, q \in out :
            m = [p EXCEPT !.state = "wait"] /\ n = [q EXCEPT !.state = "wait"]
      BY <1>4 DEF Connack
    <3>2. p = q
      BY <2>1, <2>2, <3>1 DEF OneMessage
    <3>. QED
      BY <3>1, <3>2
  <2>. QED
    BY <2>2 DEF OneMessage
<1>5. CASE Puback
  BY <1>5 DEF Puback, OneMessage
<1>6. CASE out' = out
  BY <1>6 DEF OneMessage
<1>. QED
  BY <1>1, <1>2, <1>3, <1>4, <1>5, <1>6
     DEF Next, Edge, Broker, vars, paho, Callback, Touch, Poll, LinkDrops, Deliver,
         BrokerTakes, Run, NodeDrops, NodeReturns

\* How a command ends.
LEMMA Ending ==
  ASSUME TypeOK, NEW i \in Ids, Resume(i) \/ Timeout(i) \/ Cancelled(i)
  PROVE  /\ CancelPending(i)
         /\ \A j \in Ids : j # i => answer'[j] = answer[j]
         /\ answer'[i] = "error" => NeverSent(i)
         /\ answer'[i] \in Outcome => reply[i] # "none" /\ answer'[i] = reply[i]
         /\ UNCHANGED <<reply, did, callbacks, session>>
BY DEF Resume, Timeout, Cancelled, Answer, TypeOK, nodes, Outcome

LEMMA TrackedStep == TypeOK /\ Fresh /\ Tracked /\ [Next]_vars => Tracked'
<1>. SUFFICES ASSUME TypeOK, Fresh, Tracked, [Next]_vars PROVE Tracked'
  OBVIOUS
<1>1. ASSUME NEW s \in Nodes, Command(s) PROVE Tracked'
  <2>1. PICK i : i = NextId
    OBVIOUS
  <2>2. tracked' \subseteq tracked \/ (answer'[i] = "wait" /\ tracked' \subseteq tracked \cup {i})
    BY <1>1, <2>1, NewCommand DEF Publish
  <2>3. \A j \in Ids : j # i => answer'[j] = answer[j]
    BY <1>1, <2>1, NewCommand
  <2>4. \A j \in tracked : j \in Ids /\ answer[j] = "wait"
    BY DEF TypeOK, Tracked, Awaited
  <2>5. i \notin tracked
    BY <1>1, <2>1, NewCommand
  <2>. QED
    BY <2>2, <2>3, <2>4, <2>5 DEF Tracked, Awaited
<1>2. ASSUME NEW i \in Ids, Resume(i) \/ Timeout(i) \/ Cancelled(i) PROVE Tracked'
  <2>1. tracked' = tracked \ {i}
    BY <1>2, Ending DEF CancelPending
  <2>. QED
    BY <1>2, <2>1, Ending DEF Tracked, Awaited, TypeOK
<1>3. CASE UNCHANGED <<tracked, answer>>
  BY <1>3 DEF Tracked, Awaited
<1>. QED
  BY <1>1, <1>2, <1>3
     DEF Next, Edge, Broker, vars, edge, Callback, Touch, Poll, LinkDrops, Connect, Connack,
         Puback, Deliver, BrokerTakes, Run, NodeDrops, NodeReturns

\* A message that was never sent is still where it was given to paho.
LEMMA UnsentFrom ==
  ASSUME TypeOK, Other, NEW m \in out', m.state = "publish", ~m.dup
  PROVE  m \in out /\ ~Connack
<1>1. CASE Connack
  <2>1. PICK n \in out : m = [n EXCEPT !.state = "wait"]
    BY <1>1 DEF Connack
  <2>. QED
    BY <2>1, Messages DEF TypeOK
<1>2. CASE Connect
  <2>1. PICK n \in out : m = [id |-> n.id, state |-> "publish", dup |-> n.dup \/ n.state = "wait"]
    BY <1>2 DEF Connect
  <2>2. n \in Message /\ ~n.dup /\ n.state # "wait"
    BY <2>1 DEF TypeOK
  <2>3. n = [id |-> n.id, state |-> "publish", dup |-> FALSE]
    BY <2>2 DEF Message
  <2>. QED
    BY <1>2, <2>1, <2>2, <2>3 DEF Connect, Connack
<1>3. CASE out' \subseteq out /\ ~Connack
  BY <1>3
<1>. QED
  BY <1>1, <1>2, <1>3
     DEF Other, Next, Edge, Broker, vars, paho, Callback, Touch, Poll, Resume, Timeout,
         Cancelled, Answer, CancelPending, LinkDrops, Puback, Deliver, BrokerTakes, Run,
         NodeDrops, NodeReturns

LEMMA UnsentStep == IInv /\ [Next]_vars => Unsent'
<1>. SUFFICES ASSUME IInv, [Next]_vars,
                     NEW m \in out', m.state = "publish", ~m.dup
              PROVE  m.id \in tracked' /\ ~Left(m.id)' /\ ~Queued(m.id)'
  BY DEF Unsent
<1>. USE DEF IInv
<1>1. ASSUME NEW s \in Nodes, Command(s)
      PROVE  m.id \in tracked' /\ ~Left(m.id)' /\ ~Queued(m.id)'
  <2>1. PICK i : i = NextId
    OBVIOUS
  <2>2. CASE m.id = i
    <3>1. Publish(i) /\ ~Queued(i)'
      BY <1>1, <2>1, <2>2, NewCommand DEF Has
    <3>2. i \in Ids /\ i > issued
      BY <1>1, <2>1, NewCommand
    <3>3. ~Has(i) /\ ~Left(i)
      BY <3>2 DEF Fresh
    <3>4. link = "down"
      BY <2>2, <3>1, <3>3 DEF Publish, Has
    <3>. QED
      BY <1>1, <2>2, <3>1, <3>3, <3>4 DEF Publish, Left, Command, nodes
  <2>3. CASE m.id # i
    <3>1. m \in out /\ tracked \subseteq tracked'
      BY <1>1, <2>1, <2>3, NewCommand DEF Publish
    <3>2. m.id \in Ids
      BY <3>1, Messages DEF TypeOK
    <3>. QED
      BY <1>1, <2>1, <2>3, <3>1, <3>2, NewCommand DEF Unsent
  <2>. QED
    BY <2>2, <2>3
<1>2. CASE Other
  <2>1. m \in out /\ ~Connack /\ m.id \in Ids
    BY <1>2, UnsentFrom, Messages DEF TypeOK
  <2>2. m.id \in tracked /\ ~Left(m.id) /\ ~Queued(m.id)
    BY <2>1 DEF Unsent
  <2>3. ~Left(m.id)' /\ ~Queued(m.id)'
    BY <1>2, <2>1, <2>2, WhereFrom
  <2>4. m.id \in tracked'
    <3>1. ASSUME NEW i \in Ids, Resume(i) \/ Timeout(i) \/ Cancelled(i) PROVE m.id \in tracked'
      <4>1. m.id # i
        BY <2>2, <3>1, Ending DEF CancelPending
      <4>. QED
        BY <2>2, <3>1, <4>1, Ending DEF CancelPending
    <3>2. CASE tracked' = tracked
      BY <2>2, <3>2
    <3>. QED
      BY <1>2, <3>1, <3>2
         DEF Other, Next, Edge, Broker, vars, edge, Callback, Touch, Poll, LinkDrops, Connect,
             Connack, Puback, Deliver, BrokerTakes, Run, NodeDrops, NodeReturns
  <2>. QED
    BY <2>2, <2>3, <2>4
<1>. QED
  BY <1>1, <1>2 DEF Other

LEMMA SureStep == IInv /\ [Next]_vars => Sure'
<1>. SUFFICES ASSUME IInv, [Next]_vars, NEW j \in Ids, answer'[j] = "error"
              PROVE  ~Has(j)' /\ ~Left(j)'
  BY DEF Sure
<1>. USE DEF IInv
<1>1. ASSUME NEW s \in Nodes, Command(s) PROVE ~Has(j)' /\ ~Left(j)'
  <2>1. PICK i : i = NextId
    OBVIOUS
  <2>. QED
    BY <1>1, <2>1, NewCommand DEF Sure
<1>2. CASE Other
  <2>1. CASE answer[j] = "error"
    BY <1>2, <2>1, WhereFrom DEF Sure, Awaited
  <2>2. CASE answer[j] # "error"
    <3>1. Resume(j) \/ Timeout(j) \/ Cancelled(j)
      BY <1>2, <2>2, Ending
         DEF Other, Next, Edge, Broker, vars, edge, Callback, Touch, Poll, LinkDrops, Connect,
             Connack, Puback, Deliver, BrokerTakes, Run, NodeDrops, NodeReturns
    <3>2. NeverSent(j) /\ CancelPending(j)
      BY <3>1, Ending
    <3>3. PICK m \in out : m.id = j /\ m.state = "publish" /\ ~m.dup
      BY <3>2 DEF NeverSent
    <3>4. ~Left(j) /\ ~Queued(j)
      BY <3>3 DEF Unsent
    <3>5. ~Has(j)'
      BY <3>2, <3>3 DEF CancelPending, NeverSent, OneMessage, Has
    <3>6. ~Connack
      BY <2>2 DEF Connack, edge
    <3>. QED
      BY <1>2, <3>4, <3>5, <3>6, WhereFrom
  <2>. QED
    BY <2>1, <2>2
<1>. QED
  BY <1>1, <1>2 DEF Other

\* What a node has reported is never taken back.
LEMMA OutcomesStay ==
  ASSUME TypeOK, [Next]_vars, NEW i \in Ids
  PROVE  did[i] \subseteq did'[i]
<1>1. ASSUME NEW s \in Nodes, Run(s) PROVE did[i] \subseteq did'[i]
  <2>1. PICK j \in atNode[s], r \in Outcome : did' = [did EXCEPT ![j] = did[j] \cup {r}]
    BY <1>1, RunIs
  <2>2. did \in [Ids -> SUBSET Outcome]
    BY DEF TypeOK
  <2>. QED
    BY <2>1, <2>2
<1>2. CASE did' = did
  BY <1>2
<1>. QED
  BY <1>1, <1>2
     DEF Next, Edge, Broker, vars, nodes, Callback, Touch, Command, Poll, Resume, Timeout,
         Cancelled, Answer, LinkDrops, Connect, Connack, Puback, Deliver, BrokerTakes,
         NodeDrops, NodeReturns

\* The acks of a queue stay true when another is appended that is true.
LEMMA TruthsAppend ==
  ASSUME NEW q \in Seq(Event), NEW e \in Event, Truths(q),
         e.type = "ack" => e.outcome \in did[e.id]
  PROVE  Truths(Append(q, e))
<1>1. \A k \in 1..Len(Append(q, e)) :
        (k \in 1..Len(q) /\ Append(q, e)[k] = q[k]) \/ Append(q, e)[k] = e
  BY AppendIs, LenProperties
<1>. QED
  BY <1>1 DEF Truths

\* And when the first is taken out.
LEMMA TruthsTail ==
  ASSUME NEW q \in Seq(Event), q # << >>, Truths(q)
  PROVE  /\ Truths(Tail(q))
         /\ Head(q).type = "ack" => Head(q).outcome \in did[Head(q).id]
<1>1. \A k \in 1..Len(Tail(q)) : Tail(q)[k] = q[k + 1] /\ k + 1 \in 1..Len(q)
  BY HeadTailProperties, LenProperties
<1>2. Head(q) = q[1] /\ 1 \in 1..Len(q)
  BY LenProperties, EmptySeq
<1>. QED
  BY <1>1, <1>2 DEF Truths

\* And whatever the nodes do.
LEMMA TruthsStay ==
  ASSUME TypeOK, [Next]_vars, NEW q \in Seq(Event), Truths(q)
  PROVE  \A k \in 1..Len(q) : q[k].type = "ack" => q[k].outcome \in did'[q[k].id]
<1>1. ASSUME NEW k \in 1..Len(q), q[k].type = "ack" PROVE q[k].outcome \in did'[q[k].id]
  <2>1. q[k] \in Event
    BY ElementOfSeq
  <2>2. q[k].id \in Ids
    BY <1>1, <2>1 DEF Event
  <2>3. q[k].outcome \in did[q[k].id]
    BY <1>1 DEF Truths
  <2>. QED
    BY <2>2, <2>3, OutcomesStay
<1>. QED
  BY <1>1

\* Every event a step puts into a queue tells the truth.
LEMMA QueuesStep == TypeOK /\ Truth /\ [Next]_vars => Truths(callbacks)' /\ Truths(session)'
<1>. SUFFICES ASSUME TypeOK, Truth, [Next]_vars PROVE Truths(callbacks)' /\ Truths(session)'
  OBVIOUS
<1>. USE DEF Truth
<1>0. callbacks \in Seq(Event) /\ session \in Seq(Event)
  BY DEF TypeOK
<1>1. ASSUME NEW s \in Nodes, Run(s) PROVE Truths(callbacks)' /\ Truths(session)'
  <2>0. PICK i \in atNode[s], r \in Outcome : \E ack :
          /\ ack = [type |-> "ack", node |-> s, id |-> i, outcome |-> r]
          /\ did' = [did EXCEPT ![i] = did[i] \cup {r}]
          /\ \/ callbacks' = Append(callbacks, ack) /\ UNCHANGED session
             \/ session' = Append(session, ack) /\ UNCHANGED callbacks
    BY <1>1, RunIs
  <2>1. PICK ack :
          /\ ack = [type |-> "ack", node |-> s, id |-> i, outcome |-> r]
          /\ did' = [did EXCEPT ![i] = did[i] \cup {r}]
          /\ \/ callbacks' = Append(callbacks, ack) /\ UNCHANGED session
             \/ session' = Append(session, ack) /\ UNCHANGED callbacks
    BY <2>0
  <2>2. i \in Ids /\ ack.id = i /\ ack.outcome = r /\ ack \in Event
    BY <2>1 DEF TypeOK, Event
  <2>3. r \in did'[i]
    BY <2>1, <2>2 DEF TypeOK
  <2>4. ASSUME NEW q \in Seq(Event), Truths(q)
        PROVE  \A k \in 1..Len(Append(q, ack)) : Append(q, ack)[k].type = "ack"
                 => Append(q, ack)[k].outcome \in did'[Append(q, ack)[k].id]
    <3>1. \A k \in 1..Len(q) : q[k].type = "ack" => q[k].outcome \in did'[q[k].id]
      BY <2>4, TruthsStay
    <3>2. \A k \in 1..Len(Append(q, ack)) :
            (k \in 1..Len(q) /\ Append(q, ack)[k] = q[k]) \/ Append(q, ack)[k] = ack
      BY <2>2, AppendIs, LenProperties
    <3>. QED
      BY <2>2, <2>3, <3>1, <3>2
  <2>5. ASSUME NEW q \in Seq(Event), Truths(q)
        PROVE  \A k \in 1..Len(q) : q[k].type = "ack" => q[k].outcome \in did'[q[k].id]
    BY <2>5, TruthsStay
  <2>. QED
    BY <1>0, <2>1, <2>4, <2>5 DEF Truths
<1>2. CASE Callback
  BY <1>0, <1>2, TruthsTail DEF Callback, nodes, Truths
<1>3. CASE Deliver
  <2>1. Head(session) \in Event
    BY <1>0, <1>3, HeadTailProperties DEF Deliver
  <2>2. Truths(Append(callbacks, Head(session))) /\ Truths(Tail(session))
    BY <1>0, <1>3, <2>1, TruthsTail, TruthsAppend DEF Deliver
  <2>. QED
    BY <1>3, <2>2 DEF Deliver, nodes, Truths
<1>4. ASSUME NEW e \in Event, e.type # "ack", UNCHANGED did,
             \/ UNCHANGED callbacks \/ callbacks' = Append(callbacks, e),
             \/ UNCHANGED session \/ session' = Append(session, e)
      PROVE  Truths(callbacks)' /\ Truths(session)'
  <2>1. Truths(Append(callbacks, e)) /\ Truths(Append(session, e))
    BY <1>0, <1>4, TruthsAppend
  <2>. QED
    BY <1>4, <2>1 DEF Truths
<1>5. /\ \A up \in BOOLEAN : [type |-> "link", up |-> up] \in Event
      /\ \A s \in Nodes, up \in BOOLEAN : [type |-> "status", node |-> s, up |-> up] \in Event
  BY DEF Event
<1>6. ASSUME NEW s \in Nodes, Touch(s) \/ NodeDrops(s) \/ NodeReturns(s)
      PROVE  Truths(callbacks)' /\ Truths(session)'
  BY <1>4, <1>5, <1>6 DEF Touch, NodeDrops, NodeReturns, edge, paho, nodes
<1>7. CASE LinkDrops \/ Connack
  BY <1>4, <1>5, <1>7 DEF LinkDrops, Connack, edge, nodes
<1>8. CASE UNCHANGED <<callbacks, session, did>>
  BY <1>8 DEF Truths
<1>. QED
  BY <1>1, <1>2, <1>3, <1>6, <1>7, <1>8
     DEF Next, Edge, Broker, vars, edge, paho, nodes, Command, Poll, Resume, Timeout,
         Cancelled, Answer, Connect, Puback, BrokerTakes

LEMMA TruthStep == TypeOK /\ Truth /\ [Next]_vars => Truth'
<1>. SUFFICES ASSUME TypeOK, Truth, [Next]_vars PROVE Truth'
  OBVIOUS
<1>1. Truths(callbacks)' /\ Truths(session)'
  BY QueuesStep
<1>2. ASSUME NEW i \in Ids, reply'[i] # "none" PROVE reply'[i] \in did'[i]
  <2>1. CASE reply'[i] = reply[i]
    BY <1>2, <2>1, OutcomesStay DEF Truth
  <2>2. CASE reply'[i] # reply[i]
    <3>1. Callback
      BY <2>2
         DEF Next, Edge, Broker, vars, edge, Touch, Command, Poll, Resume, Timeout, Cancelled,
             Answer, LinkDrops, Connect, Connack, Puback, Deliver, BrokerTakes, Run,
             NodeDrops, NodeReturns
    <3>2. callbacks \in Seq(Event) /\ callbacks # << >> /\ Truths(callbacks)
      BY <3>1 DEF Callback, TypeOK, Truth
    <3>3. PICK e : e = Head(callbacks)
      OBVIOUS
    <3>4. e.type = "ack" /\ NodeAck(e)
      BY <2>2, <3>1, <3>3 DEF Callback
    <3>5. e.outcome \in did[e.id]
      BY <3>2, <3>3, <3>4, TruthsTail
    <3>6. e.id = i /\ reply'[i] = e.outcome
      BY <2>2, <3>4 DEF NodeAck, AckedId, TypeOK
    <3>. QED
      BY <3>5, <3>6, OutcomesStay
  <2>. QED
    BY <2>1, <2>2
<1>3. ASSUME NEW i \in Ids, answer'[i] \in Outcome PROVE answer'[i] \in did'[i]
  <2>1. CASE answer'[i] = answer[i]
    BY <1>3, <2>1, OutcomesStay DEF Truth
  <2>2. CASE answer'[i] # answer[i]
    <3>1. \A s \in Nodes : ~Command(s)
      BY <1>3, <2>2 DEF Command, TypeOK, Outcome
    <3>2. PICK j \in Ids : Resume(j) \/ Timeout(j) \/ Cancelled(j)
      BY <2>2, <3>1
         DEF Next, Edge, Broker, vars, edge, Callback, Touch, Poll, LinkDrops, Connect,
             Connack, Puback, Deliver, BrokerTakes, Run, NodeDrops, NodeReturns
    <3>3. j = i /\ reply[i] # "none" /\ answer'[i] = reply[i]
      BY <1>3, <2>2, <3>2, Ending
    <3>. QED
      BY <3>3, OutcomesStay DEF Truth
  <2>. QED
    BY <2>1, <2>2
<1>. QED
  BY <1>1, <1>2, <1>3 DEF Truth

-----------------------------------------------------------------------------
(* The theorems.                                                           *)

LEMMA Initially == Init => IInv
<1>. SUFFICES ASSUME Init PROVE IInv
  OBVIOUS
<1>1. Fresh /\ OneMessage /\ Tracked /\ Unsent
  BY DEF Init, Fresh, OneMessage, Tracked, Unsent, Has, Left, Queued
<1>2. Sure /\ Truth
  BY DEF Init, Sure, Truth, Truths, Outcome
<1>. QED
  BY <1>1, <1>2, TypeInit DEF IInv

(***************************************************************************)
(* All of the above holds always.                                          *)
(***************************************************************************)
THEOREM CommandInductive == Spec => []IInv
<1>1. IInv /\ [Next]_vars => IInv'
  BY TypeStep, FreshStep, OneMessageStep, TrackedStep, UnsentStep, SureStep, TruthStep DEF IInv
<1>. QED
  BY <1>1, Initially, PTL DEF Spec

(***************************************************************************)
(* Every variable of the edge, of paho, of the broker and of the nodes     *)
(* keeps its type.                                                         *)
(***************************************************************************)
THEOREM CommandTyped == Spec => []TypeOK
BY CommandInductive, PTL DEF IInv

(***************************************************************************)
(* A command whose caller was told "error" has not run and never will,     *)
(* whatever paho sends again and whoever polls.                            *)
(***************************************************************************)
THEOREM ErrorMeansNeverRun == Spec => []SureErrorNeverRuns
<1>1. IInv => SureErrorNeverRuns
  BY DEF IInv, Sure, Left, SureErrorNeverRuns
<1>. QED
  BY <1>1, CommandInductive, PTL

(***************************************************************************)
(* What a caller is told of the outcome of its command, a node has         *)
(* reported of this very command.                                          *)
(***************************************************************************)
THEOREM OutcomeIsReported == Spec => []AnswerIsTrue
<1>1. IInv => AnswerIsTrue
  BY DEF IInv, Truth, AnswerIsTrue
<1>. QED
  BY <1>1, CommandInductive, PTL

(***************************************************************************)
(* No command that has ended leaves an unsent message with paho, or its    *)
(* number in _pending_mids.                                                *)
(***************************************************************************)
THEOREM NothingHeldBack == Spec => []HeldIsAwaited
<1>1. IInv => HeldIsAwaited
  BY DEF IInv, Tracked, Unsent, HeldIsAwaited
<1>. QED
  BY <1>1, CommandInductive, PTL

-----------------------------------------------------------------------------
(* The poll queues.                                                        *)

\* A command belongs to one node, and is queued for, or with, no other.
Owned ==
  /\ \A s \in Nodes : \A i \in sentTo[s] : i <= issued
  /\ \A s, t \in Nodes : s # t => sentTo[s] \cap sentTo[t] = {}
  /\ \A s \in Nodes : atNode[s] \subseteq sentTo[s]
  /\ \A s \in Nodes : \A k \in 1..Len(polls[s]) : polls[s][k] \in sentTo[s]

\* A poller has, or has run, command i.
Had(s, i) == i \in atNode[s] \/ did[i] # {}

\* A poll queue is in the order its commands were given.
Rising(q) == \A k, l \in 1..Len(q) : k < l => q[k] < q[l]

\* It is, and all that was handed out of it is older than what is in it.
InTurn ==
  \A s \in Pollers :
    /\ Rising(polls[s])
    /\ \A i \in sentTo[s] : Had(s, i) => \A k \in 1..Len(polls[s]) : i < polls[s][k]

LEMMA QueueTypes ==
  ASSUME TypeOK
  PROVE  /\ issued \in Nat
         /\ sentTo \in [Nodes -> SUBSET Ids] /\ atNode \in [Nodes -> SUBSET Ids]
         /\ polls \in [Nodes -> Seq(Ids)]
         /\ \A s \in Nodes : \A k \in 1..Len(polls[s]) : polls[s][k] \in Ids
         /\ Ids \subseteq Nat
<1>1. polls \in [Nodes -> Seq(Ids)]
  BY DEF TypeOK
<1>2. \A s \in Nodes : \A k \in 1..Len(polls[s]) : polls[s][k] \in Ids
  BY <1>1, ElementOfSeq
<1>3. issued \in Nat /\ Ids \subseteq Nat
  BY NodeCommandAssumption DEF TypeOK, Ids
<1>. QED
  BY <1>1, <1>2, <1>3 DEF TypeOK

\* What a new command does to the queues.
LEMMA CommandQueues ==
  ASSUME TypeOK, NEW s \in Nodes, Command(s)
  PROVE  /\ issued' = NextId /\ NextId \in Ids /\ NextId > issued
         /\ sentTo' = [sentTo EXCEPT ![s] = sentTo[s] \cup {NextId}]
         /\ UNCHANGED <<atNode, did>>
         /\ \/ polls' = polls
            \/ polls' = [polls EXCEPT ![s] = Append(polls[s], NextId)]
BY NodeCommandAssumption DEF Command, NextId, Ids, TypeOK, nodes

\* What a poll does to them.
LEMMA PollQueues ==
  ASSUME TypeOK, NEW s \in Nodes, Poll(s)
  PROVE  /\ UNCHANGED <<issued, sentTo, did>>
         /\ \/ polls' = [polls EXCEPT ![s] = << >>] /\ UNCHANGED atNode
            \/ \E k \in 1..Len(polls[s]) :
                 /\ polls' = [polls EXCEPT ![s] = SubSeq(polls[s], k + 1, Len(polls[s]))]
                 /\ \/ atNode' = [atNode EXCEPT ![s] = atNode[s] \cup {polls[s][k]}]
                    \/ UNCHANGED atNode
<1>1. DOMAIN polls[s] = 1..Len(polls[s])
  BY LenProperties DEF TypeOK
<1>. QED
  BY <1>1, PollIs DEF Poll

\* Nothing new comes to s, unless it has its commands from the broker.
ArrivesAt(s) ==
  \/ atNode'[s] \subseteq atNode[s]
  \/ s \notin Pollers /\ atNode'[s] \subseteq sentTo[s]

\* What all other steps do to them.
LEMMA OtherQueues ==
  ASSUME TypeOK, Owned, [Next]_vars,
         ~(\E s \in Nodes : Command(s) \/ Poll(s))
  PROVE  /\ UNCHANGED <<issued, sentTo, polls>>
         /\ \/ UNCHANGED did /\ \A s \in Nodes : ArrivesAt(s)
            \/ \E s \in Nodes, i \in Ids :
                 /\ i \in atNode[s] /\ i \in sentTo[s]
                 /\ \A t \in Nodes : atNode'[t] \subseteq atNode[t]
                 /\ \A j \in Ids : j # i => did'[j] = did[j]
<1>0. atNode \in [Nodes -> SUBSET Ids] /\ did \in [Ids -> SUBSET Outcome]
      /\ Pollers \cap present = {}
  BY NodeCommandAssumption DEF TypeOK
<1>1. ASSUME NEW s \in Nodes, BrokerTakes(s)
      PROVE  UNCHANGED <<issued, sentTo, polls, did>>
             /\ \A t \in Nodes : ArrivesAt(t)
  <2>1. PICK i \in toBroker \cap sentTo[s] :
          atNode' = IF s \in present THEN [atNode EXCEPT ![s] = atNode[s] \cup {i}] ELSE atNode
    BY <1>1 DEF BrokerTakes
  <2>2. UNCHANGED <<issued, sentTo, polls, did>>
    BY <1>1 DEF BrokerTakes, edge, nodes
  <2>3. CASE s \in present
    BY <1>0, <2>1, <2>2, <2>3 DEF Owned, ArrivesAt
  <2>4. CASE s \notin present
    BY <2>1, <2>2, <2>4 DEF ArrivesAt
  <2>. QED
    BY <2>3, <2>4
<1>2. ASSUME NEW s \in Nodes, Run(s)
      PROVE  /\ UNCHANGED <<issued, sentTo, polls>>
             /\ \E i \in Ids :
                  /\ i \in atNode[s] /\ i \in sentTo[s]
                  /\ \A t \in Nodes : atNode'[t] \subseteq atNode[t]
                  /\ \A j \in Ids : j # i => did'[j] = did[j]
  <2>1. PICK i \in atNode[s], r \in Outcome :
          /\ atNode' = [atNode EXCEPT ![s] = atNode[s] \ {i}]
          /\ did' = [did EXCEPT ![i] = did[i] \cup {r}]
    BY <1>2, RunIs
  <2>2. i \in Ids /\ i \in sentTo[s]
    BY <1>0, <2>1 DEF Owned
  <2>. QED
    BY <1>0, <1>2, <2>1, <2>2 DEF Run, edge
<1>3. ASSUME NEW s \in Nodes, NodeDrops(s)
      PROVE  UNCHANGED <<issued, sentTo, polls, did>>
             /\ \A t \in Nodes : ArrivesAt(t)
  BY <1>0, <1>3 DEF NodeDrops, edge, ArrivesAt
<1>4. CASE UNCHANGED <<issued, sentTo, polls, did, atNode>>
  BY <1>4 DEF ArrivesAt
<1>. QED
  BY <1>1, <1>2, <1>3, <1>4
     DEF Next, Edge, Broker, vars, edge, nodes, Callback, Touch, Resume, Timeout,
         Cancelled, Answer, LinkDrops, Connect, Connack, Puback, Deliver, NodeReturns

LEMMA OwnedStep == TypeOK /\ Owned /\ [Next]_vars => Owned'
<1>. SUFFICES ASSUME TypeOK, Owned, [Next]_vars PROVE Owned'
  OBVIOUS
<1>0. /\ issued \in Nat /\ Ids \subseteq Nat
      /\ sentTo \in [Nodes -> SUBSET Ids] /\ atNode \in [Nodes -> SUBSET Ids]
      /\ polls \in [Nodes -> Seq(Ids)]
  BY QueueTypes
<1>1. ASSUME NEW s \in Nodes, Command(s) PROVE Owned'
  <2>1. PICK n : n = NextId
    OBVIOUS
  <2>2. /\ issued' = n /\ n \in Ids /\ n > issued
        /\ sentTo' = [sentTo EXCEPT ![s] = sentTo[s] \cup {n}]
        /\ UNCHANGED atNode
        /\ \/ polls' = polls
           \/ polls' = [polls EXCEPT ![s] = Append(polls[s], n)]
    BY <1>1, <2>1, CommandQueues
  <2>3. /\ sentTo'[s] = sentTo[s] \cup {n}
        /\ \A t \in Nodes : t # s => sentTo'[t] = sentTo[t]
    BY <1>0, <2>2
  <2>4. \A t \in Nodes : n \notin sentTo[t]
    BY <1>0, <2>2 DEF Owned
  <2>5. \A t \in Nodes : \A i \in sentTo'[t] : i <= issued'
    BY <1>0, <2>2, <2>3 DEF Owned
  <2>6. \A t, u \in Nodes : t # u => sentTo'[t] \cap sentTo'[u] = {}
    BY <2>3, <2>4 DEF Owned
  <2>7. \A t \in Nodes : atNode'[t] \subseteq sentTo'[t]
    BY <2>2, <2>3 DEF Owned
  <2>8. ASSUME NEW t \in Nodes, NEW k \in 1..Len(polls'[t]) PROVE polls'[t][k] \in sentTo'[t]
    <3>1. CASE polls'[t] = polls[t]
      BY <2>3, <2>8, <3>1 DEF Owned
    <3>2. CASE t = s /\ polls'[t] = Append(polls[s], n)
      <4>1. Len(Append(polls[s], n)) = Len(polls[s]) + 1
            /\ \A m \in 1..Len(polls[s]) + 1 :
                 Append(polls[s], n)[m] = IF m <= Len(polls[s]) THEN polls[s][m] ELSE n
        BY <1>0, <2>2, AppendIs
      <4>2. polls'[t][k] = n \/ (k \in 1..Len(polls[s]) /\ polls'[t][k] = polls[s][k])
        BY <1>0, <2>8, <3>2, <4>1, LenProperties
      <4>. QED
        BY <2>3, <3>2, <4>2 DEF Owned
    <3>. QED
      BY <1>0, <2>2, <3>1, <3>2
  <2>. QED
    BY <2>5, <2>6, <2>7, <2>8 DEF Owned
<1>2. ASSUME NEW s \in Nodes, Poll(s) PROVE Owned'
  <2>1. UNCHANGED <<issued, sentTo>>
    BY <1>2, PollQueues
  <2>2. CASE polls' = [polls EXCEPT ![s] = << >>] /\ UNCHANGED atNode
    BY <1>0, <2>1, <2>2 DEF Owned
  <2>3. ASSUME NEW k \in 1..Len(polls[s]),
               polls' = [polls EXCEPT ![s] = SubSeq(polls[s], k + 1, Len(polls[s]))],
               \/ atNode' = [atNode EXCEPT ![s] = atNode[s] \cup {polls[s][k]}]
               \/ UNCHANGED atNode
        PROVE  Owned'
    <3>1. PICK q \in Seq(Ids) : q = polls[s]
      BY <1>0
    <3>2. \A j \in 1..Len(SubSeq(q, k + 1, Len(q))) :
            SubSeq(q, k + 1, Len(q))[j] = q[j + k] /\ j + k \in 1..Len(q)
      BY <2>3, <3>1, AfterFirst
    <3>3. ASSUME NEW t \in Nodes, NEW j \in 1..Len(polls'[t]) PROVE polls'[t][j] \in sentTo[t]
      <4>1. CASE t = s
        <5>1. polls'[t] = SubSeq(q, k + 1, Len(q))
          BY <1>0, <2>3, <3>1, <4>1
        <5>2. polls'[t][j] = q[j + k] /\ j + k \in 1..Len(q)
          BY <3>2, <3>3, <5>1
        <5>. QED
          BY <3>1, <4>1, <5>2 DEF Owned
      <4>2. CASE t # s
        BY <1>0, <2>3, <3>3, <4>2 DEF Owned
      <4>. QED
        BY <4>1, <4>2
    <3>4. \A t \in Nodes : atNode'[t] \subseteq sentTo[t]
      <4>1. polls[s][k] \in sentTo[s]
        BY <2>3 DEF Owned
      <4>2. \A t \in Nodes : atNode[t] \subseteq sentTo[t]
        BY DEF Owned
      <4>3. CASE atNode' = [atNode EXCEPT ![s] = atNode[s] \cup {polls[s][k]}]
        BY <1>0, <4>1, <4>2, <4>3
      <4>. QED
        BY <2>3, <4>2, <4>3
    <3>. QED
      BY <2>1, <3>3, <3>4 DEF Owned
  <2>. QED
    BY <1>2, <2>2, <2>3, PollQueues
<1>3. CASE ~(\E s \in Nodes : Command(s) \/ Poll(s))
  <2>1. /\ UNCHANGED <<issued, sentTo, polls>>
        /\ \A t \in Nodes : atNode'[t] \subseteq atNode[t] \/ atNode'[t] \subseteq sentTo[t]
    BY <1>3, OtherQueues DEF ArrivesAt
  <2>. QED
    BY <2>1 DEF Owned
<1>. QED
  BY <1>1, <1>2, <1>3

LEMMA InTurnStep == TypeOK /\ Fresh /\ Owned /\ InTurn /\ [Next]_vars => InTurn'
<1>. SUFFICES ASSUME TypeOK, Fresh, Owned, InTurn, [Next]_vars, NEW t \in Pollers
              PROVE  /\ Rising(polls'[t])
                     /\ \A i \in sentTo'[t] :
                          Had(t, i)' => \A k \in 1..Len(polls'[t]) : i < polls'[t][k]
  BY DEF InTurn
<1>0. /\ issued \in Nat /\ Ids \subseteq Nat
      /\ sentTo \in [Nodes -> SUBSET Ids] /\ atNode \in [Nodes -> SUBSET Ids]
      /\ polls \in [Nodes -> Seq(Ids)]
      /\ \A s \in Nodes : \A k \in 1..Len(polls[s]) : polls[s][k] \in Ids
      /\ t \in Nodes
  BY QueueTypes, NodeCommandAssumption
<1>01. /\ Rising(polls[t])
       /\ \A i \in sentTo[t] : Had(t, i) => \A k \in 1..Len(polls[t]) : i < polls[t][k]
  BY DEF InTurn
<1>1. ASSUME NEW s \in Nodes, Command(s)
      PROVE  /\ Rising(polls'[t])
             /\ \A i \in sentTo'[t] :
                  Had(t, i)' => \A k \in 1..Len(polls'[t]) : i < polls'[t][k]
  <2>1. PICK n : n = NextId
    OBVIOUS
  <2>2. /\ issued' = n /\ n \in Ids /\ n > issued
        /\ sentTo' = [sentTo EXCEPT ![s] = sentTo[s] \cup {n}]
        /\ UNCHANGED <<atNode, did>>
        /\ \/ polls' = polls
           \/ polls' = [polls EXCEPT ![s] = Append(polls[s], n)]
    BY <1>1, <2>1, CommandQueues
  <2>3. ~Left(n)
    BY <2>2 DEF Fresh
  <2>4. ASSUME NEW i \in sentTo'[t], Had(t, i)' PROVE i \in sentTo[t] /\ Had(t, i)
    <3>1. Had(t, i)
      BY <2>2, <2>4 DEF Had
    <3>2. i # n
      BY <1>0, <2>3, <3>1 DEF Had, Left
    <3>. QED
      BY <1>0, <2>2, <3>1, <3>2
  <2>5. CASE polls'[t] = polls[t]
    BY <1>01, <2>4, <2>5
  <2>6. CASE polls'[t] = Append(polls[t], n)
    <3>1. PICK q \in Seq(Ids) : q = polls[t]
      BY <1>0
    <3>2. /\ Len(Append(q, n)) = Len(q) + 1
          /\ \A k \in 1..Len(q) + 1 : Append(q, n)[k] = IF k <= Len(q) THEN q[k] ELSE n
      BY <2>2, AppendIs
    <3>3. \A k \in 1..Len(q) : q[k] \in Nat /\ q[k] < n
      <4>1. \A k \in 1..Len(q) : q[k] \in Nat /\ q[k] <= issued
        BY <1>0, <3>1 DEF Owned
      <4>. QED
        BY <1>0, <2>2, <4>1
    <3>4. Len(q) \in Nat
      BY LenProperties
    <3>5. Rising(Append(q, n))
      <4>1. \A k, l \in 1..Len(q) : k < l => q[k] < q[l]
        BY <1>01, <3>1 DEF Rising
      <4>2. ASSUME NEW k \in 1..Len(q) + 1, NEW l \in 1..Len(q) + 1, k < l
            PROVE  Append(q, n)[k] < Append(q, n)[l]
        <5>1. k \in 1..Len(q) /\ Append(q, n)[k] = q[k]
          BY <3>2, <3>4, <4>2
        <5>2. CASE l <= Len(q)
          BY <3>2, <3>4, <4>1, <4>2, <5>1, <5>2
        <5>3. CASE ~(l <= Len(q))
          BY <3>2, <3>3, <5>1, <5>3
        <5>. QED
          BY <5>2, <5>3
      <4>. QED
        BY <3>2, <4>2 DEF Rising
    <3>6. ASSUME NEW i \in sentTo'[t], Had(t, i)', NEW k \in 1..Len(q) + 1
          PROVE  i < Append(q, n)[k]
      <4>1. i \in sentTo[t] /\ Had(t, i)
        BY <2>4, <3>6
      <4>2. CASE k <= Len(q)
        BY <1>01, <3>1, <3>2, <3>4, <4>1, <4>2
      <4>3. CASE ~(k <= Len(q))
        <5>1. Append(q, n)[k] = n
          BY <3>2, <4>3
        <5>2. i \in Nat /\ i <= issued
          BY <1>0, <4>1 DEF Owned
        <5>. QED
          BY <1>0, <2>2, <5>1, <5>2
      <4>. QED
        BY <4>2, <4>3
    <3>. QED
      BY <2>6, <3>1, <3>2, <3>5, <3>6
  <2>. QED
    BY <1>0, <2>2, <2>5, <2>6
<1>2. ASSUME NEW s \in Nodes, Poll(s)
      PROVE  /\ Rising(polls'[t])
             /\ \A i \in sentTo'[t] :
                  Had(t, i)' => \A k \in 1..Len(polls'[t]) : i < polls'[t][k]
  <2>1. UNCHANGED <<sentTo, did>>
    BY <1>2, PollQueues
  <2>2. CASE polls'[t] = polls[t] /\ atNode'[t] = atNode[t]
    BY <1>01, <2>1, <2>2 DEF Had
  <2>3. CASE polls'[t] = << >>
    BY <2>3 DEF Rising
  <2>4. ASSUME NEW k \in 1..Len(polls[t]),
               polls'[t] = SubSeq(polls[t], k + 1, Len(polls[t])),
               atNode'[t] \subseteq atNode[t] \cup {polls[t][k]}
        PROVE  /\ Rising(polls'[t])
               /\ \A i \in sentTo'[t] :
                    Had(t, i)' => \A l \in 1..Len(polls'[t]) : i < polls'[t][l]
    <3>1. PICK q \in Seq(Ids) : q = polls[t]
      BY <1>0
    <3>2. PICK r : r = SubSeq(q, k + 1, Len(q))
      OBVIOUS
    <3>3. \A l \in 1..Len(r) : r[l] = q[l + k] /\ l + k \in 1..Len(q)
      BY <2>4, <3>1, <3>2, AfterFirst
    <3>4. r \in Seq(Ids) /\ Len(r) \in Nat /\ Len(q) \in Nat
      BY <2>4, <3>1, <3>2, AfterFirst, LenProperties
    <3>5. \A l, m \in 1..Len(q) : l < m => q[l] < q[m]
      BY <1>01, <3>1 DEF Rising
    <3>6. ASSUME NEW l \in 1..Len(r), NEW m \in 1..Len(r), l < m PROVE r[l] < r[m]
      <4>1. l + k < m + k
        BY <2>4, <3>1, <3>4, <3>6
      <4>. QED
        BY <3>3, <3>5, <4>1
    <3>7. ASSUME NEW i \in sentTo[t], Had(t, i)', NEW l \in 1..Len(r) PROVE i < r[l]
      <4>1. CASE Had(t, i)
        BY <1>01, <3>1, <3>3, <4>1
      <4>2. CASE i = q[k]
        <5>1. k < l + k
          BY <2>4, <3>1, <3>4
        <5>. QED
          BY <2>4, <3>1, <3>3, <3>5, <4>2, <5>1
      <4>. QED
        BY <2>1, <2>4, <3>1, <3>7, <4>1, <4>2 DEF Had
    <3>8. polls'[t] = r
      BY <2>4, <3>1, <3>2
    <3>. QED
      BY <2>1, <3>6, <3>7, <3>8 DEF Rising
  <2>5. CASE s # t
    BY <1>0, <1>2, <2>2, <2>5, PollQueues
  <2>6. CASE s = t
    BY <1>0, <1>2, <2>3, <2>4, <2>6, PollQueues
  <2>. QED
    BY <2>5, <2>6
<1>3. CASE ~(\E s \in Nodes : Command(s) \/ Poll(s))
  <2>1. UNCHANGED <<sentTo, polls>>
    BY <1>3, OtherQueues
  <2>2. ASSUME NEW i \in sentTo[t], Had(t, i)' PROVE Had(t, i)
    <3>1. CASE UNCHANGED did /\ \A s \in Nodes : ArrivesAt(s)
      BY <1>0, <2>2, <3>1 DEF Had, ArrivesAt
    <3>2. ASSUME NEW s \in Nodes, NEW j \in Ids,
                 j \in atNode[s], j \in sentTo[s],
                 \A u \in Nodes : atNode'[u] \subseteq atNode[u],
                 \A l \in Ids : l # j => did'[l] = did[l]
          PROVE  Had(t, i)
      <4>1. CASE i = j
        <5>1. s = t
          BY <1>0, <2>2, <3>2, <4>1 DEF Owned
        <5>. QED
          BY <3>2, <4>1, <5>1 DEF Had
      <4>2. CASE i # j
        BY <1>0, <2>2, <3>2, <4>2 DEF Had
      <4>. QED
        BY <4>1, <4>2
    <3>. QED
      BY <1>3, <3>1, <3>2, OtherQueues
  <2>. QED
    BY <1>01, <2>1, <2>2
<1>. QED
  BY <1>1, <1>2, <1>3

(***************************************************************************)
(* A node that polls is handed its commands in the order they were given,  *)
(* and each once, whatever answers to its polls are lost.                  *)
(***************************************************************************)
THEOREM PollsInTurn == Spec => PolledInTurn
<1>1. Init => Owned /\ InTurn
  BY NodeCommandAssumption DEF Init, Owned, InTurn, Rising, Had
<1>2. IInv /\ Owned /\ InTurn /\ [Next]_vars => Owned' /\ InTurn'
  BY OwnedStep, InTurnStep DEF IInv
<1>3. IInv /\ Owned /\ InTurn /\ [Next]_vars
        => [\A s \in Pollers : \A i \in atNode'[s] \ atNode[s], j \in sentTo[s] :
              j \in atNode[s] \/ did[j] # {} => j < i]_vars
  <2>. SUFFICES ASSUME TypeOK, Owned, InTurn, [Next]_vars, NEW s \in Pollers,
                       NEW i \in atNode'[s] \ atNode[s], NEW j \in sentTo[s], Had(s, j)
                PROVE  j < i
    BY DEF IInv, Had
  <2>0. /\ s \in Nodes /\ atNode \in [Nodes -> SUBSET Ids]
        /\ \A k \in 1..Len(polls[s]) : j < polls[s][k]
    BY QueueTypes, NodeCommandAssumption DEF InTurn
  <2>1. ASSUME NEW t \in Nodes, Poll(t) PROVE j < i
    <3>1. PICK k \in 1..Len(polls[t]) : atNode' = [atNode EXCEPT ![t] = atNode[t] \cup {polls[t][k]}]
      BY <2>1, PollQueues
    <3>2. t = s /\ i = polls[s][k]
      BY <2>0, <3>1
    <3>. QED
      BY <2>0, <3>1, <3>2
  <2>2. CASE \E t \in Nodes : Command(t)
    BY <2>2, CommandQueues
  <2>3. CASE ~(\E t \in Nodes : Command(t) \/ Poll(t))
    <3>1. atNode'[s] \subseteq atNode[s]
      BY <2>0, <2>3, OtherQueues DEF ArrivesAt
    <3>. QED
      BY <3>1
  <2>. QED
    BY <2>1, <2>2, <2>3
<1>. QED
  BY <1>1, <1>2, <1>3, CommandInductive, PTL DEF Spec, PolledInTurn

-----------------------------------------------------------------------------
(* The refinement.                                                         *)

\* Nobody was told anything of a command that was not given yet.
Unasked == \A i \in Ids : i > issued => answer[i] = "idle"

LEMMA UnaskedStep == TypeOK /\ Unasked /\ [Next]_vars => Unasked'
<1>. SUFFICES ASSUME TypeOK, Unasked, [Next]_vars, NEW j \in Ids, j > issued'
              PROVE  answer'[j] = "idle"
  BY DEF Unasked
<1>1. ASSUME NEW s \in Nodes, Command(s) PROVE answer'[j] = "idle"
  <2>1. issued' = issued + 1 /\ issued \in Nat /\ j \in Nat
    BY <1>1, NodeCommandAssumption DEF Command, TypeOK, Ids
  <2>2. j > issued /\ j # issued'
    BY <2>1
  <2>. QED
    BY <1>1, <2>2 DEF Command, TypeOK, Unasked
<1>2. ASSUME NEW i \in Ids, Resume(i) \/ Timeout(i) \/ Cancelled(i)
      PROVE  answer'[j] = "idle"
  <2>1. issued' = issued /\ answer[i] = "wait"
    BY <1>2 DEF Resume, Timeout, Cancelled, Answer, Awaited
  <2>2. answer[j] = "idle" /\ j # i
    BY <2>1 DEF Unasked
  <2>. QED
    BY <1>2, <2>2 DEF Resume, Timeout, Cancelled, Answer, TypeOK
<1>3. CASE UNCHANGED <<issued, answer>>
  BY <1>3 DEF Unasked
<1>. QED
  BY <1>1, <1>2, <1>3
     DEF Next, Edge, Broker, vars, edge, Callback, Touch, Poll, LinkDrops, Connect,
         Connack, Puback, Deliver, BrokerTakes, Run, NodeDrops, NodeReturns

\* What a command's answer is to the promise.
LEMMA ToldIs ==
  ASSUME TypeOK, NEW i \in Ids
  PROVE  /\ answer[i] \in {"idle", "wait"} => Told(i) = "nothing"
         /\ answer[i] = "error" => Told(i) = "never"
         /\ answer[i] \in {"unknown", "gone"} => Told(i) = "unknown"
         /\ answer[i] \in Outcome => Told(i) = answer[i]
BY DEF Told, TypeOK, Outcome

\* A command that ends, in whatever way, is Tell of the promise; one that is
\* given and has to wait is nothing to it.
LEMMA TellStep ==
  ASSUME IInv, IInv', NEW i \in Ids, answer[i] \in {"idle", "wait"},
         UNCHANGED did, answer' = [answer EXCEPT ![i] = answer'[i]]
  PROVE  [Promise!Next]_(Promise!vars)
<1>. DEFINE told == [j \in Ids |-> Told(j)]
<1>1. TypeOK /\ TypeOK'
  BY DEF IInv
<1>2. \A j \in Ids : j # i => Told(j)' = Told(j)
  BY <1>1 DEF Told, TypeOK
<1>3. told' = [told EXCEPT ![i] = Told(i)'] /\ told[i] = "nothing"
  BY <1>1, <1>2, ToldIs
<1>4. CASE answer'[i] \in {"idle", "wait"}
  <2>1. Told(i)' = "nothing"
    BY <1>4 DEF Told
  <2>. QED
    BY <1>3, <2>1 DEF Promise!vars
<1>5. CASE answer'[i] \notin {"idle", "wait"}
  <2>1. Told(i)' \in did[i] \cup {"never", "unknown"}
    <3>1. CASE answer'[i] \in Outcome
      <4>1. answer'[i] \in did[i]
        BY <3>1 DEF IInv, Truth
      <4>2. Told(i)' = answer'[i]
        BY <3>1 DEF Told, Outcome
      <4>. QED
        BY <4>1, <4>2
    <3>2. CASE answer'[i] \in {"error", "unknown", "gone"}
      BY <3>2 DEF Told
    <3>. QED
      BY <1>1, <1>5, <3>1, <3>2 DEF TypeOK
  <2>2. Told(i)' = "never" => did[i] = {}
    <3>. SUFFICES ASSUME Told(i)' = "never" PROVE did[i] = {}
      OBVIOUS
    <3>1. answer'[i] = "error"
      BY <1>1 DEF Told, TypeOK, Outcome
    <3>. QED
      BY <3>1 DEF IInv, Sure, Left
  <2>3. Promise!Tell(i)
    BY <1>3, <2>1, <2>2 DEF Promise!Tell
  <2>. QED
    BY <2>3 DEF Promise!Next
<1>. QED
  BY <1>4, <1>5

(***************************************************************************)
(* Every step of the edge, of paho, of the broker and of the nodes is a    *)
(* step of the promise to the caller, or nothing to it.                    *)
(***************************************************************************)
THEOREM ImplementsPromise == Spec => CommandPromiseKept
<1>1. Init => Promise!Init
  BY DEF Init, Promise!Init, Told
<1>2. IInv /\ IInv' /\ Unasked /\ [Next]_vars => [Promise!Next]_(Promise!vars)
  <2>. SUFFICES ASSUME IInv, IInv', Unasked, [Next]_vars
                PROVE  [Promise!Next]_(Promise!vars)
    OBVIOUS
  <2>0. TypeOK /\ TypeOK'
    BY DEF IInv
  <2>1. ASSUME NEW s \in Nodes, Run(s) PROVE Promise!Next
    <3>1. PICK i \in atNode[s], r \in Outcome : did' = [did EXCEPT ![i] = did[i] \cup {r}]
      BY <2>1, RunIs
    <3>2. i \in Ids
      BY <2>0 DEF TypeOK
    <3>3. UNCHANGED answer
      BY <2>1 DEF Run, edge
    <3>4. Told(i) # "never"
      <4>1. answer[i] # "error"
        BY <3>1, <3>2 DEF IInv, Sure, Left
      <4>. QED
        BY <2>0, <3>2, <4>1 DEF Told, TypeOK, Outcome
    <3>5. UNCHANGED [j \in Ids |-> Told(j)]
      BY <3>3 DEF Told
    <3>6. Promise!CarryOut(i)
      BY <3>1, <3>2, <3>4, <3>5 DEF Promise!CarryOut
    <3>. QED
      BY <3>2, <3>6 DEF Promise!Next
  <2>2. ASSUME NEW s \in Nodes, Command(s) PROVE [Promise!Next]_(Promise!vars)
    <3>1. issued' = NextId /\ NextId \in Ids /\ NextId > issued
      BY <2>0, <2>2, NodeCommandAssumption DEF Command, TypeOK, NextId, Ids
    <3>2. answer[NextId] = "idle" /\ UNCHANGED did
      BY <2>2, <3>1 DEF Unasked, Command, nodes
    <3>3. answer' = [answer EXCEPT ![NextId] = answer'[NextId]]
      BY <2>0, <2>2, <3>1 DEF Command, TypeOK
    <3>. QED
      BY <3>1, <3>2, <3>3, TellStep
  <2>3. ASSUME NEW i \in Ids, Resume(i) \/ Timeout(i) \/ Cancelled(i)
        PROVE  [Promise!Next]_(Promise!vars)
    <3>1. answer[i] = "wait" /\ UNCHANGED did
      BY <2>3 DEF Resume, Timeout, Cancelled, Answer, Awaited, nodes
    <3>2. answer' = [answer EXCEPT ![i] = answer'[i]]
      BY <2>0, <2>3 DEF Resume, Timeout, Cancelled, Answer, TypeOK
    <3>. QED
      BY <3>1, <3>2, TellStep
  <2>4. CASE UNCHANGED <<answer, did>>
    BY <2>4 DEF Promise!vars, Told
  <2>. QED
    BY <2>1, <2>2, <2>3, <2>4
       DEF Next, Edge, Broker, vars, edge, nodes, Callback, Touch, Poll, LinkDrops, Connect,
           Connack, Puback, Deliver, BrokerTakes, NodeDrops, NodeReturns
<1>3. Init => Unasked
  BY DEF Init, Unasked
<1>4. IInv => TypeOK
  BY DEF IInv
<1>. QED
  BY <1>1, <1>2, <1>3, <1>4, UnaskedStep, CommandInductive, PTL DEF Spec, Promise!Spec, CommandPromiseKept

(***************************************************************************)
(* What the promise means: no outcome after "never", no answer that is not *)
(* an outcome, and no second answer.                                       *)
(***************************************************************************)
THEOREM PromiseMeans ==
  CommandPromiseKept =>
    /\ [](SureErrorNeverRuns /\ AnswerIsTrue)
    /\ [][\A i \in Ids : Told(i) # "nothing" => Told(i)' = Told(i)]_(Promise!vars)
<1>. DEFINE told == [i \in Ids |-> Told(i)]
            PInv == /\ did \in [Ids -> SUBSET Outcome]
                    /\ \A i \in Ids : /\ told[i] = "never" => did[i] = {}
                                      /\ told[i] \in Outcome => told[i] \in did[i]
            Final == \A i \in Ids : told[i] # "nothing" => told'[i] = told[i]
<1>1. Promise!Init => PInv
  <2>. SUFFICES ASSUME Promise!Init PROVE PInv
    OBVIOUS
  <2>1. did = [i \in Ids |-> {}] /\ \A i \in Ids : told[i] = "nothing"
    BY DEF Promise!Init
  <2>. QED
    BY <2>1 DEF Outcome
<1>2. PInv /\ [Promise!Next]_(Promise!vars) => PInv' /\ Final
  <2>. SUFFICES ASSUME PInv, [Promise!Next]_(Promise!vars) PROVE PInv' /\ Final
    OBVIOUS
  <2>. HIDE DEF told
  <2>1. ASSUME NEW i \in Ids, Promise!CarryOut(i) PROVE PInv' /\ Final
    <3>1. PICK o \in Outcome : did' = [did EXCEPT ![i] = did[i] \cup {o}]
      BY <2>1 DEF Promise!CarryOut
    <3>2. told' = told /\ told[i] # "never"
      BY <2>1 DEF Promise!CarryOut, told
    <3>. QED
      BY <3>1, <3>2
  <2>2. ASSUME NEW i \in Ids, Promise!Tell(i) PROVE PInv' /\ Final
    <3>1. PICK a \in did[i] \cup {"never", "unknown"} :
            (a = "never" => did[i] = {}) /\ told' = [told EXCEPT ![i] = a]
      BY <2>2 DEF Promise!Tell, told
    <3>2. did' = did /\ told[i] = "nothing"
      BY <2>2 DEF Promise!Tell, told
    <3>3. DOMAIN told = Ids
      BY DEF told
    <3>4. told'[i] = a /\ \A j \in Ids : j # i => told'[j] = told[j]
      BY <3>1, <3>3
    <3>. QED
      BY <3>1, <3>2, <3>4 DEF Outcome
  <2>3. CASE UNCHANGED Promise!vars
    <3>1. told' = told /\ did' = did
      BY <2>3 DEF Promise!vars, told
    <3>. QED
      BY <3>1
  <2>. QED
    BY <2>1, <2>2, <2>3 DEF Promise!Next
<1>3. PInv => SureErrorNeverRuns /\ AnswerIsTrue
  BY DEF SureErrorNeverRuns, AnswerIsTrue, Told, Outcome
<1>4. Final <=> \A i \in Ids : Told(i) # "nothing" => Told(i)' = Told(i)
  OBVIOUS
<1>. HIDE DEF PInv, Final
<1>. QED
  BY <1>1, <1>2, <1>3, <1>4, PTL DEF CommandPromiseKept, Promise!Spec
=============================================================================
