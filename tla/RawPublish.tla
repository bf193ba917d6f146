----------------------------- MODULE RawPublish -----------------------------
(***************************************************************************)
(* publish_raw (mqtt_consumer.py), the handler behind /api/publish: what   *)
(* may its caller believe?  "broker_down" invites a retry, so it must mean *)
(* that the message never left; "ok" that the broker has it.               *)
(*                                                                         *)
(* The coroutine runs on the asyncio loop while paho's thread loses and    *)
(* makes connections: _connected follows them late, and between publish()  *)
(* and the look into _out_messages the thread may have reconnected and     *)
(* sent.  paho and the broker are external; paho keeps a QoS 1 message     *)
(* until its PUBACK and sends it again, marked dup, after a reconnect.     *)
(***************************************************************************)
EXTENDS Integers, Sequences

CONSTANTS
  Calls,       \* the calls of publish_raw
  MaxLosses    \* bound: losses of the connection

ASSUME PublishAssumption == MaxLosses \in Nat

VARIABLES
  call,        \* call[c]: where the coroutine of call c stands
  answer,      \* answer[c]: what its caller was told
  connected,   \* MqttConsumer._connected
  notices,     \* calls of _set_connected scheduled by paho's thread
  link,        \* paho's socket: down, connecting (no CONNACK yet), up
  out,         \* out[c]: the state of c's message in paho's _out_messages
  dup,         \* dup[c]: the message is marked as sent before
  published,   \* MQTTMessageInfo.is_published
  wire,        \* PUBLISH packets on their way to the broker
  pubacks,     \* PUBACK packets on their way back
  atBroker,    \* messages the broker has taken
  losses

paho == <<link, out, dup, published, wire, pubacks, losses>>
publishVars == <<call, answer, connected, notices, paho, atBroker>>

PublishTypeOK ==
  /\ call \in [Calls -> {"idle", "held", "waiting", "done"}]
  /\ answer \in [Calls -> {"none", "down", "unknown", "ok"}]
  /\ connected \in BOOLEAN
  /\ notices \in Seq(BOOLEAN)
  /\ link \in {"down", "connecting", "up"}
  /\ out \in [Calls -> {"none", "publish", "wait"}]
  /\ dup \in [Calls -> BOOLEAN]
  /\ published \in [Calls -> BOOLEAN]
  /\ wire \subseteq Calls
  /\ pubacks \subseteq Calls
  /\ atBroker \subseteq Calls
  /\ losses \in 0..MaxLosses

\* The consumer has found the broker.
PublishInit ==
  /\ call = [c \in Calls |-> "idle"]
  /\ answer = [c \in Calls |-> "none"]
  /\ connected = TRUE /\ notices = << >>
  /\ link = "up"
  /\ out = [c \in Calls |-> "none"]
  /\ dup = [c \in Calls |-> FALSE]
  /\ wire = {} /\ pubacks = {}
  /\ published = [c \in Calls |-> FALSE]
  /\ atBroker = {} /\ losses = 0

\* The coroutine of c returns a to its caller.
Tell(c, a) ==
  /\ call' = [call EXCEPT ![c] = "done"]
  /\ answer' = [answer EXCEPT ![c] = a]

\* publish_raw up to its first await or to the mutex.  publish() may raise or
\* return another rc; paho has then stored nothing.
Call(c) ==
  /\ call[c] = "idle"
  /\ \/ /\ Tell(c, "down")
        /\ UNCHANGED <<out, wire>>
     \/ /\ connected /\ link = "down"     \* MQTT_ERR_NO_CONN
        /\ call' = [call EXCEPT ![c] = "held"]
        /\ out' = [out EXCEPT ![c] = "publish"]
        /\ UNCHANGED <<answer, wire>>
     \/ /\ connected /\ link # "down"
        /\ call' = [call EXCEPT ![c] = "waiting"]
        /\ out' = [out EXCEPT ![c] = "wait"]
        /\ wire' = wire \cup {c}
        /\ UNCHANGED answer
  /\ UNCHANGED <<connected, notices, link, dup, published, pubacks, atBroker, losses>>

\* Mutant: what is to be sent counts as never sent, dup or not.
HeldByPaho(c) == out[c] = "publish"

\* paho still holds the message and has never sent it.
NeverSentYet(c) == out[c] = "publish" /\ ~dup[c]

\* Under paho's mutex: take the message back, or leave it to paho.
TakeBack(c) ==
  /\ call[c] = "held"
  /\ \/ /\ NeverSentYet(c)
        /\ out' = [out EXCEPT ![c] = "none"]
        /\ Tell(c, "down")
     \/ /\ ~NeverSentYet(c)
        /\ Tell(c, "unknown")
        /\ UNCHANGED out
  /\ UNCHANGED <<connected, notices, link, dup, published, wire, pubacks, atBroker, losses>>

\* Mutant: what publish() stored counts as published.
Stored(c) == TRUE

\* info.is_published()
IsPublished(c) == published[c]

\* The polling loop sees the PUBACK; or it sees none until the deadline, which
\* may come at any time, and leaves the message to paho.
Waited(c) ==
  /\ call[c] = "waiting"
  /\ \/ IsPublished(c) /\ Tell(c, "ok")
     \/ ~IsPublished(c) /\ Tell(c, "unknown")
  /\ UNCHANGED <<connected, notices, paho, atBroker>>

\* The loop runs the next _set_connected.
Notice ==
  /\ notices # << >>
  /\ connected' = Head(notices)
  /\ notices' = Tail(notices)
  /\ UNCHANGED <<call, answer, paho, atBroker>>

-----------------------------------------------------------------------------
(* paho's thread and the broker.                                           *)

LoseLink ==
  /\ link # "down"
  /\ losses < MaxLosses
  /\ losses' = losses + 1
  /\ link' = "down"
  /\ wire' = {} /\ pubacks' = {}
  /\ notices' = Append(notices, FALSE)
  /\ UNCHANGED <<call, answer, connected, out, dup, published, atBroker>>

\* reconnect(): what was on the wire is to be sent again, as a duplicate.
Reconnect ==
  /\ link = "down"
  /\ link' = "connecting"
  /\ dup' = [c \in Calls |-> dup[c] \/ out[c] = "wait"]
  /\ out' = [c \in Calls |-> IF out[c] = "none" THEN "none" ELSE "publish"]
  /\ UNCHANGED <<call, answer, connected, notices, published, wire, pubacks, atBroker, losses>>

\* CONNACK: everything that is to be sent is sent.
SendHeld ==
  /\ link = "connecting"
  /\ link' = "up"
  /\ out' = [c \in Calls |-> IF out[c] = "none" THEN "none" ELSE "wait"]
  /\ wire' = wire \cup {c \in Calls : out[c] = "publish"}
  /\ notices' = Append(notices, TRUE)
  /\ UNCHANGED <<call, answer, connected, dup, published, pubacks, atBroker, losses>>

BrokerTakes ==
  /\ link = "up"
  /\ \E c \in wire :
       /\ wire' = wire \ {c}
       /\ pubacks' = pubacks \cup {c}
       /\ atBroker' = atBroker \cup {c}
  /\ UNCHANGED <<call, answer, connected, notices, link, out, dup, published, losses>>

Puback ==
  /\ \E c \in pubacks :
       /\ pubacks' = pubacks \ {c}
       /\ published' = [published EXCEPT ![c] = TRUE]
       /\ out' = [out EXCEPT ![c] = "none"]
       /\ dup' = [dup EXCEPT ![c] = FALSE]
  /\ UNCHANGED <<call, answer, connected, notices, link, wire, atBroker, losses>>

\* The process ends and another starts: paho begins with nothing, and the
\* callers of open calls are told nothing.
NewPublisher ==
  /\ call' = [c \in Calls |-> IF call[c] \in {"held", "waiting"} THEN "done" ELSE call[c]]
  /\ connected' = FALSE /\ notices' = << >>
  /\ link' = "down"
  /\ out' = [c \in Calls |-> "none"]
  /\ dup' = [c \in Calls |-> FALSE]
  /\ wire' = {} /\ pubacks' = {}
  /\ UNCHANGED <<answer, published, atBroker, losses>>

PublishStep ==
  \/ \E c \in Calls : TakeBack(c) \/ Waited(c)
  \/ Notice
  \/ LoseLink
  \/ Reconnect
  \/ SendHeld
  \/ BrokerTakes
  \/ Puback

PublishNext == (\E c \in Calls : Call(c)) \/ PublishStep \/ NewPublisher

PublishSpec == PublishInit /\ [][PublishNext]_publishVars

-----------------------------------------------------------------------------
(* "broker_down", which Main answers with a retry, is said only of a       *)
(* message that the broker does not have and that paho will not send       *)
(* later, whichever way its thread raced the call.                         *)
DownNeverSent ==
  \A c \in Calls : answer[c] = "down" => c \notin atBroker /\ c \notin wire /\ out[c] = "none"

(* "ok" is said only of a message that the broker has taken.               *)
OkIsAtBroker == \A c \in Calls : answer[c] = "ok" => c \in atBroker

\* What the caller of c has been told; a call that a restart cut off tells
\* nothing.
Told(c) ==
  CASE answer[c] = "none" -> "nothing"
    [] answer[c] = "down" -> "never"
    [] OTHER -> answer[c]

Promise == INSTANCE CallPromise
  WITH Outcomes <- {"ok"},
       done <- [c \in Calls |-> IF c \in atBroker THEN {"ok"} ELSE {}],
       told <- [c \in Calls |-> Told(c)]

(* Together, in the terms of CallPromise: a caller is told once, "ok" of   *)
(* what the broker has taken, "broker_down" of what it never takes, before *)
(* or after; paho may pass on the rest whenever it likes.                  *)
PublishPromiseKept == Promise!Spec
=============================================================================
