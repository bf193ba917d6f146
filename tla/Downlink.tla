------------------------------ MODULE Downlink ------------------------------
(***************************************************************************)
(* POST /api/publish from the signed request to the broker: a copy that    *)
(* RequestGate lets in is a call of RawPublish, and nothing else is.  The  *)
(* dependency of the router runs before the handler, with no await in      *)
(* between that waits for anything; gate and paho live in one process and  *)
(* one restart forgets what both keep in RAM.                              *)
(***************************************************************************)
EXTENDS RequestGate, RawPublish

CONSTANT MaxBreaks   \* bound: restarts and losses of the connection together

\* The copies of requests for /api/publish.
ASSUME CallsAreCopies == Calls \subseteq Copies

downlinkVars == <<gateVars, publishVars>>

DownlinkInit == GateInit /\ PublishInit

\* A copy that is let in starts the handler; those of the other routes have
\* nothing to do with paho.
Serve(c) ==
  /\ Admit(c)
  /\ \/ c \in Calls /\ Call(c)
     \/ c \notin Calls /\ UNCHANGED publishVars

\* The gate without a handler.
AtTheDoor ==
  /\ \/ \E r \in Requests : Sign(r)
     \/ \E c \in Copies : Arrive(c) \/ Repeat(c)
     \/ Tick
  /\ UNCHANGED publishVars

\* The handlers, paho's thread and the broker.
Handling ==
  /\ PublishStep
  /\ restarts + losses' <= MaxBreaks
  /\ UNCHANGED gateVars

\* The process ends and starts again.
NewProcess ==
  /\ restarts + losses < MaxBreaks
  /\ ForgetSeen
  /\ NewPublisher

DownlinkNext == (\E c \in Copies : Serve(c)) \/ AtTheDoor \/ Handling \/ NewProcess

DownlinkSpec == DownlinkInit /\ [][DownlinkNext]_downlinkVars

-----------------------------------------------------------------------------
(* The gate, with no more signatures in RAM than allowed, and paho.        *)
TypeOK == GateTypeOK /\ PublishTypeOK
=============================================================================
