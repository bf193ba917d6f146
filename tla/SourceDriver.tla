---------------------------- MODULE SourceDriver ----------------------------
(***************************************************************************)
(* One data source and its driver (src/edge_collector/drivers): what Main  *)
(* is shown of the source, what a reading is worth, and what the caller of *)
(* a command may believe, while the device (or its server, its broker) and *)
(* the way to it (a USB adapter, a gateway) come and go, each on its own,  *)
(* and the manager stops and starts the driver.                            *)
(*   "modbus"    ModbusDriver: polls its points, pymodbus reconnects       *)
(*   "register"  SerialDriver, link modbus: the same loop, no commands     *)
(*   "opcua"     OpcuaDriver: subscribes, never connects again             *)
(*   "mqtt"      MqttDriver: subscribes, paho reconnects in its thread     *)
(*   "ascii"     SerialDriver, link ascii: SerialLine over a port that is  *)
(*               opened once                                               *)
(* The devices, pymodbus, asyncua, paho and pyserial are external.         *)
(***************************************************************************)
EXTENDS SerialLine, Registers

CONSTANTS
  Kinds,        \* the kinds of source to look at
  Points,       \* the points a driver polls
  Refused,      \* those the device answers with an error
  Cmds,         \* calls of command()
  Wants,        \* what the calls ask for, each a format and a whole number
  MaxTries,     \* how often pymodbus sends one frame
  MaxFaults,    \* bound: faults of the device and of the link
  MaxRestarts,  \* bound: times the manager stops the driver
  MaxProbes     \* bound: tests of the source from Main

ASSUME DriverAssumption ==
  /\ Refused \subseteq Points
  /\ Wants # {} /\ Wants \subseteq [Cmds -> [dtype : Formats, value : Int]]
  /\ MaxTries \in Nat \ {0}
  /\ MaxFaults \in Nat /\ MaxRestarts \in Nat /\ MaxProbes \in Nat

Polled == {"modbus", "register"}       \* a loop that asks
Behind == Polled \cup {"ascii"}        \* a device behind an adapter or a gateway
Returning == Polled \cup {"mqtt"}      \* a library that connects again
Confirming == {"modbus", "opcua"}      \* a device that answers a write

VARIABLES
  kind,
  device,     \* is the device there, and does it send and answer
  path,       \* is there something to connect to on the way to it
  driver,     \* "on"; "off" between stop and start; "failed" if start raised
  conn,       \* the connection as the library sees it
  status,     \* DriverStatus.status
  notices,    \* changes of status that paho's thread has scheduled
  round,      \* points still to be read in this round of the loop
  quality,    \* quality[p]: q of the last reading of p, "none" before
  cmd,        \* cmd[c]: where the coroutine of command c stands
  want,       \* want[c]: what c asks for
  tries,      \* tries[c]: how often c was sent
  answer,     \* answer[c]: the status its caller was given
  wire,       \* write requests on their way to the device
  replies,    \* its answers on their way back
  taken,      \* taken[c]: the registers the device has written for c
  faults, restarts, probes

link == <<kind, device, path, driver, conn, status, notices>>
polling == <<round, quality>>
commands == <<cmd, want, tries, answer, wire, replies, taken>>
bounds == <<faults, restarts, probes>>
driverVars == <<link, polling, commands, lineVars, bounds>>

NotTaken == << >>

\* Only Modbus makes registers of a number; the others pass on what they are
\* given, and one number stands for all.
Asks == IF kind = "modbus" THEN Wants ELSE {CHOOSE w \in Wants : TRUE}

TypeOK ==
  /\ LineTypeOK
  /\ kind \in Kinds /\ device \in BOOLEAN /\ path \in BOOLEAN
  /\ driver \in {"on", "off", "failed"} /\ conn \in {"none", "lost", "open"}
  /\ status \in {"untested", "online", "error"}
  /\ notices \in Seq({"online", "error"})
  /\ round \subseteq Points /\ quality \in [Points -> {"none", "good", "bad"}]
  /\ cmd \in [Cmds -> {"idle", "waiting", "done"}]
  /\ want \in Wants /\ tries \in [Cmds -> 0..MaxTries]
  /\ answer \in [Cmds -> {"none", "ok", "error", "unknown"}]
  /\ wire \in Seq(Cmds) /\ replies \in Seq([cmd : Cmds, ok : BOOLEAN])
  /\ taken \in [Cmds -> Seq(0..Word - 1)]
  /\ faults \in 0..MaxFaults /\ restarts \in 0..MaxRestarts /\ probes \in 0..MaxProbes

\* start() has succeeded.
Init ==
  /\ LineInit
  /\ kind \in Kinds /\ device = TRUE /\ path = TRUE /\ driver = "on" /\ conn = "open"
  /\ status = "online" /\ notices = << >>
  /\ round = {} /\ quality = [p \in Points |-> "none"]
  /\ cmd = [c \in Cmds |-> "idle"] /\ want \in Asks
  /\ tries = [c \in Cmds |-> 0] /\ answer = [c \in Cmds |-> "none"]
  /\ wire = << >> /\ replies = << >> /\ taken = [c \in Cmds |-> NotTaken]
  /\ faults = 0 /\ restarts = 0 /\ probes = 0

-----------------------------------------------------------------------------
(* The device and the connection.                                          *)

Fault == faults < MaxFaults /\ faults' = faults + 1

\* What an answer needs, and what a connection needs.
Reachable == device /\ path
Attached == path /\ (kind \in Behind \/ device)

\* The device falls silent, and nothing else: an open connection, a port among
\* them, shows nothing yet.
Gone ==
  /\ device /\ Fault
  /\ device' = FALSE
  /\ UNCHANGED <<kind, path, driver, conn, status, notices, polling, commands, lineVars,
                 restarts, probes>>

\* It is back; a serial device goes on with another place of its lines if it
\* was cut off, or has started again.
Back ==
  /\ ~device
  /\ device' = TRUE
  /\ \/ UNCHANGED lineVars
     \/ kind = "ascii" /\ conn = "open" /\ Unheard
  /\ UNCHANGED <<kind, path, driver, conn, status, notices, polling, commands, bounds>>

\* The adapter is unplugged, or the gateway off.  A serial port stays dead then,
\* with whatever was in it; a socket shows nothing yet.
Unplug ==
  /\ kind \in Behind /\ path /\ Fault
  /\ path' = FALSE
  /\ IF kind = "ascii" /\ driver = "on"
     THEN DropPort /\ conn' = "lost" /\ wire' = << >>
     ELSE UNCHANGED <<conn, lineVars, wire>>
  /\ UNCHANGED <<kind, device, driver, status, notices, polling, cmd, want, tries, answer,
                 replies, taken, restarts, probes>>

Plug ==
  /\ ~path
  /\ path' = TRUE
  /\ UNCHANGED <<kind, device, driver, conn, status, notices, polling, commands, lineVars,
                 bounds>>

\* Mutant: paho's thread tells the loop nothing.
Silent(n) == notices

\* on_connect and on_disconnect of the MQTT driver run in paho's thread.
Notify(n) == IF kind = "mqtt" THEN Append(notices, n) ELSE notices

\* The library finds the connection dead (a missed keepalive, an end of file).
\* Only the MQTT driver listens to that.
Lose ==
  /\ conn = "open" /\ kind # "ascii"
  /\ conn' = "lost"
  /\ notices' = Notify("error")
  /\ wire' = << >> /\ replies' = << >>
  /\ UNCHANGED <<kind, device, path, driver, status, polling, cmd, want, tries, answer, taken, lineVars>>

DeadLink == ~Reachable /\ Lose /\ UNCHANGED bounds

DropLink == Reachable /\ Lose /\ Fault /\ UNCHANGED <<restarts, probes>>

\* Mutant: no library connects again.
NeverAgain == {}

\* The kinds whose library connects again by itself.
Reconnecting == Returning

Reconnect ==
  /\ driver = "on" /\ conn = "lost" /\ Attached
  /\ kind \in Reconnecting
  /\ conn' = "open"
  /\ notices' = Notify("online")
  /\ UNCHANGED <<kind, device, path, driver, status, polling, commands, lineVars, bounds>>

\* The broker answers CONNECT with rc # 0.
Rejected ==
  /\ driver = "on" /\ conn = "lost" /\ Attached
  /\ kind = "mqtt"
  /\ Fault
  /\ notices' = Notify("error")
  /\ UNCHANGED <<kind, device, path, driver, conn, status, polling, commands, lineVars, restarts, probes>>

\* The loop runs the next callback of paho's thread.
Notice ==
  /\ notices # << >>
  /\ status' = Head(notices)
  /\ notices' = Tail(notices)
  /\ UNCHANGED <<kind, device, path, driver, conn, polling, commands, lineVars, bounds>>

-----------------------------------------------------------------------------
(* The manager.                                                            *)

\* stop(); a command in flight is sent no more, its caller waits on.
Stop ==
  /\ driver = "on"
  /\ restarts < MaxRestarts
  /\ restarts' = restarts + 1
  /\ driver' = "off" /\ conn' = "none" /\ notices' = << >>
  /\ round' = {}
  /\ wire' = << >> /\ replies' = << >>
  /\ tries' = [c \in Cmds |-> IF cmd[c] = "waiting" THEN MaxTries ELSE tries[c]]
  /\ IF kind = "ascii" THEN DropPort ELSE UNCHANGED lineVars
  /\ UNCHANGED <<kind, device, path, status, quality, cmd, want, answer, taken, faults, probes>>

\* start() with something to connect to, and without.
Started == driver' = "on" /\ conn' = "open" /\ status' = "online"
Raised == driver' = "failed" /\ UNCHANGED <<conn, status>>

\* _connect() of pymodbus' client, or its raise.
StartPolled ==
  /\ driver = "off" /\ kind \in Polled
  /\ IF Attached THEN Started ELSE Raised
  /\ UNCHANGED <<kind, device, path, notices, polling, commands, lineVars, bounds>>

\* connect() and the subscription.
StartOpcua ==
  /\ driver = "off" /\ kind = "opcua"
  /\ IF Attached THEN Started ELSE Raised
  /\ UNCHANGED <<kind, device, path, notices, polling, commands, lineVars, bounds>>

\* The connection is left to paho's thread.
StartMqtt ==
  /\ driver = "off" /\ kind = "mqtt"
  /\ driver' = "on" /\ conn' = "lost" /\ status' = "untested"
  /\ UNCHANGED <<kind, device, path, notices, polling, commands, lineVars, bounds>>

StartAscii ==
  /\ driver = "off" /\ kind = "ascii"
  /\ \/ Attached /\ Started /\ OpenPort
     \/ ~Attached /\ Raised /\ UNCHANGED lineVars
  /\ UNCHANGED <<kind, device, path, notices, polling, commands, bounds>>

\* /api/source/test: a second driver starts and stops at once.  Only a port
\* feels that: the loop of the second driver is cancelled before its first
\* step, but the port has been opened.
Probe ==
  /\ kind = "ascii" /\ Attached
  /\ probes < MaxProbes
  /\ probes' = probes + 1
  /\ Flush
  /\ UNCHANGED <<link, polling, commands, faults, restarts>>

-----------------------------------------------------------------------------
(* Reading.                                                                *)

\* A command to a Modbus device and the poll loop take turns.
Busy == kind = "modbus" /\ \E c \in Cmds : cmd[c] = "waiting"

NewRound ==
  /\ driver = "on" /\ kind \in Polled
  /\ round = {}
  /\ round' = Points
  /\ UNCHANGED <<link, quality, commands, lineVars, bounds>>

\* One point of the loop: a value, or an error of the device or the library.
ReadPoint ==
  /\ ~Busy
  /\ \E p \in round :
       LET answered == Reachable /\ conn = "open" /\ p \notin Refused
       IN  /\ round' = round \ {p}
           /\ quality' = [quality EXCEPT ![p] = IF answered THEN "good" ELSE "bad"]
           /\ status' = IF answered THEN "online" ELSE "error"
  /\ UNCHANGED <<kind, device, path, driver, conn, notices, commands, lineVars, bounds>>

\* A serial device sends, whoever listens.
DeviceSends ==
  /\ kind = "ascii" /\ device
  /\ Send(conn = "open")
  /\ UNCHANGED <<link, polling, commands, bounds>>

\* _loop of the serial driver: a character, a line, or a second of silence.
ReadLine ==
  /\ kind = "ascii" /\ conn = "open"
  /\ \/ /\ ReadChar
        /\ status' = IF \E b \in {Append(buf, Head(tty))} : EndsWithTerm(b) /\ Content(b) # {}
                     THEN "online" ELSE status
     \/ Pause /\ UNCHANGED status
  /\ UNCHANGED <<kind, device, path, driver, conn, notices, polling, commands, bounds>>

\* Reading a dead port raises.
ReadRaises ==
  /\ kind = "ascii" /\ conn = "lost" /\ driver = "on"
  /\ status' = "error"
  /\ UNCHANGED <<kind, device, path, driver, conn, notices, polling, commands, lineVars, bounds>>

-----------------------------------------------------------------------------
(* Commands.                                                               *)

Tell(c, a) ==
  /\ cmd' = [cmd EXCEPT ![c] = "done"]
  /\ answer' = [answer EXCEPT ![c] = a]

\* An error before anything was sent.
TurnDown(c) == Tell(c, "error") /\ UNCHANGED <<tries, wire>>

\* What is sent without a connection goes nowhere.
Sent(c) ==
  /\ tries' = [tries EXCEPT ![c] = @ + 1]
  /\ wire' = IF conn = "open" THEN Append(wire, c) ELSE wire

Await(c) == Sent(c) /\ cmd' = [cmd EXCEPT ![c] = "waiting"] /\ UNCHANGED answer

\* No driver for the channel, or one without commands.
AskNobody(c) == (driver # "on" \/ kind = "register") /\ TurnDown(c)

\* pymodbus knows a closed connection; i32 may not hold the number.
AskModbus(c) ==
  /\ driver = "on" /\ kind = "modbus" /\ ~Busy
  /\ IF conn = "open" /\ Packs(want[c].dtype, want[c].value) THEN Await(c) ELSE TurnDown(c)

\* _socket_open(), and no await before the request goes out.
AskOpcua(c) ==
  /\ driver = "on" /\ kind = "opcua"
  /\ IF conn = "open" THEN Await(c) ELSE TurnDown(c)

\* QoS 0: nobody looks what becomes of it.
AskMqtt(c) ==
  /\ driver = "on" /\ kind = "mqtt"
  /\ Sent(c) /\ Tell(c, "ok")

\* Writing to a dead port raises.
AskAscii(c) ==
  /\ driver = "on" /\ kind = "ascii"
  /\ IF conn = "open" THEN Sent(c) /\ Tell(c, "ok") ELSE TurnDown(c)

\* /api/command reaches the driver of its channel.
Ask(c) ==
  /\ cmd[c] = "idle"
  /\ AskNobody(c) \/ AskModbus(c) \/ AskOpcua(c) \/ AskMqtt(c) \/ AskAscii(c)
  /\ UNCHANGED <<link, polling, want, replies, taken, lineVars, bounds>>

\* pymodbus hears nothing and sends the frame again.
Again(c) ==
  /\ kind = "modbus" /\ cmd[c] = "waiting"
  /\ tries[c] < MaxTries
  /\ Sent(c)
  /\ UNCHANGED <<link, polling, cmd, want, answer, replies, taken, lineVars, bounds>>

\* The device writes what it is asked to, or refuses.
Execute ==
  /\ Reachable /\ wire # << >>
  /\ LET c == Head(wire)
     IN  \E ok \in BOOLEAN :
           /\ taken' = IF ok THEN [taken EXCEPT ![c] = Encode(want[c].dtype, want[c].value)]
                             ELSE taken
           /\ replies' = IF kind \in Confirming THEN Append(replies, [cmd |-> c, ok |-> ok])
                                                ELSE replies
  /\ wire' = Tail(wire)
  /\ UNCHANGED <<link, polling, cmd, want, tries, answer, lineVars, bounds>>

\* Mutant: a reply is a success.
AnyReply(r) == TRUE

\* not rr.isError(); write_value did not raise
Accepted(r) == r.ok

\* A reply arrives, too late if its command has been given up.
Receive ==
  /\ replies # << >>
  /\ LET r == Head(replies)
     IN  IF cmd[r.cmd] = "waiting" THEN Tell(r.cmd, IF Accepted(r) THEN "ok" ELSE "error")
                                   ELSE UNCHANGED <<cmd, answer>>
  /\ replies' = Tail(replies)
  /\ UNCHANGED <<link, polling, want, tries, wire, taken, lineVars, bounds>>

\* ModbusIOException, after the last try.
NoAnswer(c) == kind = "modbus" /\ tries[c] = MaxTries

\* A time-out, or the connection is lost under the request.
NoConfirmation(c) == kind = "opcua"

GiveUp(c) ==
  /\ cmd[c] = "waiting"
  /\ NoAnswer(c) \/ NoConfirmation(c)
  /\ Tell(c, "unknown")
  /\ UNCHANGED <<link, polling, want, tries, wire, replies, taken, lineVars, bounds>>

-----------------------------------------------------------------------------
Next ==
  \/ Gone \/ Back \/ Unplug \/ Plug \/ DeadLink \/ DropLink \/ Reconnect \/ Rejected \/ Notice
  \/ Stop \/ StartPolled \/ StartOpcua \/ StartMqtt \/ StartAscii \/ Probe
  \/ NewRound \/ ReadPoint
  \/ DeviceSends \/ ReadLine \/ ReadRaises
  \/ \E c \in Cmds : Ask(c) \/ Again(c) \/ GiveUp(c)
  \/ Execute \/ Receive

\* Loops go on, time-outs end, and the libraries keep looking after their
\* connections; the device, Main and the manager do what they like.
Fairness ==
  /\ WF_driverVars(DeadLink) /\ WF_driverVars(Reconnect) /\ WF_driverVars(Notice)
  /\ WF_driverVars(NewRound) /\ WF_driverVars(ReadPoint) /\ WF_driverVars(ReadRaises)
  /\ \A c \in Cmds : WF_driverVars(Again(c) \/ GiveUp(c))

Spec == Init /\ [][Next]_driverVars /\ Fairness

-----------------------------------------------------------------------------
(* "error" is said only of a command the device has not carried out and    *)
(* will not carry out, unless pymodbus sent it again and the device        *)
(* refused the second frame; "ok" of Modbus and OPC UA only of one it has  *)
(* carried out, and a Modbus point then holds the number that was asked    *)
(* for, if the format of the point has room for it.                        *)
AnswersAreTrue ==
  \A c \in Cmds :
    /\ answer[c] = "error" =>
         \/ taken[c] = NotTaken /\ \A i \in 1..Len(wire) : wire[i] # c
         \/ tries[c] > 1
    /\ answer[c] = "ok" /\ kind \in Confirming =>
         /\ taken[c] # NotTaken
         /\ kind = "modbus" /\ Fits(want[c].dtype, want[c].value)
              => Decode(want[c].dtype, taken[c]) = want[c].value

\* What the caller of c has been told.  An "error" after a second frame says
\* nothing of the first, and an "ok" that nobody confirmed nothing at all.
Told(c) ==
  CASE answer[c] = "none" -> "nothing"
    [] answer[c] = "error" /\ tries[c] <= 1 -> "never"
    [] answer[c] = "ok" /\ kind \in Confirming -> "ok"
    [] OTHER -> "unknown"

Promise == INSTANCE CallPromise
  WITH Calls <- Cmds,
       Outcomes <- {"ok"},
       done <- [c \in Cmds |-> IF taken[c] = NotTaken THEN {} ELSE {"ok"}],
       told <- [c \in Cmds |-> Told(c)]

(* In the terms of CallPromise: the caller of a command is told once, "ok" *)
(* of what the device has written, "error" of what it never writes, before *)
(* or after.                                                               *)
WritePromiseKept == Promise!Spec

\* Out of reach of a driver that could tell: a port is dead once its adapter was
\* unplugged; of a serial device that is silent nothing is known.
OutOfReach == IF kind = "ascii" THEN conn = "lost" ELSE ~Reachable

(* A device that is out of reach for good, switched off, unplugged or cut  *)
(* off, is not shown as online for good, and what a loop polls is marked   *)
(* bad.  Excepted are OPC UA, and a serial device that falls silent behind *)
(* a living port: read() times out and the loop goes on (serial_ascii.py   *)
(* 80-82, 157-159), so that one is shown as online for good.               *)
LossIsSeen ==
  kind # "opcua" =>
    (<>[](OutOfReach /\ driver = "on")
       => <>[](status # "online" /\ (kind \in Polled => \A p \in Points : quality[p] = "bad")))

(* With pymodbus and paho a device that is there again for good is read    *)
(* again, and every point it answers is good, whatever was lost meanwhile. *)
ComesBack ==
  kind \in Returning =>
    (<>[](Reachable /\ driver = "on")
       => <>[](IF kind \in Polled THEN \A p \in Points \ Refused : quality[p] = "good"
                                  ELSE status = "online"))
=============================================================================
