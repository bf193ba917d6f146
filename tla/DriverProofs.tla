---------------------------- MODULE DriverProofs ----------------------------
(***************************************************************************)
(* What a register holds and what the caller of command() may believe, for *)
(* every width of a register, every number of commands, and any faults of  *)
(* the device.                                                             *)
(***************************************************************************)
EXTENDS SourceDriver, SequenceTheorems, TLAPS

-----------------------------------------------------------------------------
(* Registers.                                                              *)

LEMMA DivMod ==
  ASSUME NEW d \in Nat \ {0}, NEW n \in Int
  PROVE  n \div d \in Int /\ n % d \in 0..d - 1 /\ n = d * (n \div d) + (n % d)
OBVIOUS

LEMMA Quotient ==
  ASSUME NEW d \in Nat \ {0}, NEW n \in Int, NEW q \in Int, NEW r \in 0..d - 1, n = d * q + r
  PROVE  n % d = r /\ n \div d = q
OBVIOUS

\* What fits into d * d has a quotient that fits into d.
LEMMA QuotientFits ==
  ASSUME NEW d \in Nat \ {0}, NEW n \in 0..d * d - 1
  PROVE  n \div d \in 0..d - 1
<1>1. n \div d \in Int /\ n % d \in 0..d - 1 /\ n = d * (n \div d) + (n % d)
  BY DivMod
<1>2. ASSUME n \div d < 0 PROVE FALSE
  <2>1. d * (n \div d) <= d * (-1)
    BY <1>1, <1>2
  <2>. QED
    BY <1>1, <2>1
<1>3. ASSUME n \div d >= d PROVE FALSE
  <2>1. d * (n \div d) >= d * d
    BY <1>1, <1>3
  <2>. QED
    BY <1>1, <2>1
<1>. QED
  BY <1>1, <1>2, <1>3

LEMMA SpanType ==
  ASSUME NEW dtype \in Formats
  PROVE  Span(dtype) \in Nat \ {0}
<1>1. Word * Word \in Nat \ {0}
  BY WordAssumption
<1>. QED
  BY <1>1, WordAssumption DEF Span

\* The registers of a number: one or two, each with room for its value.
LEMMA EncodeType ==
  ASSUME NEW dtype \in Formats, NEW v \in Int
  PROVE  Encode(dtype, v) \in Seq(0..Word - 1) /\ Encode(dtype, v) # NotTaken
<1>. DEFINE bits == v % Span(dtype)
<1>1. bits \in 0..Span(dtype) - 1
  BY SpanType, DivMod
<1>2. CASE dtype \in {"i16", "u16"}
  BY <1>1, <1>2, WordAssumption DEF Encode, Span, NotTaken
<1>3. CASE dtype \notin {"i16", "u16"}
  <2>1. bits \in 0..Word * Word - 1
    BY <1>1, <1>3 DEF Span
  <2>2. bits \div Word \in 0..Word - 1 /\ bits % Word \in 0..Word - 1
    <3>. HIDE DEF bits
    <3>1. Word \in Nat \ {0} /\ bits \in Int
      BY <2>1, WordAssumption
    <3>2. bits \div Word \in 0..Word - 1
      BY <2>1, <3>1, QuotientFits
    <3>3. bits % Word \in 0..Word - 1
      BY <3>1, DivMod
    <3>. QED
      BY <3>2, <3>3
  <2>. QED
    BY <1>3, <2>2 DEF Encode, NotTaken
<1>. QED
  BY <1>2, <1>3

\* A number that fits is found again, less the span if it is negative.
LEMMA BitsOf ==
  ASSUME NEW s \in Nat \ {0}, NEW v \in Int
  PROVE  /\ 0 <= v /\ v < s => v % s = v
         /\ -s <= v /\ v < 0 => v % s = v + s
<1>1. ASSUME 0 <= v, v < s PROVE v % s = v
  BY <1>1, Quotient
<1>2. ASSUME -s <= v, v < 0 PROVE v % s = v + s
  <2>1. v = s * (-1) + (v + s) /\ v + s \in 0..s - 1
    BY <1>2
  <2>. QED
    BY <2>1, Quotient
<1>. QED
  BY <1>1, <1>2

\* The registers of any number read back as its remainder, less the span where
\* that is a negative number.
LEMMA DecodeOf ==
  ASSUME NEW dtype \in Formats, NEW v \in Int
  PROVE  Decode(dtype, Encode(dtype, v))
           = IF dtype \in {"i16", "i32"} /\ 2 * (v % Span(dtype)) >= Span(dtype)
             THEN (v % Span(dtype)) - Span(dtype) ELSE v % Span(dtype)
<1>. DEFINE s == Span(dtype)
            bits == v % s
            back == IF dtype \in {"i16", "u16"} THEN Encode(dtype, v)[1]
                    ELSE Encode(dtype, v)[1] * Word + Encode(dtype, v)[2]
<1>1. s \in Nat \ {0}
  BY SpanType
<1>2. back = bits
  <2>1. CASE dtype \in {"i16", "u16"}
    BY <2>1 DEF Encode
  <2>2. CASE dtype \notin {"i16", "u16"}
    <3>1. bits \in Int
      BY <1>1, DivMod
    <3>2. bits = Word * (bits \div Word) + (bits % Word)
          /\ bits \div Word \in Int /\ bits % Word \in Int
      <4>. HIDE DEF bits
      <4>. QED
        BY <3>1, DivMod, WordAssumption
    <3>3. back = (bits \div Word) * Word + (bits % Word)
      BY <2>2 DEF Encode
    <3>. HIDE DEF bits, back
    <3>. QED
      BY <3>2, <3>3, WordAssumption
  <2>. QED
    BY <2>1, <2>2
<1>3. Decode(dtype, Encode(dtype, v))
        = IF dtype \in {"i16", "i32"} /\ 2 * back >= s THEN back - s ELSE back
  BY DEF Decode
<1>. QED
  BY <1>2, <1>3

(***************************************************************************)
(* A number that fits its format is read back as it was written, one or    *)
(* two registers, with a sign or without, however wide a register is.      *)
(***************************************************************************)
THEOREM RoundTrip ==
  ASSUME NEW dtype \in Formats, NEW v \in Int, Fits(dtype, v)
  PROVE  Decode(dtype, Encode(dtype, v)) = v
<1>. DEFINE s == Span(dtype)
            bits == v % s
            decoded == Decode(dtype, Encode(dtype, v))
<1>1. s \in Nat \ {0}
  BY SpanType
<1>2. decoded = IF dtype \in {"i16", "i32"} /\ 2 * bits >= s THEN bits - s ELSE bits
  BY DecodeOf
<1>3. CASE dtype \in {"i16", "i32"}
  <2>1. 2 * v >= -s /\ 2 * v < s
    BY <1>3 DEF Fits
  <2>2. bits = IF v >= 0 THEN v ELSE v + s
    <3>. HIDE DEF s
    <3>1. CASE v >= 0
      <4>1. v < s
        BY <1>1, <2>1, <3>1
      <4>. QED
        BY <1>1, <3>1, <4>1, BitsOf
    <3>2. CASE v < 0
      <4>1. -s <= v
        BY <1>1, <2>1, <3>2
      <4>2. v % s = v + s
        BY <1>1, <3>2, <4>1, BitsOf
      <4>. QED
        BY <3>2, <4>2
    <3>. QED
      BY <3>1, <3>2
  <2>. HIDE DEF s, bits, decoded
  <2>3. decoded = v
    BY <1>1, <1>2, <1>3, <2>1, <2>2
  <2>. QED
    BY <2>3 DEF decoded
<1>4. CASE dtype \notin {"i16", "i32"}
  <2>1. v >= 0 /\ v < s
    BY <1>4 DEF Fits
  <2>2. bits = v
    <3>. HIDE DEF s
    <3>. QED
      BY <1>1, <2>1, BitsOf
  <2>. QED
    BY <1>2, <1>4, <2>2
<1>. QED
  BY <1>3, <1>4

(***************************************************************************)
(* A number that does not fit is written all the same where struct.pack    *)
(* does not mind (Packs), and another one is read back: one the format is  *)
(* made for, a whole number of spans away.                                 *)
(***************************************************************************)
THEOREM WrapsAround ==
  ASSUME NEW dtype \in Formats, NEW v \in Int
  PROVE  /\ Fits(dtype, Decode(dtype, Encode(dtype, v)))
         /\ \E k \in Int : Decode(dtype, Encode(dtype, v)) = v + k * Span(dtype)
         /\ ~Fits(dtype, v) => Decode(dtype, Encode(dtype, v)) # v
<1>. DEFINE s == Span(dtype)
            bits == v % s
            turns == v \div s
            decoded == Decode(dtype, Encode(dtype, v))
<1>1. s \in Nat \ {0}
  BY SpanType
<1>2. decoded = IF dtype \in {"i16", "i32"} /\ 2 * bits >= s THEN bits - s ELSE bits
  BY DecodeOf
<1>3. turns \in Int /\ bits \in 0..s - 1 /\ v = s * turns + bits
  <2>. HIDE DEF s
  <2>. QED
    BY <1>1, DivMod
<1>4. Fits(dtype, decoded)
  <2>1. CASE dtype \in {"i16", "i32"}
    <3>1. 2 * decoded >= -s /\ 2 * decoded < s
      <4>. HIDE DEF s, bits, decoded
      <4>. QED
        BY <1>1, <1>2, <1>3, <2>1
    <3>. QED
      BY <2>1, <3>1 DEF Fits
  <2>2. CASE dtype \notin {"i16", "i32"}
    <3>1. decoded >= 0 /\ decoded < s
      <4>. HIDE DEF s, bits, decoded
      <4>. QED
        BY <1>1, <1>2, <1>3, <2>2
    <3>. QED
      BY <2>2, <3>1 DEF Fits
  <2>. QED
    BY <2>1, <2>2
<1>5. \E k \in Int : decoded = v + k * s
  <2>1. decoded = bits \/ decoded = bits - s
    BY <1>2
  <2>. HIDE DEF s, bits, turns, decoded
  <2>2. CASE decoded = bits
    <3>1. -turns \in Int /\ decoded = v + (-turns) * s
      BY <1>1, <1>3, <2>2
    <3>. QED
      BY <3>1
  <2>3. CASE decoded = bits - s
    <3>1. -turns - 1 \in Int /\ decoded = v + (-turns - 1) * s
      BY <1>1, <1>3, <2>3
    <3>. QED
      BY <3>1
  <2>. QED
    BY <2>1, <2>2, <2>3
<1>. QED
  BY <1>4, <1>5

-----------------------------------------------------------------------------
(* Types.                                                                  *)

LEMMA AppendIs ==
  ASSUME NEW S, NEW q \in Seq(S), NEW e \in S
  PROVE  /\ Append(q, e) \in Seq(S)
         /\ Len(Append(q, e)) = Len(q) + 1
         /\ \A k \in 1..Len(q) + 1 : Append(q, e)[k] = IF k <= Len(q) THEN q[k] ELSE e
OBVIOUS

LEMMA ExceptIs ==
  ASSUME NEW S, NEW T, NEW f \in [S -> T], NEW x \in S, NEW v \in T
  PROVE  [f EXCEPT ![x] = v] \in [S -> T]
OBVIOUS

LEMMA TypeInit == Init => TypeOK
<1>. SUFFICES ASSUME Init PROVE TypeOK
  OBVIOUS
<1>1. LineTypeOK
  BY LineAssumption DEF Init, LineInit, LineTypeOK, Lf
<1>2. taken \in [Cmds -> Seq(0..Word - 1)]
  BY DEF Init, NotTaken
<1>3. want \in Wants
  BY DriverAssumption DEF Init, Asks
<1>. QED
  BY <1>1, <1>2, <1>3, DriverAssumption DEF Init, TypeOK

\* What the line reader does with a character.
LEMMA EmitType ==
  ASSUME LineTypeOK, NEW b, Emit(b)
  PROVE  read' \subseteq 1..MaxLines /\ wrong' \in Nat
<1>1. \/ \E n \in 1..MaxLines : read' = read \cup {n} /\ wrong' = wrong
      \/ read' = read /\ wrong' \in {wrong, wrong + 1}
  BY DEF Emit
<1>2. read \subseteq 1..MaxLines /\ wrong \in Nat
  BY DEF LineTypeOK
<1>3. read' \subseteq 1..MaxLines
  <2>1. CASE read' = read
    BY <1>2, <2>1
  <2>2. ASSUME NEW n \in 1..MaxLines, read' = read \cup {n} PROVE read' \subseteq 1..MaxLines
    BY <1>2, <2>2
  <2>. QED
    BY <1>1, <2>1, <2>2
<1>4. wrong' \in {wrong, wrong + 1}
  BY <1>1
<1>. QED
  BY <1>2, <1>3, <1>4

LEMMA LineTypeSend ==
  ASSUME LineTypeOK, NEW open \in BOOLEAN, Send(open)
  PROVE  LineTypeOK'
<1>1. next[1] \in 1..MaxLines /\ next[2] \in 1..Lf /\ next = <<next[1], next[2]>>
  BY LineAssumption DEF LineTypeOK, Send
<1>2. next \in Char
  BY <1>1 DEF Char
<1>3. tty' \in Seq(Char)
  BY <1>2, AppendIs DEF LineTypeOK, Send
<1>4. next' \in (1..MaxLines + 1) \X (1..Lf)
  BY <1>1, LineAssumption DEF Send, After, Lf
<1>. QED
  BY <1>3, <1>4 DEF LineTypeOK, Send

LEMMA LineTypeRead ==
  ASSUME LineTypeOK, ReadChar \/ Pause \/ OpenPort \/ Flush \/ DropPort
  PROVE  LineTypeOK'
<1>1. CASE ReadChar
  <2>1. Head(tty) \in Char /\ Tail(tty) \in Seq(Char)
    BY <1>1, HeadTailProperties DEF ReadChar, LineTypeOK
  <2>2. Append(buf, Head(tty)) \in Seq(Char)
    BY <2>1, AppendIs DEF LineTypeOK
  <2>3. buf' = << >> \/ buf' = Append(buf, Head(tty))
    BY <1>1 DEF ReadChar, AfterLine
  <2>4. read' \subseteq 1..MaxLines /\ wrong' \in Nat
    BY <1>1, EmitType DEF ReadChar, LineTypeOK
  <2>5. tty' = Tail(tty) /\ UNCHANGED <<next, cuts>>
    BY <1>1 DEF ReadChar
  <2>. QED
    <3>1. buf' \in Seq(Char) /\ tty' \in Seq(Char)
      BY <2>1, <2>2, <2>3, <2>5, EmptySeq
    <3>. QED
      BY <2>4, <2>5, <3>1 DEF LineTypeOK
<1>2. CASE Pause
  BY <1>2 DEF Pause, LineTypeOK, CountCut
<1>3. CASE OpenPort
  BY <1>3 DEF OpenPort, LineTypeOK, CountCut
<1>4. CASE Flush
  BY <1>4 DEF Flush, LineTypeOK, CountCut
<1>5. CASE DropPort
  BY <1>5 DEF DropPort, LineTypeOK, CountCut
<1>. QED
  BY <1>1, <1>2, <1>3, <1>4, <1>5

LEMMA LineTypeUnheard ==
  ASSUME LineTypeOK, Unheard
  PROVE  LineTypeOK'
<1>1. next' \in Char \cup {<<MaxLines + 1, 1>>}
  BY DEF Unheard
<1>2. next' \in (1..MaxLines + 1) \X (1..Lf)
  BY <1>1, LineAssumption DEF Char, Lf
<1>3. cuts' = cuts + 1 /\ UNCHANGED <<tty, buf, read, wrong>>
  BY DEF Unheard, CountCut
<1>. QED
  BY <1>2, <1>3 DEF LineTypeOK

\* The line reader under any step of the driver.
LEMMA LineTypeStep == TypeOK /\ [Next]_driverVars => LineTypeOK'
<1>. SUFFICES ASSUME LineTypeOK, [Next]_driverVars PROVE LineTypeOK'
  BY DEF TypeOK
<1>1. CASE DeviceSends
  BY <1>1, LineTypeSend DEF DeviceSends
<1>2. CASE ReadChar \/ Pause \/ OpenPort \/ Flush \/ DropPort
  BY <1>2, LineTypeRead
<1>3. CASE UNCHANGED lineVars
  BY <1>3 DEF LineTypeOK, lineVars
<1>4. CASE Unheard
  BY <1>4, LineTypeUnheard
<1>. QED
  BY <1>1, <1>2, <1>3, <1>4
     DEF Next, driverVars, Gone, Back, Unplug, Plug, DeadLink, DropLink, Lose, Reconnect, Rejected, Notice,
         Stop, StartPolled, StartOpcua, StartMqtt, StartAscii, Probe, NewRound, ReadPoint,
         ReadLine, ReadRaises, Ask, Again, Execute, Receive, GiveUp

\* What one step does to the commands.
LEMMA SentType ==
  ASSUME TypeOK, NEW c \in Cmds, tries[c] < MaxTries, Sent(c)
  PROVE  tries' \in [Cmds -> 0..MaxTries] /\ wire' \in Seq(Cmds)
<1>1. tries[c] + 1 \in 0..MaxTries /\ tries \in [Cmds -> 0..MaxTries] /\ wire \in Seq(Cmds)
  BY DriverAssumption DEF TypeOK
<1>2. Append(wire, c) \in Seq(Cmds)
  BY <1>1, AppendIs
<1>. QED
  BY <1>1, <1>2, ExceptIs DEF Sent

LEMMA TellType ==
  ASSUME TypeOK, NEW c \in Cmds, NEW a \in {"ok", "error", "unknown"}, Tell(c, a)
  PROVE  /\ cmd' \in [Cmds -> {"idle", "waiting", "done"}]
         /\ answer' \in [Cmds -> {"none", "ok", "error", "unknown"}]
BY DEF Tell, TypeOK

\* A call that was not made has not been sent.
Idle == \A c \in Cmds : cmd[c] = "idle" => tries[c] = 0

LEMMA TypeAsk ==
  ASSUME TypeOK, Idle, LineTypeOK', NEW c \in Cmds, Ask(c)
  PROVE  TypeOK'
<1>1. cmd[c] = "idle" /\ tries[c] < MaxTries
  BY DriverAssumption DEF Ask, Idle
<1>2. tries' \in [Cmds -> 0..MaxTries] /\ wire' \in Seq(Cmds)
  BY <1>1, SentType
     DEF Ask, AskNobody, AskModbus, AskOpcua, AskMqtt, AskAscii, TurnDown, Await, TypeOK
<1>3. /\ cmd' \in [Cmds -> {"idle", "waiting", "done"}]
      /\ answer' \in [Cmds -> {"none", "ok", "error", "unknown"}]
  <2>1. CASE cmd' = [cmd EXCEPT ![c] = "waiting"] /\ UNCHANGED answer
    BY <2>1 DEF TypeOK
  <2>. QED
    BY <2>1, TellType
       DEF Ask, AskNobody, AskModbus, AskOpcua, AskMqtt, AskAscii, TurnDown, Await
<1>. QED
  BY <1>2, <1>3 DEF Ask, TypeOK, link, polling, bounds

\* The sequences between driver and device.
LEMMA TypeExecute ==
  ASSUME TypeOK, LineTypeOK', Execute
  PROVE  TypeOK'
<1>1. PICK c : c = Head(wire)
  OBVIOUS
<1>2. c \in Cmds /\ Tail(wire) \in Seq(Cmds)
  BY <1>1, HeadTailProperties DEF Execute, TypeOK
<1>3. /\ taken' = taken \/ taken' = [taken EXCEPT ![c] = Encode(want[c].dtype, want[c].value)]
      /\ \/ replies' = replies
         \/ \E ok \in BOOLEAN : replies' = Append(replies, [cmd |-> c, ok |-> ok])
  BY <1>1 DEF Execute
<1>4. want[c].dtype \in Formats /\ want[c].value \in Int
  BY <1>2, DriverAssumption DEF TypeOK
<1>5. taken' \in [Cmds -> Seq(0..Word - 1)]
  <2>1. Encode(want[c].dtype, want[c].value) \in Seq(0..Word - 1)
    BY <1>4, EncodeType
  <2>. QED
    BY <1>2, <1>3, <2>1, ExceptIs DEF TypeOK
<1>6. replies' \in Seq([cmd : Cmds, ok : BOOLEAN])
  <2>1. \A ok \in BOOLEAN : [cmd |-> c, ok |-> ok] \in [cmd : Cmds, ok : BOOLEAN]
    BY <1>2
  <2>2. replies \in Seq([cmd : Cmds, ok : BOOLEAN])
    BY DEF TypeOK
  <2>3. \A ok \in BOOLEAN :
          Append(replies, [cmd |-> c, ok |-> ok]) \in Seq([cmd : Cmds, ok : BOOLEAN])
    BY <2>1, <2>2, AppendIs
  <2>. QED
    BY <1>3, <2>2, <2>3
<1>. QED
  BY <1>2, <1>5, <1>6 DEF Execute, TypeOK, link, polling, bounds

LEMMA TypeReceive ==
  ASSUME TypeOK, LineTypeOK', Receive
  PROVE  TypeOK'
<1>1. PICK r : r = Head(replies)
  OBVIOUS
<1>2. r.cmd \in Cmds /\ Tail(replies) \in Seq([cmd : Cmds, ok : BOOLEAN])
  <2>1. replies # << >> /\ replies \in Seq([cmd : Cmds, ok : BOOLEAN])
    BY DEF Receive, TypeOK
  <2>2. r \in [cmd : Cmds, ok : BOOLEAN] /\ Tail(replies) \in Seq([cmd : Cmds, ok : BOOLEAN])
    BY <1>1, <2>1, HeadTailProperties
  <2>. QED
    BY <2>2
<1>3. \/ \E a \in {"ok", "error", "unknown"} : Tell(r.cmd, a)
      \/ UNCHANGED <<cmd, answer>>
  BY <1>1 DEF Receive
<1>4. /\ cmd' \in [Cmds -> {"idle", "waiting", "done"}]
      /\ answer' \in [Cmds -> {"none", "ok", "error", "unknown"}]
  BY <1>2, <1>3, TellType DEF TypeOK
<1>. QED
  BY <1>2, <1>4 DEF Receive, TypeOK, link, polling, bounds

\* What the thread of paho reports.
LEMMA TypeNotify ==
  ASSUME TypeOK, NEW n \in {"online", "error"}
  PROVE  Notify(n) \in Seq({"online", "error"})
BY AppendIs DEF Notify, TypeOK

LEMMA TypeStep == TypeOK /\ Idle /\ [Next]_driverVars => TypeOK'
<1>. SUFFICES ASSUME TypeOK, Idle, [Next]_driverVars PROVE TypeOK'
  OBVIOUS
<1>. USE DriverAssumption
<1>0. LineTypeOK'
  BY LineTypeStep
<1>1. CASE Gone \/ Unplug
  <2>1. conn' \in {"lost", conn} /\ faults' \in 0..MaxFaults /\ wire' \in Seq(Cmds)
    <3>0. Fault
      BY <1>1 DEF Gone, Unplug
    <3>1. faults' \in 0..MaxFaults
      BY <3>0 DEF Fault, TypeOK
    <3>2. (conn' = "lost" \/ conn' = conn) /\ (wire' = wire \/ wire' = << >>)
      BY <1>1 DEF Gone, Unplug, commands
    <3>. QED
      BY <3>1, <3>2, EmptySeq DEF TypeOK
  <2>2. UNCHANGED <<kind, driver, status, notices, polling, cmd, want, tries, answer, replies,
                    taken, restarts, probes>>
        /\ device' \in {device, FALSE} /\ path' \in {path, FALSE}
    BY <1>1 DEF Gone, Unplug, commands
  <2>. QED
    BY <1>0, <2>1, <2>2 DEF TypeOK, polling
<1>2. CASE Back \/ Plug
  BY <1>0, <1>2 DEF Back, Plug, TypeOK, polling, commands, bounds
<1>3. CASE DeadLink \/ DropLink
  <2>1. Lose /\ faults' \in 0..MaxFaults /\ UNCHANGED <<restarts, probes>>
    BY <1>3 DEF DeadLink, DropLink, Fault, TypeOK, bounds
  <2>2. notices' \in Seq({"online", "error"})
    BY <2>1, TypeNotify DEF Lose
  <2>. QED
    BY <1>0, <2>1, <2>2 DEF Lose, TypeOK, polling
<1>4. CASE Reconnect \/ Rejected
  <2>1. notices' \in Seq({"online", "error"})
    BY <1>4, TypeNotify DEF Reconnect, Rejected
  <2>2. faults' \in 0..MaxFaults
    BY <1>4 DEF Reconnect, Rejected, Fault, TypeOK, bounds
  <2>3. conn' \in {"open", conn}
        /\ UNCHANGED <<kind, device, path, driver, status, polling, commands, restarts, probes>>
    BY <1>4 DEF Reconnect, Rejected, bounds
  <2>. QED
    BY <1>0, <2>1, <2>2, <2>3 DEF TypeOK, polling, commands
<1>5. CASE Notice
  <2>1. Head(notices) \in {"online", "error"} /\ Tail(notices) \in Seq({"online", "error"})
    BY <1>5, HeadTailProperties DEF Notice, TypeOK
  <2>. QED
    BY <1>0, <1>5, <2>1 DEF Notice, TypeOK, polling, commands, bounds
<1>6. CASE Stop
  BY <1>0, <1>6 DEF Stop, TypeOK
<1>7. CASE StartPolled \/ StartOpcua \/ StartMqtt \/ StartAscii
  BY <1>0, <1>7 DEF StartPolled, StartOpcua, StartMqtt, StartAscii, Started, Raised, TypeOK,
     polling, commands, bounds
<1>8. CASE Probe
  BY <1>0, <1>8 DEF Probe, TypeOK, link, polling, commands
<1>9. CASE NewRound \/ ReadPoint
  BY <1>0, <1>9 DEF NewRound, ReadPoint, TypeOK, link, commands, bounds
<1>10. CASE DeviceSends \/ ReadLine \/ ReadRaises
  BY <1>0, <1>10 DEF DeviceSends, ReadLine, ReadRaises, TypeOK, link, polling, commands, bounds
<1>11. ASSUME NEW c \in Cmds, Ask(c) PROVE TypeOK'
  BY <1>0, <1>11, TypeAsk
<1>12. ASSUME NEW c \in Cmds, Again(c) PROVE TypeOK'
  BY <1>0, <1>12, SentType DEF Again, TypeOK, link, polling, bounds
<1>13. ASSUME NEW c \in Cmds, GiveUp(c) PROVE TypeOK'
  BY <1>0, <1>13, TellType DEF GiveUp, TypeOK, link, polling, bounds
<1>14. CASE Execute
  BY <1>0, <1>14, TypeExecute
<1>15. CASE Receive
  BY <1>0, <1>15, TypeReceive
<1>16. CASE UNCHANGED driverVars
  BY <1>0, <1>16 DEF driverVars, TypeOK, link, polling, commands, bounds
<1>. QED
  BY <1>1, <1>2, <1>3, <1>4, <1>5, <1>6, <1>7, <1>8, <1>9, <1>10, <1>11, <1>12, <1>13,
     <1>14, <1>15, <1>16 DEF Next

LEMMA IdleStep == TypeOK /\ Idle /\ [Next]_driverVars => Idle'
<1>. SUFFICES ASSUME TypeOK, Idle, [Next]_driverVars PROVE Idle'
  OBVIOUS
<1>1. ASSUME NEW c \in Cmds, Ask(c) PROVE Idle'
  BY <1>1 DEF Ask, AskNobody, AskModbus, AskOpcua, AskMqtt, AskAscii, TurnDown, Await, Sent,
     Tell, TypeOK, Idle
<1>2. ASSUME NEW c \in Cmds, Again(c) PROVE Idle'
  BY <1>2 DEF Again, Sent, TypeOK, Idle
<1>3. ASSUME NEW c \in Cmds, GiveUp(c) PROVE Idle'
  BY <1>3 DEF GiveUp, Tell, TypeOK, Idle
<1>4. CASE Receive
  BY <1>4 DEF Receive, Tell, TypeOK, Idle
<1>5. CASE Stop
  BY <1>5 DEF Stop, TypeOK, Idle
<1>6. CASE UNCHANGED <<cmd, tries>>
  BY <1>6 DEF Idle
<1>. QED
  BY <1>1, <1>2, <1>3, <1>4, <1>5, <1>6
     DEF Next, driverVars, commands, Gone, Back, Unplug, Plug, DeadLink, DropLink, Lose,
         Reconnect, Rejected, Notice, StartPolled, StartOpcua, StartMqtt, StartAscii, Probe, NewRound, ReadPoint,
         DeviceSends, ReadLine, ReadRaises, Execute

-----------------------------------------------------------------------------
(* Where a command is, and what became of it.                              *)

\* A caller who waits, or has yet to call, was told nothing.
Untold == \A c \in Cmds : cmd[c] # "done" => answer[c] = "none"

\* What was never sent is nowhere.
Unsent ==
  \A c \in Cmds : tries[c] = 0 =>
    /\ taken[c] = NotTaken
    /\ \A i \in 1..Len(wire) : wire[i] # c
    /\ \A i \in 1..Len(replies) : replies[i].cmd # c

\* What was sent once is on its way, or answered, or lost.
Once ==
  \A c \in Cmds : tries[c] <= 1 =>
    /\ \A i, j \in 1..Len(wire) : wire[i] = c /\ wire[j] = c => i = j
    /\ \A i \in 1..Len(wire) : wire[i] = c =>
         /\ taken[c] = NotTaken
         /\ \A j \in 1..Len(replies) : replies[j].cmd # c
    /\ \A i \in 1..Len(replies) : replies[i].cmd = c /\ ~replies[i].ok => taken[c] = NotTaken

\* The device says that it has written what it has written.
Honest == \A i \in 1..Len(replies) : replies[i].ok => taken[replies[i].cmd] # NotTaken

\* What the device has written for a command is what the command asks for.
Written ==
  \A c \in Cmds : taken[c] \in {NotTaken, Encode(want[c].dtype, want[c].value)}

\* "error" is what became of a command, whatever is still to come.
Refusals ==
  \A c \in Cmds : answer[c] = "error" /\ tries[c] <= 1 =>
    taken[c] = NotTaken /\ \A i \in 1..Len(wire) : wire[i] # c

\* So is "ok" where the device confirms.
Successes ==
  \A c \in Cmds : answer[c] = "ok" /\ kind \in Confirming => taken[c] # NotTaken

AnswerInv == Idle /\ Untold /\ Unsent /\ Once /\ Honest /\ Written /\ Refusals /\ Successes

\* The steps that leave commands alone, or only lose what was on its way.
LEMMA QuietStep ==
  ASSUME TypeOK, AnswerInv,
         UNCHANGED <<kind, cmd, want, answer, taken>>,
         \/ UNCHANGED <<tries, wire, replies>>
         \/ UNCHANGED <<tries, replies>> /\ wire' = << >>
         \/ UNCHANGED tries /\ wire' = << >> /\ replies' = << >>
         \/ /\ wire' = << >> /\ replies' = << >>
            /\ tries' = [c \in Cmds |-> IF cmd[c] = "waiting" THEN MaxTries ELSE tries[c]]
  PROVE  AnswerInv'
<1>1. CASE UNCHANGED <<tries, wire, replies>>
  BY <1>1 DEF AnswerInv, Idle, Untold, Unsent, Once, Honest, Written, Refusals, Successes
<1>2. CASE wire' = << >> /\ replies' = << >>
  <2>1. Idle' /\ Untold' /\ Written' /\ Successes'
    BY <1>2 DEF AnswerInv, Idle, Untold, Written, Successes
  <2>2. Unsent' /\ Once' /\ Honest'
    BY <1>2, DriverAssumption DEF AnswerInv, Unsent, Once, Honest, TypeOK
  <2>3. Refusals'
    <3>1. ASSUME NEW c \in Cmds, answer'[c] = "error", tries'[c] <= 1
          PROVE  taken'[c] = NotTaken /\ \A i \in 1..Len(wire') : wire'[i] # c
      <4>1. answer[c] = "error" /\ cmd[c] = "done" /\ tries[c] <= 1
        BY <3>1 DEF AnswerInv, Untold, TypeOK
      <4>. QED
        BY <1>2, <4>1, EmptySeq DEF AnswerInv, Refusals
    <3>. QED
      BY <3>1 DEF Refusals
  <2>. QED
    BY <2>1, <2>2, <2>3 DEF AnswerInv
<1>3. CASE UNCHANGED <<tries, replies>> /\ wire' = << >>
  <2>1. \A i \in 1..Len(wire') : FALSE
    BY <1>3, EmptySeq
  <2>2. Idle' /\ Untold' /\ Written' /\ Successes' /\ Honest'
    BY <1>3 DEF AnswerInv, Idle, Untold, Written, Successes, Honest
  <2>3. Unsent' /\ Refusals'
    BY <1>3, <2>1 DEF AnswerInv, Unsent, Refusals
  <2>4. Once'
    BY <1>3, <2>1 DEF AnswerInv, Once
  <2>. QED
    BY <2>2, <2>3, <2>4 DEF AnswerInv
<1>. QED
  BY <1>1, <1>2, <1>3

\* A frame more for c.
LEMMA SentIs ==
  ASSUME TypeOK, AnswerInv, NEW c \in Cmds, Sent(c)
  PROVE  /\ tries'[c] = tries[c] + 1 /\ tries[c] \in Nat
         /\ \A d \in Cmds : d # c => tries'[d] = tries[d]
         /\ \A i \in 1..Len(wire') :
              \/ i \in 1..Len(wire) /\ wire'[i] = wire[i]
              \/ i = Len(wire) + 1 /\ wire'[i] = c
         /\ Len(wire) \in Nat
<1>1. tries \in [Cmds -> 0..MaxTries] /\ wire \in Seq(Cmds) /\ Len(wire) \in Nat
  BY DriverAssumption, LenProperties DEF TypeOK
<1>2. /\ tries'[c] = tries[c] + 1 /\ tries[c] \in Nat
      /\ \A d \in Cmds : d # c => tries'[d] = tries[d]
  BY <1>1, DriverAssumption DEF Sent
<1>3. CASE wire' = wire
  BY <1>1, <1>2, <1>3
<1>4. CASE wire' = Append(wire, c)
  BY <1>1, <1>2, <1>4, AppendIs
<1>. QED
  BY <1>3, <1>4 DEF Sent

\* Sending keeps what is known of the way of a command.
LEMMA SendStep ==
  ASSUME TypeOK, AnswerInv, NEW c \in Cmds, Sent(c), answer[c] # "error",
         UNCHANGED <<replies, taken>>
  PROVE  Unsent' /\ Once' /\ Honest'
         /\ \A d \in Cmds : answer[d] = "error" /\ tries'[d] <= 1 =>
              taken'[d] = NotTaken /\ \A i \in 1..Len(wire') : wire'[i] # d
<1>. USE DEF AnswerInv
<1>1. Honest'
  BY DEF Honest
<1>2. Unsent'
  BY SentIs DEF Unsent
<1>3. ASSUME NEW d \in Cmds, answer[d] = "error", tries'[d] <= 1
      PROVE  taken'[d] = NotTaken /\ \A i \in 1..Len(wire') : wire'[i] # d
  <2>1. d # c
    BY <1>3
  <2>. QED
    BY <1>3, <2>1, SentIs DEF Refusals
<1>4. ASSUME NEW d \in Cmds, tries'[d] <= 1
      PROVE  /\ \A i, j \in 1..Len(wire') : wire'[i] = d /\ wire'[j] = d => i = j
             /\ \A i \in 1..Len(wire') : wire'[i] = d =>
                  /\ taken'[d] = NotTaken
                  /\ \A j \in 1..Len(replies') : replies'[j].cmd # d
             /\ \A i \in 1..Len(replies') :
                  replies'[i].cmd = d /\ ~replies'[i].ok => taken'[d] = NotTaken
  <2>1. CASE d = c
    <3>1. tries[c] = 0
      BY <1>4, <2>1, SentIs
    <3>2. /\ taken[c] = NotTaken
          /\ \A i \in 1..Len(wire) : wire[i] # c
          /\ \A i \in 1..Len(replies) : replies[i].cmd # c
      BY <3>1 DEF Unsent
    <3>. QED
      BY <2>1, <3>2, SentIs
  <2>2. CASE d # c
    <3>1. tries[d] <= 1
      BY <1>4, <2>2, SentIs
    <3>2. \A i \in 1..Len(wire') : wire'[i] = d => i \in 1..Len(wire) /\ wire[i] = d
      BY <2>2, SentIs
    <3>. QED
      BY <3>1, <3>2 DEF Once
  <2>. QED
    BY <2>1, <2>2
<1>. QED
  BY <1>1, <1>2, <1>3, <1>4 DEF Once

LEMMA AskStep ==
  ASSUME TypeOK, AnswerInv, NEW c \in Cmds, Ask(c)
  PROVE  AnswerInv'
<1>. USE DEF AnswerInv
<1>1. tries[c] = 0 /\ answer[c] = "none" /\ cmd[c] = "idle"
  BY DEF Ask, Idle, Untold
<1>2. UNCHANGED <<kind, want, replies, taken>>
  BY DEF Ask, link
<1>3. Written'
  BY <1>2 DEF Written
<1>4. CASE TurnDown(c)
  <2>1. UNCHANGED <<tries, wire>> /\ Tell(c, "error")
    BY <1>4 DEF TurnDown
  <2>2. Unsent' /\ Once' /\ Honest'
    BY <1>2, <2>1 DEF Unsent, Once, Honest
  <2>3. Idle' /\ Untold'
    BY <2>1 DEF Tell, Idle, Untold, TypeOK
  <2>4. Refusals'
    BY <1>1, <1>2, <2>1 DEF Tell, Refusals, Unsent, TypeOK
  <2>5. Successes'
    BY <1>2, <2>1 DEF Tell, Successes, TypeOK
  <2>. QED
    BY <1>3, <2>2, <2>3, <2>4, <2>5
<1>5. CASE Await(c)
  <2>1. Sent(c) /\ UNCHANGED answer /\ cmd' = [cmd EXCEPT ![c] = "waiting"]
    BY <1>5 DEF Await
  <2>2. Unsent' /\ Once' /\ Honest' /\ Refusals'
    BY <1>1, <1>2, <2>1, SendStep DEF Refusals
  <2>3. Idle' /\ Untold'
    BY <1>1, <2>1, SentIs DEF Idle, Untold, TypeOK
  <2>4. Successes'
    BY <1>2, <2>1 DEF Successes
  <2>. QED
    BY <1>3, <2>2, <2>3, <2>4
<1>6. CASE Sent(c) /\ Tell(c, "ok") /\ kind \notin Confirming
  <2>1. Unsent' /\ Once' /\ Honest'
    BY <1>1, <1>2, <1>6, SendStep
  <2>2. Refusals'
    BY <1>1, <1>2, <1>6, SendStep DEF Tell, Refusals, TypeOK
  <2>3. Idle' /\ Untold'
    BY <1>6, SentIs DEF Tell, Idle, Untold, TypeOK
  <2>4. Successes'
    BY <1>2, <1>6 DEF Successes
  <2>. QED
    BY <1>3, <2>1, <2>2, <2>3, <2>4
<1>. QED
  BY <1>4, <1>5, <1>6
     DEF Ask, AskNobody, AskModbus, AskOpcua, AskMqtt, AskAscii, Confirming

LEMMA AgainStep ==
  ASSUME TypeOK, AnswerInv, NEW c \in Cmds, Again(c)
  PROVE  AnswerInv'
<1>. USE DEF AnswerInv
<1>1. Sent(c) /\ cmd[c] = "waiting" /\ UNCHANGED <<kind, cmd, want, answer, replies, taken>>
  BY DEF Again, link
<1>2. answer[c] = "none"
  BY <1>1 DEF Untold
<1>3. Unsent' /\ Once' /\ Honest' /\ Refusals'
  BY <1>1, <1>2, SendStep DEF Refusals
<1>4. Idle' /\ Untold' /\ Written' /\ Successes'
  BY <1>1, SentIs DEF Idle, Untold, Written, Successes
<1>. QED
  BY <1>3, <1>4

LEMMA GiveUpStep ==
  ASSUME TypeOK, AnswerInv, NEW c \in Cmds, GiveUp(c)
  PROVE  AnswerInv'
<1>. USE DEF AnswerInv
<1>1. Tell(c, "unknown") /\ UNCHANGED <<kind, want, tries, wire, replies, taken>>
  BY DEF GiveUp, link
<1>2. Unsent' /\ Once' /\ Honest' /\ Written'
  BY <1>1 DEF Unsent, Once, Honest, Written
<1>3. Idle' /\ Untold' /\ Refusals' /\ Successes'
  BY <1>1 DEF Tell, Idle, Untold, Refusals, Successes, TypeOK
<1>. QED
  BY <1>2, <1>3

\* The device takes the first request.
LEMMA ExecuteStep ==
  ASSUME TypeOK, AnswerInv, Execute
  PROVE  AnswerInv'
<1>. USE DEF AnswerInv
<1>0. PICK c : c = Head(wire)
  OBVIOUS
<1>1. PICK ok \in BOOLEAN :
        /\ taken' = IF ok THEN [taken EXCEPT ![c] = Encode(want[c].dtype, want[c].value)]
                          ELSE taken
        /\ replies' = IF kind \in Confirming THEN Append(replies, [cmd |-> c, ok |-> ok])
                                             ELSE replies
  BY <1>0 DEF Execute
<1>2. UNCHANGED <<kind, cmd, want, tries, answer>>
  BY DEF Execute, link
<1>3. /\ wire \in Seq(Cmds) /\ wire # << >> /\ wire' = Tail(wire)
      /\ replies \in Seq([cmd : Cmds, ok : BOOLEAN])
      /\ taken \in [Cmds -> Seq(0..Word - 1)]
  BY DEF Execute, TypeOK
<1>4. /\ c \in Cmds /\ c = wire[1] /\ 1 \in 1..Len(wire)
      /\ \A i \in 1..Len(wire') : i + 1 \in 1..Len(wire) /\ wire'[i] = wire[i + 1]
  BY <1>0, <1>3, HeadTailProperties, LenProperties, ElementOfSeq
<1>5. want[c].dtype \in Formats /\ want[c].value \in Int
  BY <1>4, DriverAssumption DEF TypeOK
<1>6. Encode(want[c].dtype, want[c].value) # NotTaken
  BY <1>5, EncodeType
<1>7. /\ \A d \in Cmds : d # c => taken'[d] = taken[d]
      /\ ok => taken'[c] = Encode(want[c].dtype, want[c].value)
      /\ ~ok => taken'[c] = taken[c]
  BY <1>1, <1>3, <1>4
<1>8. [cmd |-> c, ok |-> ok] \in [cmd : Cmds, ok : BOOLEAN]
      /\ [cmd |-> c, ok |-> ok].cmd = c /\ [cmd |-> c, ok |-> ok].ok = ok
  BY <1>4
<1>9. \A i \in 1..Len(replies') :
        \/ i \in 1..Len(replies) /\ replies'[i] = replies[i]
        \/ replies'[i].cmd = c /\ replies'[i].ok = ok
  BY <1>1, <1>3, <1>8, AppendIs, LenProperties
<1>10. tries[c] # 0
  BY <1>4 DEF Unsent
<1>11. Idle' /\ Untold'
  BY <1>2 DEF Idle, Untold
<1>12. Written'
  BY <1>2, <1>4, <1>7 DEF Written
<1>13. Unsent'
  BY <1>2, <1>4, <1>7, <1>9, <1>10 DEF Unsent
<1>14. Successes'
  BY <1>2, <1>4, <1>6, <1>7 DEF Successes
<1>15. Honest'
  <2>1. \A d \in Cmds : taken[d] # NotTaken => taken'[d] # NotTaken
    BY <1>4, <1>6, <1>7
  <2>2. \A i \in 1..Len(replies) : replies[i].cmd \in Cmds
    <3>1. \A i \in 1..Len(replies) : replies[i] \in [cmd : Cmds, ok : BOOLEAN]
      BY <1>3, ElementOfSeq
    <3>. QED
      BY <3>1
  <2>. QED
    BY <1>6, <1>7, <1>9, <2>1, <2>2 DEF Honest
<1>16. Refusals'
  BY <1>2, <1>4, <1>7 DEF Refusals
<1>17. ASSUME NEW d \in Cmds, tries[d] <= 1
       PROVE  /\ \A i, j \in 1..Len(wire') : wire'[i] = d /\ wire'[j] = d => i = j
              /\ \A i \in 1..Len(wire') : wire'[i] = d =>
                   /\ taken'[d] = NotTaken
                   /\ \A j \in 1..Len(replies') : replies'[j].cmd # d
              /\ \A i \in 1..Len(replies') :
                   replies'[i].cmd = d /\ ~replies'[i].ok => taken'[d] = NotTaken
  <2>1. CASE d = c
    <3>1. /\ taken[c] = NotTaken
          /\ \A j \in 1..Len(replies) : replies[j].cmd # c
          /\ \A i \in 1..Len(wire) : wire[i] = c => i = 1
      BY <1>4, <1>17, <2>1 DEF Once
    <3>2. \A i \in 1..Len(wire') : wire'[i] # c
      BY <1>4, <3>1
    <3>3. \A i \in 1..Len(replies') : replies'[i].cmd = c => replies'[i].ok = ok
      BY <1>9, <3>1
    <3>. QED
      BY <1>7, <2>1, <3>1, <3>2, <3>3
  <2>2. CASE d # c
    <3>0. /\ \A i, j \in 1..Len(wire) : wire[i] = d /\ wire[j] = d => i = j
          /\ \A i \in 1..Len(wire) : wire[i] = d =>
               /\ taken[d] = NotTaken
               /\ \A j \in 1..Len(replies) : replies[j].cmd # d
      BY <1>17 DEF Once
    <3>1. taken'[d] = taken[d]
      BY <1>7, <2>2
    <3>2. \A i \in 1..Len(replies') : replies'[i].cmd = d =>
            i \in 1..Len(replies) /\ replies'[i] = replies[i]
      BY <1>9, <2>2
    <3>3. \A i \in 1..Len(wire') : wire'[i] = d =>
            /\ taken'[d] = NotTaken
            /\ \A j \in 1..Len(replies') : replies'[j].cmd # d
      BY <1>4, <3>0, <3>1, <3>2
    <3>4. \A i \in 1..Len(replies') :
            replies'[i].cmd = d /\ ~replies'[i].ok => taken'[d] = NotTaken
      BY <1>17, <3>1, <3>2 DEF Once
    <3>5. ASSUME NEW i \in 1..Len(wire'), NEW j \in 1..Len(wire'), wire'[i] = d, wire'[j] = d
          PROVE  i = j
      <4>1. i + 1 = j + 1
        <5>1. wire[i + 1] = d /\ wire[j + 1] = d /\ i + 1 \in 1..Len(wire) /\ j + 1 \in 1..Len(wire)
          BY <1>4, <3>5
        <5>. QED
          BY <3>0, <5>1
      <4>2. i \in Int /\ j \in Int
        OBVIOUS
      <4>. QED
        BY <4>1, <4>2
    <3>. QED
      BY <3>3, <3>4, <3>5
  <2>. QED
    BY <2>1, <2>2
<1>18. Once'
  BY <1>2, <1>17 DEF Once
<1>. QED
  BY <1>11, <1>12, <1>13, <1>14, <1>15, <1>16, <1>18

\* A reply comes in.
LEMMA ReceiveStep ==
  ASSUME TypeOK, AnswerInv, Receive
  PROVE  AnswerInv'
<1>. USE DEF AnswerInv
<1>1. PICK r : r = Head(replies)
  OBVIOUS
<1>2. UNCHANGED <<kind, want, tries, wire, taken>>
  BY DEF Receive, link
<1>3. /\ replies \in Seq([cmd : Cmds, ok : BOOLEAN])
      /\ replies # << >> /\ replies' = Tail(replies)
  BY DEF Receive, TypeOK
<1>4. /\ r = replies[1] /\ 1 \in 1..Len(replies) /\ r.cmd \in Cmds /\ r.ok \in BOOLEAN
      /\ \A i \in 1..Len(replies') : i + 1 \in 1..Len(replies) /\ replies'[i] = replies[i + 1]
  <2>1. r = replies[1] /\ 1 \in 1..Len(replies)
    BY <1>1, <1>3, LenProperties
  <2>2. r \in [cmd : Cmds, ok : BOOLEAN]
    BY <1>3, <2>1, ElementOfSeq
  <2>. QED
    BY <1>3, <2>1, <2>2, HeadTailProperties, LenProperties
<1>5. Unsent' /\ Honest' /\ Written'
  <2>1. Unsent'
    BY <1>2, <1>4 DEF Unsent
  <2>2. Honest'
    BY <1>2, <1>4 DEF Honest
  <2>3. Written'
    BY <1>2, <1>4 DEF Written
  <2>. QED
    BY <2>1, <2>2, <2>3
<1>6. Once'
  <2>1. SUFFICES ASSUME NEW c \in Cmds, tries[c] <= 1
                 PROVE  /\ \A i, j \in 1..Len(wire) : wire[i] = c /\ wire[j] = c => i = j
                        /\ \A i \in 1..Len(wire) : wire[i] = c =>
                             /\ taken[c] = NotTaken
                             /\ \A j \in 1..Len(replies') : replies'[j].cmd # c
                        /\ \A i \in 1..Len(replies') :
                             replies'[i].cmd = c /\ ~replies'[i].ok => taken[c] = NotTaken
    BY <1>2 DEF Once
  <2>2. /\ \A i, j \in 1..Len(wire) : wire[i] = c /\ wire[j] = c => i = j
        /\ \A i \in 1..Len(wire) : wire[i] = c =>
             /\ taken[c] = NotTaken
             /\ \A j \in 1..Len(replies) : replies[j].cmd # c
        /\ \A i \in 1..Len(replies) :
             replies[i].cmd = c /\ ~replies[i].ok => taken[c] = NotTaken
    BY <2>1 DEF Once
  <2>. QED
    BY <1>4, <2>2
<1>7. \/ UNCHANGED <<cmd, answer>>
      \/ Tell(r.cmd, "ok") /\ r.ok
      \/ Tell(r.cmd, "error") /\ ~r.ok
  BY <1>1 DEF Receive, Accepted
<1>8. Idle' /\ Untold'
  <2>1. CASE UNCHANGED <<cmd, answer>>
    BY <1>2, <1>4, <2>1 DEF Idle, Untold
  <2>2. ASSUME NEW a \in {"ok", "error"}, Tell(r.cmd, a) PROVE Idle'
    BY <1>2, <1>4, <2>2 DEF Tell, Idle, TypeOK
  <2>3. ASSUME NEW a \in {"ok", "error"}, Tell(r.cmd, a) PROVE Untold'
    BY <1>2, <1>4, <2>3 DEF Tell, Untold, TypeOK
  <2>. QED
    BY <1>7, <2>1, <2>2, <2>3
<1>9. Successes'
  <2>1. r.ok => taken[r.cmd] # NotTaken
    BY <1>4 DEF Honest
  <2>2. CASE UNCHANGED <<cmd, answer>>
    BY <1>2, <2>2 DEF Successes
  <2>3. CASE Tell(r.cmd, "ok") /\ r.ok
    BY <1>2, <1>4, <2>1, <2>3 DEF Tell, Successes, TypeOK
  <2>4. CASE Tell(r.cmd, "error")
    BY <1>2, <1>4, <2>4 DEF Tell, Successes, TypeOK
  <2>. QED
    BY <1>7, <2>2, <2>3, <2>4
<1>10. Refusals'
  <2>1. ~r.ok /\ tries[r.cmd] <= 1 =>
          taken[r.cmd] = NotTaken /\ \A i \in 1..Len(wire) : wire[i] # r.cmd
    BY <1>4 DEF Once
  <2>. QED
    <3>1. CASE Tell(r.cmd, "error") /\ ~r.ok
      BY <1>2, <1>4, <2>1, <3>1 DEF Tell, Refusals, TypeOK
    <3>2. CASE Tell(r.cmd, "ok")
      BY <1>2, <1>4, <3>2 DEF Tell, Refusals, TypeOK
    <3>3. CASE UNCHANGED answer
      BY <1>2, <3>3 DEF Refusals
    <3>. QED
      BY <1>7, <3>1, <3>2, <3>3
<1>. QED
  BY <1>5, <1>6, <1>8, <1>9, <1>10

LEMMA AnswerStep == TypeOK /\ AnswerInv /\ [Next]_driverVars => AnswerInv'
<1>. SUFFICES ASSUME TypeOK, AnswerInv, [Next]_driverVars PROVE AnswerInv'
  OBVIOUS
<1>1. ASSUME NEW c \in Cmds, Ask(c) \/ Again(c) \/ GiveUp(c) PROVE AnswerInv'
  BY <1>1, AskStep, AgainStep, GiveUpStep
<1>2. CASE Execute \/ Receive
  BY <1>2, ExecuteStep, ReceiveStep
<1>3. CASE DeadLink \/ DropLink
  BY <1>3, QuietStep DEF DeadLink, DropLink, Lose
<1>4. CASE Stop
  BY <1>4, QuietStep DEF Stop
<1>5. CASE UNCHANGED <<kind, commands>>
  BY <1>5, QuietStep DEF commands
<1>6. CASE Unplug
  BY <1>6, QuietStep DEF Unplug
<1>. QED
  BY <1>1, <1>2, <1>3, <1>4, <1>5, <1>6
     DEF Next, driverVars, link, Gone, Back, Plug, Reconnect, Rejected, Notice, StartPolled,
         StartOpcua, StartMqtt, StartAscii, Probe, NewRound, ReadPoint, DeviceSends, ReadLine,
         ReadRaises

-----------------------------------------------------------------------------
(* What cuts cost: a false reading is paid for by a cut before it.  Where   *)
(* characters are missing inside a line the debt of the reader rises, and a *)
(* false reading pays one back.                                            *)

\* Characters, those of a line that is not sent any more included.
Coming == (1..MaxLines + 1) \X (1..Lf)

\* b is the beginning of a line, with nothing missing.
Begins(b) == b = << >> \/ \E n \in 1..MaxLines : \A i \in 1..Len(b) : b[i] = <<n, i>>

\* Nothing is missing between the buffer b and the character ch.
Joins(b, ch) == IF b = << >> THEN ch[2] = 1 ELSE ch = After(b[Len(b)])

\* With b in the buffer and s to come, debt[i] counts the places before s[i + 1]
\* where something is missing; credit is there for all of them.
Owes(debt, b, s, credit) ==
  /\ debt \in [0..Len(s) -> Nat]
  /\ \A i, j \in 0..Len(s) : i <= j => debt[i] <= debt[j]
  /\ debt[0] = 0 => Begins(b) /\ Len(b) < Lf
  /\ debt[0] = debt[1] => Joins(b, s[1])
  /\ \A i \in 1..Len(s) - 1 : debt[i] = debt[i + 1] => s[i + 1] = After(s[i])
  /\ debt[Len(s)] <= credit

\* An empty buffer, and a character in the middle of a line or at its start.
LEMMA OwesNothing ==
  ASSUME NEW x \in Coming, NEW credit \in Nat, x[2] = 1 \/ credit >= 1
  PROVE  \E debt : Owes(debt, << >>, <<x>>, credit)
<1>. DEFINE debt == [i \in 0..1 |-> IF i = 0 \/ x[2] = 1 THEN 0 ELSE 1]
<1>1. Len(<<x>>) = 1 /\ <<x>>[1] = x /\ Len(<< >>) = 0 /\ 0 < Lf
  BY LineAssumption DEF Lf
<1>2. debt \in [0..1 -> Nat] /\ debt[0] = 0 /\ debt[1] = IF x[2] = 1 THEN 0 ELSE 1
  OBVIOUS
<1>. HIDE DEF debt
<1>3. \A i, j \in 0..1 : i <= j => debt[i] <= debt[j]
  BY <1>2
<1>4. debt[1] <= credit
  BY <1>2
<1>5. debt[0] = debt[1] => Joins(<< >>, x)
  BY <1>2 DEF Joins
<1>6. Owes(debt, << >>, <<x>>, credit)
  BY <1>1, <1>2, <1>3, <1>4, <1>5 DEF Owes, Begins
<1>. QED
  BY <1>6

\* More credit does no harm.
LEMMA OwesLess ==
  ASSUME NEW debt, NEW b, NEW s \in Seq(Coming), NEW k \in Int, NEW l \in Int, k <= l,
         Owes(debt, b, s, k)
  PROVE  Owes(debt, b, s, l)
<1>1. debt[Len(s)] \in Nat
  BY DEF Owes
<1>2. debt[Len(s)] <= l
  BY <1>1 DEF Owes
<1>. QED
  BY <1>2 DEF Owes

\* What is sent comes after what was sent before.
LEMMA OwesSend ==
  ASSUME NEW debt, NEW b, NEW s \in Seq(Coming), s # << >>, NEW credit \in Int,
         Owes(debt, b, s, credit), NEW x \in Coming, x = After(s[Len(s)])
  PROVE  \E owed : Owes(owed, b, Append(s, x), credit)
<1>. DEFINE n == Len(s)
            owed == [i \in 0..n + 1 |-> IF i <= n THEN debt[i] ELSE debt[n]]
            t == Append(s, x)
<1>1. /\ n \in Nat /\ n >= 1 /\ Len(t) = n + 1
      /\ \A i \in 1..n : t[i] = s[i]
      /\ t[n + 1] = After(s[n])
  BY AppendIs, LenProperties
<1>2. /\ debt \in [0..n -> Nat]
      /\ \A i, j \in 0..n : i <= j => debt[i] <= debt[j]
      /\ debt[0] = 0 => Begins(b) /\ Len(b) < Lf
      /\ debt[0] = debt[1] => Joins(b, s[1])
      /\ \A i \in 1..n - 1 : debt[i] = debt[i + 1] => s[i + 1] = After(s[i])
      /\ debt[n] <= credit
  BY DEF Owes
<1>. HIDE DEF n, t
<1>3. owed \in [0..n + 1 -> Nat] /\ (\A i \in 0..n : owed[i] = debt[i]) /\ owed[n + 1] = debt[n]
  BY <1>1, <1>2
<1>. HIDE DEF owed
<1>4. ASSUME NEW i \in 0..n + 1, NEW j \in 0..n + 1, i <= j PROVE owed[i] <= owed[j]
  <2>1. CASE j <= n
    BY <1>1, <1>2, <1>3, <1>4, <2>1
  <2>2. CASE j = n + 1 /\ i <= n
    BY <1>1, <1>2, <1>3, <1>4, <2>2
  <2>3. CASE i = n + 1 /\ j = n + 1
    BY <1>1, <1>2, <1>3, <2>3
  <2>. QED
    BY <1>1, <1>4, <2>1, <2>2, <2>3
<1>5. ASSUME NEW i \in 1..n, owed[i] = owed[i + 1] PROVE t[i + 1] = After(t[i])
  <2>1. CASE i = n
    BY <1>1, <2>1
  <2>2. CASE i < n
    <3>1. i \in 1..n - 1 /\ debt[i] = debt[i + 1]
      BY <1>1, <1>3, <1>5, <2>2
    <3>. QED
      BY <1>1, <1>2, <2>2, <3>1
  <2>. QED
    BY <1>1, <2>1, <2>2
<1>6. owed[0] = 0 => Begins(b) /\ Len(b) < Lf
  BY <1>1, <1>2, <1>3
<1>7. owed[0] = owed[1] => Joins(b, t[1])
  BY <1>1, <1>2, <1>3
<1>8. owed[n + 1] <= credit
  BY <1>2, <1>3
<1>9. Owes(owed, b, t, credit)
  BY <1>1, <1>3, <1>4, <1>5, <1>6, <1>7, <1>8 DEF Owes
<1>. QED
  BY <1>9 DEF t

\* The device goes on elsewhere, without a word.
LEMMA OwesUnheard ==
  ASSUME NEW debt, NEW b, NEW q \in Seq(Coming), NEW y \in Coming, NEW x \in Coming,
         NEW credit \in Int, Owes(debt, b, Append(q, y), credit)
  PROVE  \E owed : Owes(owed, b, Append(q, x), credit + 1)
<1>. DEFINE n == Len(q) + 1
            s == Append(q, y)
            t == Append(q, x)
            owed == [i \in 0..n |-> IF i = n THEN debt[n] + 1 ELSE debt[i]]
<1>1. /\ n \in Nat /\ n >= 1 /\ Len(s) = n /\ Len(t) = n
      /\ \A i \in 1..n - 1 : t[i] = s[i]
  BY AppendIs, LenProperties
<1>2. /\ debt \in [0..n -> Nat]
      /\ \A i, j \in 0..n : i <= j => debt[i] <= debt[j]
      /\ debt[0] = 0 => Begins(b) /\ Len(b) < Lf
      /\ debt[0] = debt[1] => Joins(b, s[1])
      /\ \A i \in 1..n - 1 : debt[i] = debt[i + 1] => s[i + 1] = After(s[i])
      /\ debt[n] <= credit
  BY <1>1 DEF Owes
<1>. HIDE DEF n, s, t
<1>3. /\ owed \in [0..n -> Nat] /\ owed[n] = debt[n] + 1 /\ debt[n] \in Nat
      /\ \A i \in 0..n : i # n => owed[i] = debt[i] /\ debt[i] \in Nat /\ debt[i] <= debt[n]
  BY <1>1, <1>2
<1>. HIDE DEF owed
<1>4. ASSUME NEW i \in 0..n, NEW j \in 0..n, i <= j PROVE owed[i] <= owed[j]
  <2>1. CASE j = n
    BY <1>1, <1>3, <2>1
  <2>2. CASE j # n
    <3>1. i # n
      BY <1>1, <1>4, <2>2
    <3>. QED
      BY <1>2, <1>3, <1>4, <2>2, <3>1
  <2>. QED
    BY <2>1, <2>2
<1>5. ASSUME NEW i \in 1..n - 1, owed[i] = owed[i + 1] PROVE t[i + 1] = After(t[i])
  <2>1. i \in 0..n /\ i + 1 \in 0..n /\ i # n
    BY <1>1
  <2>2. i + 1 # n
    BY <1>3, <1>5, <2>1
  <2>3. i + 1 \in 1..n - 1 /\ debt[i] = debt[i + 1]
    BY <1>1, <1>3, <1>5, <2>1, <2>2
  <2>. QED
    BY <1>1, <1>2, <2>3
<1>6. owed[0] = 0 => Begins(b) /\ Len(b) < Lf
  BY <1>1, <1>2, <1>3
<1>7. ASSUME owed[0] = owed[1] PROVE Joins(b, t[1])
  <2>1. 0 \in 0..n /\ 1 \in 0..n /\ 0 # n
    BY <1>1
  <2>2. n # 1
    BY <1>3, <1>7, <2>1
  <2>3. debt[0] = debt[1] /\ 1 \in 1..n - 1
    BY <1>1, <1>3, <1>7, <2>1, <2>2
  <2>. QED
    BY <1>1, <1>2, <2>3
<1>8. owed[n] <= credit + 1
  BY <1>2, <1>3
<1>9. Owes(owed, b, t, credit + 1)
  BY <1>1, <1>3, <1>4, <1>5, <1>6, <1>7, <1>8 DEF Owes
<1>. QED
  BY <1>9 DEF t

\* The kernel's buffer is emptied.
LEMMA OwesFlush ==
  ASSUME NEW debt, NEW b, NEW s \in Seq(Coming), NEW credit \in Int,
         Owes(debt, b, s, credit), NEW x \in Coming
  PROVE  \E owed : Owes(owed, b, <<x>>, credit + 1)
<1>. DEFINE owed == [i \in 0..1 |-> IF i = 0 THEN debt[0] ELSE debt[0] + 1]
<1>1. Len(s) \in Nat /\ debt[0] \in Nat /\ debt[Len(s)] \in Nat /\ debt[0] <= debt[Len(s)]
  BY DEF Owes
<1>2. debt[0] + 1 <= credit + 1
  BY <1>1 DEF Owes
<1>3. Len(<<x>>) = 1 /\ owed \in [0..1 -> Nat] /\ owed[0] = debt[0] /\ owed[1] = debt[0] + 1
  BY <1>1
<1>. HIDE DEF owed
<1>4. \A i, j \in 0..1 : i <= j => owed[i] <= owed[j]
  BY <1>1, <1>3
<1>5. owed[0] # owed[1]
  BY <1>1, <1>3
<1>6. owed[0] = 0 => Begins(b) /\ Len(b) < Lf
  BY <1>3 DEF Owes
<1>7. Owes(owed, b, <<x>>, credit + 1)
  BY <1>2, <1>3, <1>4, <1>5, <1>6 DEF Owes
<1>. QED
  BY <1>7

\* The next character of a line of which nothing is missing.
LEMMA LineGoesOn ==
  ASSUME NEW b \in Seq(Char), Begins(b), Len(b) < Lf, NEW h \in Char, Joins(b, h)
  PROVE  /\ Begins(Append(b, h)) /\ Len(Append(b, h)) <= Lf
         /\ EndsWithTerm(Append(b, h)) <=> Len(Append(b, h)) = Lf
<1>. DEFINE c == Append(b, h)
<1>1. /\ Len(b) \in Nat /\ Len(c) = Len(b) + 1
      /\ \A i \in 1..Len(b) : c[i] = b[i]
      /\ c[Len(c)] = h
  BY AppendIs, LenProperties
<1>2. h[1] \in 1..MaxLines /\ h = <<h[1], h[2]>> /\ LineLen \in Nat /\ Lf = LineLen + 2 /\ Cr = LineLen + 1
      /\ LineLen >= 1
  BY LineAssumption DEF Char, Lf, Cr
<1>. HIDE DEF c
<1>3. PICK n \in 1..MaxLines : \A i \in 1..Len(c) : c[i] = <<n, i>>
  <2>1. CASE b = << >>
    <3>1. Len(c) = 1 /\ h[2] = 1
      BY <1>1, <2>1 DEF Joins
    <3>2. c[1] = <<h[1], 1>>
      BY <1>1, <1>2, <3>1
    <3>3. \A i \in 1..Len(c) : i = 1
      BY <3>1
    <3>. QED
      BY <1>2, <3>2, <3>3
  <2>2. CASE b # << >>
    <3>1. PICK n \in 1..MaxLines : \A i \in 1..Len(b) : b[i] = <<n, i>>
      BY <2>2 DEF Begins
    <3>2. Len(b) >= 1
      BY <1>1, <2>2, EmptySeq
    <3>3. h = <<n, Len(b) + 1>>
      BY <1>1, <2>2, <3>1, <3>2 DEF Joins, After
    <3>. QED
      BY <1>1, <3>1, <3>3
  <2>. QED
    BY <2>1, <2>2
<1>4. Begins(c) /\ Len(c) <= Lf
  BY <1>1, <1>2, <1>3 DEF Begins
<1>5. EndsWithTerm(c) => Len(c) = Lf
  BY <1>1, <1>3 DEF EndsWithTerm
<1>6. Len(c) = Lf => EndsWithTerm(c)
  <2>1. SUFFICES ASSUME Len(c) = Lf PROVE EndsWithTerm(c)
    OBVIOUS
  <2>2. c[Lf] = <<n, Lf>> /\ c[Lf - 1] = <<n, Lf - 1>>
    BY <1>2, <1>3, <2>1
  <2>. QED
    BY <1>2, <2>1, <2>2 DEF EndsWithTerm
<1>. QED
  BY <1>4, <1>5, <1>6 DEF c

\* A line of which nothing is missing is what the device sent.
LEMMA WholeLine ==
  ASSUME NEW c \in Seq(Char), Begins(c), Len(c) = Lf
  PROVE  \E n \in 1..MaxLines : IsLine(Content(c), n)
<1>1. LineLen \in Nat /\ Lf = LineLen + 2
  BY LineAssumption DEF Lf
<1>2. PICK n \in 1..MaxLines : \A i \in 1..Lf : c[i] = <<n, i>>
  BY <1>1 DEF Begins
<1>3. Content(c) = {<<n, k>> : k \in 1..LineLen}
  <2>1. Content(c) = {ch \in {c[i] : i \in 1..Lf} : ch[2] <= LineLen}
    BY DEF Content
  <2>2. ASSUME NEW ch \in Content(c) PROVE \E k \in 1..LineLen : ch = <<n, k>>
    <3>1. PICK i \in 1..Lf : ch = c[i] /\ ch[2] <= LineLen
      BY <2>1
    <3>2. ch = <<n, i>> /\ i \in 1..LineLen
      BY <1>1, <1>2, <3>1
    <3>. QED
      BY <3>2
  <2>3. ASSUME NEW k \in 1..LineLen PROVE <<n, k>> \in Content(c)
    <3>1. k \in 1..Lf /\ c[k] = <<n, k>> /\ <<n, k>>[2] <= LineLen
      BY <1>1, <1>2
    <3>. QED
      BY <2>1, <3>1
  <2>. QED
    BY <2>2, <2>3
<1>. QED
  BY <1>3 DEF IsLine

\* A character is taken: what is left to read, and what is owed for it.
LEMMA OwesTail ==
  ASSUME NEW debt, NEW b \in Seq(Char), NEW s \in Seq(Coming), NEW credit \in Int,
         Len(s) >= 2, s[1] \in Char, Owes(debt, b, s, credit)
  PROVE  /\ Len(Tail(s)) = Len(s) - 1
         /\ \A i \in 1..Len(s) - 1 : Tail(s)[i] = s[i + 1]
         /\ debt[1] \in Nat
         /\ debt[1] = 0 => /\ Begins(Append(b, s[1])) /\ Len(Append(b, s[1])) <= Lf
                           /\ EndsWithTerm(Append(b, s[1])) <=> Len(Append(b, s[1])) = Lf
<1>1. Len(s) \in Nat /\ s # << >>
  BY EmptySeq
<1>2. Len(Tail(s)) = Len(s) - 1 /\ \A i \in 1..Len(s) - 1 : Tail(s)[i] = s[i + 1]
  BY <1>1, HeadTailProperties
<1>3. debt[0] \in Nat /\ debt[1] \in Nat /\ debt[0] <= debt[1]
  BY <1>1 DEF Owes
<1>4. debt[1] = 0 => Begins(b) /\ Len(b) < Lf /\ Joins(b, s[1])
  BY <1>3 DEF Owes
<1>. QED
  BY <1>2, <1>3, <1>4, LineGoesOn

\* The reader goes on with the line.
LEMMA OwesRead ==
  ASSUME NEW debt, NEW b \in Seq(Char), NEW s \in Seq(Coming), NEW credit \in Int,
         Len(s) >= 2, s[1] \in Char, Owes(debt, b, s, credit),
         ~EndsWithTerm(Append(b, s[1]))
  PROVE  \E owed : Owes(owed, Append(b, s[1]), Tail(s), credit)
<1>. DEFINE n == Len(s) - 1
            c == Append(b, s[1])
            t == Tail(s)
            owed == [i \in 0..n |-> debt[i + 1]]
<1>1. /\ Len(t) = n /\ n \in Nat /\ n >= 1 /\ Len(s) = n + 1
      /\ \A i \in 1..n : t[i] = s[i + 1]
  BY OwesTail
<1>2. debt[1] = 0 => Begins(c) /\ Len(c) < Lf
  <2>1. Len(c) \in Nat
    BY AppendIs
  <2>2. debt[1] = 0 => Begins(c) /\ Len(c) <= Lf /\ Len(c) # Lf
    BY OwesTail
  <2>. QED
    BY <2>1, <2>2, LineAssumption DEF Lf
<1>3. c[Len(c)] = s[1] /\ c # << >>
  BY AppendIs, LenProperties
<1>4. /\ debt \in [0..n + 1 -> Nat]
      /\ \A i, j \in 0..n + 1 : i <= j => debt[i] <= debt[j]
      /\ \A i \in 1..n : debt[i] = debt[i + 1] => s[i + 1] = After(s[i])
      /\ debt[n + 1] <= credit
  BY <1>1 DEF Owes
<1>. HIDE DEF n, c, t
<1>5. owed \in [0..n -> Nat] /\ \A i \in 0..n : owed[i] = debt[i + 1]
  BY <1>1, <1>4
<1>. HIDE DEF owed
<1>6. \A i, j \in 0..n : i <= j => owed[i] <= owed[j]
  BY <1>1, <1>4, <1>5
<1>7. owed[0] = 0 => Begins(c) /\ Len(c) < Lf
  BY <1>1, <1>2, <1>5
<1>8. owed[0] = owed[1] => Joins(c, t[1])
  <2>1. 1 \in 1..n /\ t[1] = s[2] /\ owed[0] = debt[1] /\ owed[1] = debt[2]
    BY <1>1, <1>5
  <2>2. debt[1] = debt[2] => s[2] = After(s[1])
    BY <1>4, <2>1
  <2>. QED
    BY <1>3, <2>1, <2>2 DEF Joins
<1>9. ASSUME NEW i \in 1..n - 1, owed[i] = owed[i + 1] PROVE t[i + 1] = After(t[i])
  <2>0. i + 1 \in 1..n /\ i + 1 \in 0..n /\ i \in 0..n /\ i \in 1..n
    BY <1>1
  <2>1. /\ t[i] = s[i + 1] /\ t[i + 1] = s[(i + 1) + 1]
        /\ owed[i] = debt[i + 1] /\ owed[i + 1] = debt[(i + 1) + 1]
    BY <1>1, <1>5, <2>0
  <2>2. debt[i + 1] = debt[(i + 1) + 1] => s[(i + 1) + 1] = After(s[i + 1])
    BY <1>4, <2>0, <2>1
  <2>. QED
    BY <1>9, <2>1, <2>2
<1>10. owed[n] <= credit
  BY <1>1, <1>4, <1>5
<1>11. Owes(owed, c, t, credit)
  BY <1>1, <1>5, <1>6, <1>7, <1>8, <1>9, <1>10 DEF Owes
<1>. QED
  BY <1>11 DEF c, t

\* The line is complete: a false one pays back a unit of the debt.
LEMMA OwesLine ==
  ASSUME NEW debt, NEW b \in Seq(Char), NEW s \in Seq(Coming), NEW credit \in Int,
         Len(s) >= 2, s[1] \in Char, Owes(debt, b, s, credit),
         EndsWithTerm(Append(b, s[1]))
  PROVE  /\ \/ \E n \in 1..MaxLines : IsLine(Content(Append(b, s[1])), n)
            \/ credit >= 1 /\ \E owed : Owes(owed, << >>, Tail(s), credit - 1)
         /\ \E owed : Owes(owed, << >>, Tail(s), credit)
<1>. DEFINE n == Len(s) - 1
            t == Tail(s)
            c == Append(b, s[1])
<1>1. /\ Len(t) = n /\ n \in Nat /\ n >= 1 /\ Len(s) = n + 1
      /\ \A i \in 1..n : t[i] = s[i + 1]
  BY OwesTail
<1>2. /\ debt \in [0..n + 1 -> Nat]
      /\ \A i, j \in 0..n + 1 : i <= j => debt[i] <= debt[j]
      /\ \A i \in 1..n : debt[i] = debt[i + 1] => s[i + 1] = After(s[i])
      /\ debt[n + 1] <= credit
  BY <1>1 DEF Owes
<1>3. s[1][2] = Lf
  BY AppendIs, LenProperties DEF EndsWithTerm
<1>4. debt[1] = 0 => \E k \in 1..MaxLines : IsLine(Content(c), k)
  <2>1. Len(c) \in Nat /\ c \in Seq(Char)
    BY AppendIs
  <2>2. debt[1] = 0 => Begins(c) /\ Len(c) = Lf
    BY OwesTail
  <2>. QED
    BY <2>1, <2>2, WholeLine
<1>. HIDE DEF n, t, c
<1>5. 1 \in 0..n + 1 /\ n + 1 \in 0..n + 1 /\ debt[1] \in Nat /\ debt[n + 1] \in Nat
      /\ debt[1] <= debt[n + 1]
  BY <1>1, <1>2
<1>6. ASSUME NEW w \in {0, 1}, w <= debt[1]
      PROVE  \E owed : Owes(owed, << >>, t, credit - w)
  <2>. DEFINE owed == [i \in 0..n |-> debt[i + 1] - w]
  <2>1. ASSUME NEW i \in 0..n PROVE owed[i] = debt[i + 1] - w /\ owed[i] \in Nat
    <3>1. i + 1 \in 0..n + 1 /\ 1 <= i + 1 /\ debt[i + 1] \in Nat
      BY <1>1, <1>2
    <3>2. debt[1] <= debt[i + 1]
      BY <1>2, <1>5, <3>1
    <3>. QED
      BY <1>5, <1>6, <3>1, <3>2
  <2>2. owed \in [0..n -> Nat]
    BY <2>1
  <2>. HIDE DEF owed
  <2>3. ASSUME NEW i \in 0..n, NEW j \in 0..n, i <= j PROVE owed[i] <= owed[j]
    <3>1. i + 1 \in 0..n + 1 /\ j + 1 \in 0..n + 1 /\ i + 1 <= j + 1
      BY <1>1, <2>3
    <3>2. debt[i + 1] <= debt[j + 1] /\ debt[i + 1] \in Nat /\ debt[j + 1] \in Nat
      BY <1>2, <3>1
    <3>. QED
      BY <2>1, <3>2
  <2>4. ASSUME NEW i \in 0..n - 1, owed[i] = owed[i + 1] PROVE s[(i + 1) + 1] = After(s[i + 1])
    <3>1. /\ i \in 0..n /\ i + 1 \in 0..n /\ i + 1 \in 1..n
          /\ i + 1 \in 0..n + 1 /\ (i + 1) + 1 \in 0..n + 1
      BY <1>1
    <3>2. debt[i + 1] \in Nat /\ debt[(i + 1) + 1] \in Nat
      BY <1>2, <3>1
    <3>3. owed[i] = debt[i + 1] - w /\ owed[i + 1] = debt[(i + 1) + 1] - w
      BY <2>1, <3>1
    <3>4. debt[i + 1] = debt[(i + 1) + 1]
      <4>1. w \in Nat
        OBVIOUS
      <4>2. debt[i + 1] - w = debt[(i + 1) + 1] - w
        BY <2>4, <3>3
      <4>. QED
        BY <3>2, <4>1, <4>2
    <3>. QED
      BY <1>2, <3>1, <3>4
  <2>5. owed[0] = owed[1] => Joins(<< >>, t[1])
    <3>1. 0 \in 0..n - 1 /\ 1 \in 1..n /\ t[1] = s[1 + 1]
      BY <1>1
    <3>2. owed[0] = owed[1] => s[2] = After(s[1])
      BY <2>4, <3>1
    <3>. QED
      BY <1>3, <3>1, <3>2 DEF Joins, After
  <2>6. ASSUME NEW i \in 1..n - 1, owed[i] = owed[i + 1] PROVE t[i + 1] = After(t[i])
    <3>1. i \in 0..n - 1 /\ t[i] = s[i + 1] /\ t[i + 1] = s[(i + 1) + 1]
      BY <1>1
    <3>. QED
      BY <2>4, <2>6, <3>1
  <2>7. owed[n] <= credit - w
    BY <1>1, <1>2, <1>5, <2>1
  <2>8. Len(<< >>) = 0 /\ 0 < Lf
    BY LineAssumption DEF Lf
  <2>9. Owes(owed, << >>, t, credit - w)
    BY <1>1, <2>2, <2>3, <2>5, <2>6, <2>7, <2>8 DEF Owes, Begins
  <2>. QED
    BY <2>9
<1>7. \E owed : Owes(owed, << >>, t, credit)
  <2>1. credit - 0 = credit /\ 0 <= debt[1]
    BY <1>5
  <2>. QED
    BY <1>6, <2>1
<1>8. CASE debt[1] = 0
  BY <1>4, <1>7, <1>8 DEF c, t
<1>9. CASE debt[1] # 0
  <2>1. 1 <= debt[1] /\ credit >= 1
    BY <1>2, <1>5, <1>9
  <2>. QED
    BY <1>6, <1>7, <2>1 DEF t
<1>. QED
  BY <1>8, <1>9

\* What is on the way to the reader: the kernel's characters, and the one that
\* the device sends next.
Ahead == Append(tty, next)

\* Every false reading has been paid for, and what is owed can be paid.
Paid ==
  /\ wrong <= cuts
  /\ kind = "ascii" =>
       IF conn = "open" THEN \E debt : Owes(debt, buf, Ahead, cuts - wrong)
                        ELSE tty = << >> /\ buf = << >>

\* A line comes out, or what is left of one.
LEMMA PaidEmit ==
  ASSUME TypeOK, NEW c \in Seq(Char), NEW s, Emit(c),
         \/ \E n \in 1..MaxLines : IsLine(Content(c), n)
         \/ cuts - wrong >= 1 /\ \E owed : Owes(owed, << >>, s, cuts - wrong - 1),
         \E owed : Owes(owed, << >>, s, cuts - wrong), wrong <= cuts
  PROVE  wrong' <= cuts /\ \E owed : Owes(owed, << >>, s, cuts - wrong')
<1>1. wrong \in Nat /\ cuts \in Nat
  BY DEF TypeOK, LineTypeOK
<1>2. CASE wrong' = wrong
  BY <1>2
<1>3. CASE wrong' # wrong
  <2>1. wrong' = wrong + 1 /\ \A n \in 1..MaxLines : ~IsLine(Content(c), n)
    BY <1>3 DEF Emit
  <2>2. cuts - wrong' = cuts - wrong - 1 /\ (cuts - wrong >= 1 => wrong' <= cuts)
    BY <1>1, <2>1
  <2>. QED
    BY <2>1, <2>2
<1>. QED
  BY <1>2, <1>3

\* What is ahead, while the port is open.
LEMMA AheadIs ==
  ASSUME TypeOK
  PROVE  /\ next \in Coming /\ tty \in Seq(Coming) /\ Ahead \in Seq(Coming)
         /\ Len(Ahead) = Len(tty) + 1 /\ Ahead # << >> /\ Ahead[Len(Ahead)] = next
         /\ tty = << >> => Ahead = <<next>>
         /\ tty # << >> => /\ Len(Ahead) >= 2 /\ Ahead[1] = Head(tty) /\ Head(tty) \in Char
                           /\ Tail(Ahead) = Append(Tail(tty), next)
<1>1. next \in Coming /\ tty \in Seq(Char) /\ tty \in Seq(Coming)
  <2>1. Char \subseteq Coming
    BY LineAssumption DEF Char, Coming
  <2>. QED
    BY <2>1, LineAssumption DEF TypeOK, LineTypeOK, Coming
<1>2. /\ Ahead \in Seq(Coming) /\ Len(Ahead) = Len(tty) + 1 /\ Ahead # << >>
      /\ Ahead[Len(Ahead)] = next /\ Len(tty) \in Nat
  <2>1. Len(tty) \in Nat
    BY <1>1, LenProperties
  <2>2. Append(tty, next) \in Seq(Coming) /\ Len(Append(tty, next)) = Len(tty) + 1
    BY <1>1, AppendIs
  <2>3. Append(tty, next)[Len(tty) + 1] = next
    BY <1>1, <2>1
  <2>4. Append(tty, next) # << >>
    BY <2>1, <2>2
  <2>. QED
    BY <2>1, <2>2, <2>3, <2>4 DEF Ahead
<1>3. tty = << >> => Ahead = <<next>>
  BY DEF Ahead
<1>4. ASSUME tty # << >>
      PROVE  /\ Len(Ahead) >= 2 /\ Ahead[1] = Head(tty) /\ Head(tty) \in Char
             /\ Tail(Ahead) = Append(Tail(tty), next)
  <2>1. Len(tty) >= 1 /\ Head(tty) \in Char /\ Head(tty) = tty[1]
    BY <1>1, <1>4, <1>2, EmptySeq
  <2>2. Ahead[1] = tty[1]
    BY <1>1, <1>2, <2>1, AppendIs DEF Ahead
  <2>3. Tail(Append(tty, next)) = Append(Tail(tty), next)
    BY <1>1, <1>4, <2>1
  <2>. QED
    BY <1>2, <2>1, <2>2, <2>3 DEF Ahead
<1>. QED
  BY <1>1, <1>2, <1>3, <1>4

\* The device sends a character.
LEMMA PaidSend ==
  ASSUME TypeOK, Paid, kind = "ascii", Send(conn = "open"), UNCHANGED <<kind, conn>>
  PROVE  Paid'
<1>1. CASE conn = "open"
  <2>1. PICK debt : Owes(debt, buf, Ahead, cuts - wrong)
    BY <1>1 DEF Paid
  <2>2. Ahead' = Append(Ahead, After(next))
    BY <1>1 DEF Send, Ahead
  <2>3. After(next) \in Coming
    <3>1. next[1] \in 1..MaxLines /\ next[2] \in 1..Lf
      BY LineAssumption DEF Send, TypeOK, LineTypeOK
    <3>. QED
      BY <3>1, LineAssumption DEF After, Coming, Lf
  <2>4. cuts - wrong \in Int
    BY DEF TypeOK, LineTypeOK
  <2>5. Ahead \in Seq(Coming) /\ Ahead # << >> /\ Ahead[Len(Ahead)] = next
    BY AheadIs
  <2>6. \E owed : Owes(owed, buf, Append(Ahead, After(next)), cuts - wrong)
    BY <2>1, <2>3, <2>4, <2>5, OwesSend
  <2>. QED
    BY <1>1, <2>2, <2>6 DEF Paid, Send
<1>2. CASE conn # "open"
  BY <1>2 DEF Paid, Send
<1>. QED
  BY <1>1, <1>2

\* The reader takes a character.
LEMMA PaidRead ==
  ASSUME TypeOK, Paid, kind = "ascii", conn = "open", ReadChar, UNCHANGED <<kind, conn>>
  PROVE  Paid'
<1>. DEFINE c == Append(buf, Head(tty))
<1>1. PICK debt : Owes(debt, buf, Ahead, cuts - wrong)
  BY DEF Paid
<1>2. /\ cuts - wrong \in Int /\ buf \in Seq(Char)
      /\ Ahead \in Seq(Coming) /\ Len(Ahead) >= 2
      /\ Ahead[1] = Head(tty) /\ Ahead[1] \in Char
  <2>1. cuts - wrong \in Int /\ buf \in Seq(Char)
    BY DEF TypeOK, LineTypeOK
  <2>2. tty # << >>
    BY DEF ReadChar
  <2>. QED
    BY <2>1, <2>2, AheadIs
<1>3. Tail(Ahead) = Append(Tail(tty), next)
  BY AheadIs DEF ReadChar
<1>4. Ahead' = Tail(Ahead) /\ UNCHANGED cuts
  BY <1>3 DEF ReadChar, Ahead
<1>5. CASE EndsWithTerm(c)
  <2>1. buf' = << >> /\ Emit(c)
    BY <1>5 DEF ReadChar, AfterLine
  <2>2. c \in Seq(Char)
    BY <1>2, AppendIs
  <2>3. /\ \/ \E n \in 1..MaxLines : IsLine(Content(c), n)
           \/ /\ cuts - wrong >= 1
              /\ \E owed : Owes(owed, << >>, Tail(Ahead), cuts - wrong - 1)
        /\ \E owed : Owes(owed, << >>, Tail(Ahead), cuts - wrong)
    BY <1>1, <1>2, <1>5, OwesLine
  <2>4. wrong' <= cuts /\ \E owed : Owes(owed, << >>, Tail(Ahead), cuts - wrong')
    BY <2>1, <2>2, <2>3, PaidEmit DEF Paid
  <2>. QED
    BY <1>4, <2>1, <2>4 DEF Paid
<1>6. CASE ~EndsWithTerm(c)
  <2>1. buf' = c /\ UNCHANGED wrong
    BY <1>6 DEF ReadChar
  <2>2. \E owed : Owes(owed, c, Tail(Ahead), cuts - wrong)
    BY <1>1, <1>2, <1>6, OwesRead
  <2>. QED
    BY <1>4, <2>1, <2>2 DEF Paid
<1>. QED
  BY <1>5, <1>6

\* Both buffers are empty, and what was in the middle of a line is paid for.
LEMMA PaidEmpty ==
  ASSUME TypeOK, wrong <= cuts, tty' = << >>, buf' = << >>, UNCHANGED <<next, wrong>>,
         cuts' \in {cuts, cuts + 1}, next[2] = 1 \/ cuts' - wrong >= 1
  PROVE  wrong' <= cuts' /\ \E debt : Owes(debt, buf', Ahead', cuts' - wrong')
<1>1. next \in Coming
  BY AheadIs
<1>2. cuts \in Nat /\ wrong \in Nat
  BY DEF TypeOK, LineTypeOK
<1>3. cuts' - wrong \in Nat /\ wrong <= cuts'
  <2>1. CASE cuts' = cuts
    BY <1>2, <2>1
  <2>2. CASE cuts' = cuts + 1
    BY <1>2, <2>2
  <2>. QED
    BY <2>1, <2>2
<1>4. Ahead' = <<next>>
  BY DEF Ahead
<1>5. \E debt : Owes(debt, << >>, <<next>>, cuts' - wrong)
  BY <1>1, <1>3, OwesNothing
<1>. QED
  BY <1>3, <1>4, <1>5

\* A second without a character.
LEMMA PaidPause ==
  ASSUME TypeOK, Paid, kind = "ascii", conn = "open", Pause, UNCHANGED <<kind, conn>>
  PROVE  Paid'
<1>1. cuts \in Nat /\ wrong \in Nat /\ wrong <= cuts /\ buf \in Seq(Char)
  BY DEF TypeOK, LineTypeOK, Paid
<1>2. /\ cuts' = IF Content(buf) # {} THEN cuts + 1 ELSE cuts
      /\ tty' = << >> /\ buf' = << >> /\ UNCHANGED <<next, wrong>>
  BY DEF Pause, CountCut
<1>3. CASE Content(buf) # {}
  BY <1>1, <1>2, <1>3, PaidEmpty DEF Paid
<1>4. CASE Content(buf) = {}
  <2>1. PICK debt : Owes(debt, buf, Ahead, cuts - wrong)
    BY DEF Paid
  <2>2. ~Begins(buf)
    <3>1. SUFFICES ASSUME Begins(buf) PROVE FALSE
      OBVIOUS
    <3>2. Len(buf) >= 1
      BY <1>1, EmptySeq DEF Pause
    <3>3. PICK n \in 1..MaxLines : buf[1] = <<n, 1>>
      BY <3>1, <3>2 DEF Begins, Pause
    <3>4. buf[1] \in Content(buf)
      BY <3>2, <3>3, LineAssumption DEF Content
    <3>. QED
      BY <1>4, <3>4
  <2>3. Len(Ahead) \in Nat
    BY AheadIs, LenProperties
  <2>4. /\ debt[0] \in Nat /\ debt[Len(Ahead)] \in Nat /\ debt[0] # 0
        /\ debt[0] <= debt[Len(Ahead)] /\ debt[Len(Ahead)] <= cuts - wrong
    BY <2>1, <2>2, <2>3 DEF Owes
  <2>5. cuts - wrong >= 1
    BY <1>1, <2>4
  <2>. QED
    BY <1>1, <1>2, <1>4, <2>5, PaidEmpty DEF Paid
<1>. QED
  BY <1>3, <1>4

\* The port is opened by the driver, and by another beside it; it is closed.
LEMMA PaidOpen ==
  ASSUME TypeOK, Paid, OpenPort, conn' = "open"
  PROVE  Paid'
<1>1. cuts \in Nat /\ wrong \in Nat /\ wrong <= cuts
  BY DEF TypeOK, LineTypeOK, Paid
<1>2. /\ cuts' = IF next[2] # 1 THEN cuts + 1 ELSE cuts
      /\ tty' = << >> /\ buf' = << >> /\ UNCHANGED <<next, wrong>>
  BY DEF OpenPort, CountCut
<1>. QED
  BY <1>1, <1>2, PaidEmpty DEF Paid

LEMMA PaidFlush ==
  ASSUME TypeOK, Paid, Flush, UNCHANGED <<kind, conn>>
  PROVE  Paid'
<1>1. cuts \in Nat /\ wrong \in Nat /\ wrong <= cuts
  BY DEF TypeOK, LineTypeOK, Paid
<1>2. /\ cuts' = IF tty # << >> THEN cuts + 1 ELSE cuts
      /\ tty' = << >> /\ UNCHANGED <<next, buf, wrong>>
  BY DEF Flush, CountCut
<1>3. CASE kind = "ascii" /\ conn = "open"
  <2>1. PICK debt : Owes(debt, buf, Ahead, cuts - wrong)
    BY <1>3 DEF Paid
  <2>2. CASE tty = << >>
    BY <1>2, <1>3, <2>2 DEF Paid, Ahead
  <2>3. CASE tty # << >>
    <3>1. Ahead' = <<next>> /\ cuts' - wrong' = cuts - wrong + 1 /\ wrong' <= cuts'
      BY <1>1, <1>2, <2>3 DEF Ahead
    <3>2. cuts - wrong \in Int /\ next \in Coming /\ Ahead \in Seq(Coming)
      BY <1>1, AheadIs
    <3>3. \E owed : Owes(owed, buf, <<next>>, cuts - wrong + 1)
      BY <2>1, <3>2, OwesFlush
    <3>. QED
      BY <1>2, <1>3, <3>1, <3>3 DEF Paid
  <2>. QED
    BY <2>2, <2>3
<1>4. CASE ~(kind = "ascii" /\ conn = "open")
  BY <1>1, <1>2, <1>4 DEF Paid
<1>. QED
  BY <1>3, <1>4

LEMMA PaidDrop ==
  ASSUME TypeOK, Paid, DropPort, conn' # "open"
  PROVE  Paid'
BY DEF TypeOK, LineTypeOK, Paid, DropPort, CountCut

\* The device comes back in another place of its lines.
LEMMA PaidUnheard ==
  ASSUME TypeOK, Paid, kind = "ascii", conn = "open", Unheard, UNCHANGED <<kind, conn>>
  PROVE  Paid'
<1>1. cuts \in Nat /\ wrong \in Nat /\ wrong <= cuts
  BY DEF TypeOK, LineTypeOK, Paid
<1>2. cuts' = cuts + 1 /\ UNCHANGED <<tty, buf, wrong>>
  BY DEF Unheard, CountCut
<1>3. tty \in Seq(Coming) /\ next \in Coming
  BY AheadIs
<1>4. next' \in Coming
  <2>1. next' \in Char \cup {<<MaxLines + 1, 1>>}
    BY DEF Unheard
  <2>. QED
    BY <2>1, LineAssumption DEF Char, Coming, Lf
<1>5. PICK debt : Owes(debt, buf, Append(tty, next), cuts - wrong)
  BY DEF Paid, Ahead
<1>6. cuts - wrong \in Int /\ cuts' - wrong' = (cuts - wrong) + 1 /\ wrong' <= cuts'
  BY <1>1, <1>2
<1>7. \E owed : Owes(owed, buf, Append(tty, next'), (cuts - wrong) + 1)
  BY <1>3, <1>4, <1>5, <1>6, OwesUnheard
<1>8. Ahead' = Append(tty, next') /\ buf' = buf
  BY <1>2 DEF Ahead
<1>. QED
  BY <1>6, <1>7, <1>8 DEF Paid

\* Any step of the driver.
LEMMA PaidStep == TypeOK /\ Paid /\ [Next]_driverVars => Paid'
<1>. SUFFICES ASSUME TypeOK, Paid, [Next]_driverVars PROVE Paid'
  OBVIOUS
<1>1. ASSUME UNCHANGED lineVars, kind # "ascii" \/ UNCHANGED conn, UNCHANGED kind PROVE Paid'
  BY <1>1 DEF Paid, lineVars, Ahead
<1>2. CASE DeviceSends
  BY <1>2, PaidSend DEF DeviceSends, link
<1>3. CASE ReadLine
  BY <1>3, PaidRead, PaidPause DEF ReadLine
<1>4. CASE StartAscii
  <2>1. CASE OpenPort /\ Started
    BY <2>1, PaidOpen DEF Started
  <2>2. CASE UNCHANGED lineVars /\ Raised
    BY <1>1, <1>4, <2>2 DEF StartAscii, Raised
  <2>. QED
    BY <1>4, <2>1, <2>2 DEF StartAscii
<1>5. CASE Probe
  BY <1>5, PaidFlush DEF Probe, link
<1>6. CASE Unplug
  <2>1. CASE DropPort /\ conn' = "lost"
    BY <2>1, PaidDrop
  <2>. QED
    BY <1>1, <1>6, <2>1 DEF Unplug
<1>7. CASE Stop
  <2>1. CASE DropPort
    BY <1>7, <2>1, PaidDrop DEF Stop
  <2>. QED
    BY <1>1, <1>7, <2>1 DEF Stop
<1>8. CASE DeadLink \/ DropLink
  BY <1>1, <1>8 DEF DeadLink, DropLink, Lose
<1>9. CASE Reconnect \/ StartPolled \/ StartOpcua \/ StartMqtt
  BY <1>1, <1>9 DEF Reconnect, StartPolled, StartOpcua, StartMqtt, Reconnecting, Returning, Polled
<1>10. CASE Gone \/ Plug \/ Rejected \/ Notice \/ NewRound \/ ReadPoint \/ ReadRaises
  BY <1>1, <1>10 DEF Gone, Plug, Rejected, Notice, NewRound, ReadPoint, ReadRaises, link
<1>11. CASE \/ \E c \in Cmds : Ask(c) \/ Again(c) \/ GiveUp(c)
            \/ Execute \/ Receive
  BY <1>1, <1>11 DEF Ask, Again, GiveUp, Execute, Receive, link
<1>12. CASE UNCHANGED driverVars
  BY <1>1, <1>12 DEF driverVars, link
<1>13. CASE Back
  BY <1>1, <1>13, PaidUnheard DEF Back
<1>. QED
  BY <1>2, <1>3, <1>4, <1>5, <1>6, <1>7, <1>8, <1>9, <1>10, <1>11, <1>12, <1>13 DEF Next

-----------------------------------------------------------------------------
(* The theorems.                                                           *)

LEMMA Initially == Init => TypeOK /\ AnswerInv
<1>. SUFFICES ASSUME Init PROVE AnswerInv
  BY TypeInit
<1>1. Idle /\ Untold /\ Unsent /\ Written
  BY DEF Init, Idle, Untold, Unsent, Written, NotTaken
<1>2. Once /\ Honest /\ Refusals /\ Successes
  BY DEF Init, Once, Honest, Refusals, Successes, NotTaken
<1>. QED
  BY <1>1, <1>2 DEF AnswerInv

LEMMA AnswersInductive == Spec => [](TypeOK /\ AnswerInv)
<1>1. TypeOK /\ AnswerInv /\ [Next]_driverVars => (TypeOK /\ AnswerInv)'
  BY TypeStep, AnswerStep DEF AnswerInv
<1>. QED
  BY <1>1, Initially, PTL DEF Spec

\* The caller of c may be told something, by a step that the device is no part of.
LEMMA ToldStep ==
  ASSUME TypeOK, AnswerInv, TypeOK', AnswerInv', NEW c \in Cmds, answer[c] = "none",
         UNCHANGED <<kind, taken>>,
         \A d \in Cmds : d # c => answer'[d] = answer[d] /\ tries'[d] = tries[d]
  PROVE  [Promise!Next]_(Promise!vars)
<1>. DEFINE told == [d \in Cmds |-> Told(d)]
            done == [d \in Cmds |-> IF taken[d] = NotTaken THEN {} ELSE {"ok"}]
<1>1. \A d \in Cmds : d # c => Told(d)' = Told(d)
  BY DEF Told
<1>2. told' = [told EXCEPT ![c] = Told(c)'] /\ told[c] = "nothing" /\ done' = done
  BY <1>1 DEF Told
<1>3. CASE answer'[c] = "none"
  <2>1. Told(c)' = "nothing"
    BY <1>3 DEF Told
  <2>. QED
    BY <1>2, <2>1 DEF Promise!vars
<1>4. CASE answer'[c] # "none"
  <2>1. /\ Told(c)' \in {"never", "ok", "unknown"}
        /\ Told(c)' = "never" => answer'[c] = "error" /\ tries'[c] <= 1
        /\ Told(c)' = "ok" => answer'[c] = "ok" /\ kind' \in Confirming
    BY <1>4 DEF Told
  <2>2. Told(c)' \in done[c] \cup {"never", "unknown"}
    BY <2>1 DEF AnswerInv, Successes
  <2>3. Told(c)' = "never" => done[c] = {}
    BY <2>1 DEF AnswerInv, Refusals
  <2>4. Promise!Tell(c)
    BY <1>2, <2>2, <2>3 DEF Promise!Tell
  <2>. QED
    BY <2>4 DEF Promise!Next
<1>. QED
  BY <1>3, <1>4

\* The device has written c, or refused it.
LEMMA CarriedOut ==
  ASSUME TypeOK, AnswerInv, Execute
  PROVE  [Promise!Next]_(Promise!vars)
<1>. DEFINE told == [d \in Cmds |-> Told(d)]
            done == [d \in Cmds |-> IF taken[d] = NotTaken THEN {} ELSE {"ok"}]
<1>0. PICK c : c = Head(wire)
  OBVIOUS
<1>1. c \in Cmds /\ 1 \in 1..Len(wire) /\ wire[1] = c
  BY <1>0, HeadTailProperties, LenProperties, ElementOfSeq DEF Execute, TypeOK
<1>2. \/ taken' = [taken EXCEPT ![c] = Encode(want[c].dtype, want[c].value)]
      \/ taken' = taken
  BY <1>0 DEF Execute
<1>3. told' = told
  BY DEF Execute, link, Told
<1>4. CASE taken' = taken
  BY <1>3, <1>4 DEF Promise!vars
<1>5. CASE taken' = [taken EXCEPT ![c] = Encode(want[c].dtype, want[c].value)]
  <2>1. Encode(want[c].dtype, want[c].value) # NotTaken
    BY <1>1, EncodeType, DriverAssumption DEF TypeOK
  <2>2. done' = [done EXCEPT ![c] = done[c] \cup {"ok"}]
    BY <1>1, <1>5, <2>1 DEF TypeOK
  <2>3. told[c] # "never"
    BY <1>1 DEF Told, AnswerInv, Refusals
  <2>4. Promise!CarryOut(c)
    BY <1>3, <2>2, <2>3 DEF Promise!CarryOut
  <2>. QED
    BY <1>1, <2>4 DEF Promise!Next
<1>. QED
  BY <1>2, <1>4, <1>5

LEMMA PromiseStep ==
  ASSUME TypeOK, AnswerInv, TypeOK', AnswerInv', [Next]_driverVars
  PROVE  [Promise!Next]_(Promise!vars)
<1>1. ASSUME NEW c \in Cmds, Ask(c) \/ Again(c) \/ GiveUp(c)
      PROVE  [Promise!Next]_(Promise!vars)
  <2>1. answer[c] = "none"
    BY <1>1 DEF Ask, Again, GiveUp, AnswerInv, Untold
  <2>2. UNCHANGED <<kind, taken>>
    BY <1>1 DEF Ask, Again, GiveUp, link
  <2>3. \A d \in Cmds : d # c => answer'[d] = answer[d] /\ tries'[d] = tries[d]
    <3>1. Sent(c) \/ UNCHANGED tries
      BY <1>1 DEF Ask, AskNobody, AskModbus, AskOpcua, AskMqtt, AskAscii, Await, TurnDown,
                  Again, GiveUp
    <3>2. UNCHANGED answer \/ \E a \in {"ok", "error", "unknown"} : Tell(c, a)
      BY <1>1 DEF Ask, AskNobody, AskModbus, AskOpcua, AskMqtt, AskAscii, Await, TurnDown,
                  Again, GiveUp
    <3>. QED
      BY <3>1, <3>2 DEF Sent, Tell, TypeOK
  <2>. QED
    BY <2>1, <2>2, <2>3, ToldStep
<1>2. CASE Execute
  BY <1>2, CarriedOut
<1>3. CASE Receive
  <2>1. PICK r : r = Head(replies)
    OBVIOUS
  <2>2. r.cmd \in Cmds
    <3>1. replies \in Seq([cmd : Cmds, ok : BOOLEAN]) /\ replies # << >>
      BY <1>3 DEF Receive, TypeOK
    <3>2. r \in [cmd : Cmds, ok : BOOLEAN]
      BY <2>1, <3>1, HeadTailProperties
    <3>. QED
      BY <3>2
  <2>3. UNCHANGED <<kind, taken, tries>>
    BY <1>3 DEF Receive, link
  <2>4. CASE cmd[r.cmd] = "waiting"
    <3>1. answer[r.cmd] = "none"
      BY <2>2, <2>4 DEF AnswerInv, Untold
    <3>2. \A d \in Cmds : d # r.cmd => answer'[d] = answer[d]
      BY <1>3, <2>1, <2>4 DEF Receive, Tell, TypeOK
    <3>. QED
      BY <2>2, <2>3, <3>1, <3>2, ToldStep
  <2>5. CASE cmd[r.cmd] # "waiting"
    <3>1. UNCHANGED answer
      BY <1>3, <2>1, <2>5 DEF Receive
    <3>. QED
      BY <2>3, <3>1 DEF Promise!vars, Told
  <2>. QED
    BY <2>4, <2>5
<1>4. CASE Stop
  <2>1. UNCHANGED <<kind, answer, taken>>
    BY <1>4 DEF Stop
  <2>2. \A c \in Cmds : answer[c] # "none" => tries'[c] = tries[c]
    BY <1>4 DEF Stop, AnswerInv, Untold
  <2>3. \A c \in Cmds : Told(c)' = Told(c)
    BY <2>1, <2>2 DEF Told
  <2>. QED
    BY <2>1, <2>3 DEF Promise!vars
<1>5. CASE UNCHANGED <<kind, answer, tries, taken>>
  BY <1>5 DEF Promise!vars, Told
<1>. QED
  BY <1>1, <1>2, <1>3, <1>4, <1>5
     DEF Next, driverVars, commands, link, Gone, Back, Unplug, Plug, DeadLink, DropLink, Lose,
         Reconnect, Rejected, Notice, StartPolled, StartOpcua, StartMqtt, StartAscii, Probe, NewRound,
         ReadPoint, DeviceSends, ReadLine, ReadRaises

(***************************************************************************)
(* The driver, its line reader and its device keep their types.            *)
(***************************************************************************)
THEOREM DriverTyped == Spec => []TypeOK
BY AnswersInductive, PTL

(***************************************************************************)
(* However lines are cut, by a pause, by a device that was cut off or      *)
(* started again, by a restart of the source, by an adapter that is pulled *)
(* or by a test of the source beside its driver, the readings that are no  *)
(* line of the device are never more than the cuts: each of them is paid   *)
(* for by a cut of its own.                                                *)
(***************************************************************************)
THEOREM CutsPay == Spec => []CutCostsOne
<1>1. Init => Paid
  <2>. SUFFICES ASSUME Init PROVE Paid
    OBVIOUS
  <2>1. TypeOK /\ next = <<1, 1>> /\ tty = << >> /\ buf = << >> /\ cuts - wrong = 0 /\ wrong <= cuts
    BY TypeInit DEF Init, LineInit
  <2>2. Ahead = <<next>> /\ next \in Coming /\ next[2] = 1
    BY <2>1, AheadIs
  <2>3. \E debt : Owes(debt, << >>, <<next>>, 0)
    BY <2>2, OwesNothing
  <2>. QED
    BY <2>1, <2>2, <2>3 DEF Paid
<1>2. Paid => CutCostsOne
  BY DEF Paid, CutCostsOne
<1>. QED
  BY <1>1, <1>2, PaidStep, DriverTyped, PTL DEF Spec

(***************************************************************************)
(* "error" is said only of a command that the device has not carried out   *)
(* and will not carry out, unless its frame went out again; "ok" of Modbus *)
(* and OPC UA only of one that it has, and the registers then hold the     *)
(* number that was asked for, if it fits.                                  *)
(***************************************************************************)
THEOREM AnswersAlwaysTrue == Spec => []AnswersAreTrue
<1>1. TypeOK /\ AnswerInv => AnswersAreTrue
  <2>. SUFFICES ASSUME TypeOK, AnswerInv, NEW c \in Cmds
                PROVE  /\ answer[c] = "error" =>
                            \/ taken[c] = NotTaken /\ \A i \in 1..Len(wire) : wire[i] # c
                            \/ tries[c] > 1
                       /\ answer[c] = "ok" /\ kind \in Confirming =>
                            /\ taken[c] # NotTaken
                            /\ kind = "modbus" /\ Fits(want[c].dtype, want[c].value)
                                 => Decode(want[c].dtype, taken[c]) = want[c].value
    BY DEF AnswersAreTrue
  <2>. USE DEF AnswerInv
  <2>1. tries[c] \in Nat
    BY DriverAssumption DEF TypeOK
  <2>2. answer[c] = "error" => \/ taken[c] = NotTaken /\ \A i \in 1..Len(wire) : wire[i] # c
                               \/ tries[c] > 1
    BY <2>1 DEF Refusals
  <2>3. want[c].dtype \in Formats /\ want[c].value \in Int
    BY DriverAssumption DEF TypeOK
  <2>4. ASSUME answer[c] = "ok", kind \in Confirming
        PROVE  /\ taken[c] # NotTaken
               /\ Fits(want[c].dtype, want[c].value)
                    => Decode(want[c].dtype, taken[c]) = want[c].value
    <3>1. taken[c] = Encode(want[c].dtype, want[c].value) /\ taken[c] # NotTaken
      BY <2>4 DEF Successes, Written
    <3>. QED
      BY <2>3, <3>1, RoundTrip
  <2>. QED
    BY <2>2, <2>4
<1>. QED
  BY <1>1, AnswersInductive, PTL

(***************************************************************************)
(* A driver, with its device, its library and the manager, is nothing more *)
(* than the promise to those who command it: one answer each, "error" of   *)
(* one frame of what the device never writes, a confirmed "ok" of what it  *)
(* has written.                                                            *)
(***************************************************************************)
THEOREM DriverKeepsPromise == Spec => WritePromiseKept
<1>1. Init => Promise!Init
  BY DEF Init, Promise!Init, Told
<1>. QED
  BY <1>1, PromiseStep, AnswersInductive, PTL DEF Spec, Promise!Spec, WritePromiseKept

-----------------------------------------------------------------------------
(* A serial port that is dead is shown as in error.  ReadRaises is weakly  *)
(* fair; its guard is written out, since the prover has no ENABLED.        *)

\* The manager believes in a driver whose port is dead, and the page too.
DeadPort == kind = "ascii" /\ conn = "lost" /\ driver = "on" /\ status # "error"

\* The blocking read of a dead port ends: what WF_driverVars(ReadRaises) says.
ReadsEnd == []([]DeadPort => <><<ReadRaises>>_driverVars)

\* Only paho's thread and the polling loops have more to say of the status.
NothingPending ==
  /\ kind # "mqtt" => notices = << >>
  /\ kind \notin Polled => round = {}

LEMMA SameKind == [Next]_driverVars => UNCHANGED kind
BY DEF Next, driverVars, link, Gone, Back, Unplug, Plug, DeadLink, DropLink, Lose, Reconnect,
       Rejected, Notice, Stop, StartPolled, StartOpcua, StartMqtt, StartAscii, Probe, NewRound,
       ReadPoint, DeviceSends, ReadLine, ReadRaises, Ask, Again, GiveUp, Execute, Receive

LEMMA NothingPendingStep == NothingPending /\ [Next]_driverVars => NothingPending'
<1>. SUFFICES ASSUME NothingPending, [Next]_driverVars PROVE NothingPending'
  OBVIOUS
<1>0. UNCHANGED kind
  BY SameKind
<1>1. (kind # "mqtt" => notices = << >>)'
  BY <1>0 DEF NothingPending, Next, driverVars, link, Gone, Back, Unplug, Plug, DeadLink, DropLink,
         Lose, Notify, Reconnect, Rejected, Notice, Stop, StartPolled, StartOpcua, StartMqtt,
         StartAscii, Probe, NewRound, ReadPoint, DeviceSends, ReadLine, ReadRaises, Ask, Again,
         GiveUp, Execute, Receive
<1>2. (kind \notin Polled => round = {})'
  BY <1>0 DEF NothingPending, Next, driverVars, polling, Gone, Back, Unplug, Plug, DeadLink,
         DropLink, Lose, Reconnect, Rejected, Notice, Stop, StartPolled, StartOpcua, StartMqtt,
         StartAscii, Probe, NewRound, ReadPoint, DeviceSends, ReadLine, ReadRaises, Ask, Again,
         GiveUp, Execute, Receive
<1>. QED
  BY <1>1, <1>2 DEF NothingPending

(***************************************************************************)
(* A serial source whose port is dead for good, since its adapter was      *)
(* pulled while the driver ran, is not shown as online for good, plugged   *)
(* in again or not, whatever its driver did before.  Of a device that is   *)
(* silent behind a living port nothing of the kind holds.                  *)
(***************************************************************************)
THEOREM DeadPortIsSeen == Spec /\ ReadsEnd => (kind = "ascii" => LossIsSeen)
<1>. DEFINE Ascii == kind = "ascii"
            Error == status = "error"
            Dead == conn = "lost" /\ driver = "on"
            Away == OutOfReach /\ driver = "on"
            Shown == status # "online" /\ (kind \in Polled => \A p \in Points : quality[p] = "bad")
<1>1. Init => NothingPending
  BY DEF Init, NothingPending
<1>2. Ascii /\ [Next]_driverVars => Ascii'
  BY SameKind
<1>3. Ascii /\ Dead => DeadPort \/ Error
  BY DEF DeadPort
<1>4. ReadRaises => Error'
  BY DEF ReadRaises
<1>5. NothingPending /\ Ascii /\ Dead /\ Dead' /\ Error /\ [Next]_driverVars => Error'
  <2>. SUFFICES ASSUME NothingPending, Ascii, Dead, Dead', Error, [Next]_driverVars PROVE Error'
    OBVIOUS
  <2>1. notices = << >> /\ round = {}
    BY DEF NothingPending, Polled
  <2>. QED
    BY <2>1 DEF Next, driverVars, link, Gone, Back, Unplug, Plug, DeadLink, DropLink, Lose, Reconnect,
         Rejected, Notice, Stop, StartPolled, StartOpcua, StartMqtt, StartAscii, Probe, NewRound,
         ReadPoint, DeviceSends, ReadLine, ReadRaises, Ask, Again, GiveUp, Execute, Receive
<1>6. Ascii /\ Error => Shown
  BY DEF Polled
<1>7. LossIsSeen <=> (kind # "opcua" => (<>[]Away => <>[]Shown))
  BY DEF LossIsSeen
<1>8. Ascii /\ Away => Dead
  BY DEF OutOfReach
<1>. HIDE DEF Ascii, Error, Dead, Away, Shown
<1>9. Init /\ [][Next]_driverVars => [](NothingPending /\ (Ascii => []Ascii))
  BY <1>1, <1>2, NothingPendingStep, PTL
<1>10. Init /\ [][Next]_driverVars /\ ReadsEnd => (Ascii => (<>[]Away => <>[]Shown))
  BY <1>2, <1>3, <1>4, <1>5, <1>6, <1>8, <1>9, PTL DEF ReadsEnd
<1>. QED
  BY <1>7, <1>10, PTL DEF Spec, Ascii
=============================================================================
