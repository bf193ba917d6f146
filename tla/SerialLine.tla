----------------------------- MODULE SerialLine -----------------------------
(***************************************************************************)
(* The line reader of a serial source (drivers/serial_ascii.py): a balance *)
(* sends lines, the kernel buffers their characters, and _read_line_ascii  *)
(* takes them one by one until it has seen the terminator "\r\n".  It      *)
(* gives up after a second without a character, whatever it has read; and  *)
(* pyserial empties the kernel's buffer whenever it opens the port, also   *)
(* for a test of the source beside the driver that is running.             *)
(***************************************************************************)
EXTENDS Integers, Sequences, FiniteSets

CONSTANTS
  LineLen,     \* characters of a line before its terminator
  MaxLines     \* bound: lines the device sends

ASSUME LineAssumption == LineLen \in Nat \ {0} /\ MaxLines \in Nat

VARIABLES
  next,     \* what the device sends next: a line and a place in it
  tty,      \* characters in the kernel's buffer
  buf,      \* buf of _read_line_ascii
  read,     \* lines that came out as a reading, the way they were sent
  wrong,    \* readings that are no line of the device
  cuts      \* times characters were lost, or set aside, inside a line

lineVars == <<next, tty, buf, read, wrong, cuts>>

Cr == LineLen + 1
Lf == LineLen + 2
Char == (1..MaxLines) \X (1..Lf)

LineTypeOK ==
  /\ next \in (1..MaxLines + 1) \X (1..Lf)
  /\ tty \in Seq(Char) /\ buf \in Seq(Char)
  /\ read \subseteq 1..MaxLines
  /\ wrong \in Nat /\ cuts \in Nat

LineInit ==
  /\ next = <<1, 1>>
  /\ tty = << >> /\ buf = << >>
  /\ read = {} /\ wrong = 0 /\ cuts = 0

CountCut(lost) == cuts' = IF lost THEN cuts + 1 ELSE cuts

\* What the device sends after a character.
After(ch) == IF ch[2] = Lf THEN <<ch[1] + 1, 1>> ELSE <<ch[1], ch[2] + 1>>

\* The device sends a character, which nobody keeps if the port is not open.
Send(open) ==
  /\ next[1] <= MaxLines
  /\ next' = After(next)
  /\ tty' = IF open THEN Append(tty, next) ELSE tty
  /\ UNCHANGED <<buf, read, wrong, cuts>>

\* The device comes to a place in a line without being heard, out of the middle
\* of this line or into it; whole lines that are lost leave no trace.
Unheard ==
  /\ \E p \in Char \cup {<<MaxLines + 1, 1>>} :
       /\ \/ p[1] = next[1] /\ p[2] > next[2]
          \/ p[1] = next[1] + 1 /\ next[2] # 1
       /\ next' = p
  /\ CountCut(TRUE)
  /\ UNCHANGED <<tty, buf, read, wrong>>

\* buf.endswith(self._term)
EndsWithTerm(b) ==
  /\ Len(b) >= 2
  /\ b[Len(b) - 1][2] = Cr /\ b[Len(b)][2] = Lf

\* What strip() leaves of a line; characters stay in the order they were sent.
Content(b) == {ch \in {b[i] : i \in 1..Len(b)} : ch[2] <= LineLen}

IsLine(text, n) == text = {<<n, k>> : k \in 1..LineLen}

\* The line b is complete: _parse_ascii makes a reading of it, and may make
\* one of what is left of a line.
Emit(b) ==
  LET text == Content(b)
  IN  \/ \E n \in 1..MaxLines : IsLine(text, n) /\ read' = read \cup {n} /\ UNCHANGED wrong
      \/ /\ text # {} /\ \A n \in 1..MaxLines : ~IsLine(text, n)
         /\ wrong' \in {wrong, wrong + 1}
         /\ UNCHANGED read
      \/ text = {} /\ UNCHANGED <<read, wrong>>

\* Mutant: a line is not taken out of the buffer.
LineStays(b) == b

\* What is in the buffer when a line has been taken out of it.
AfterLine(b) == << >>

\* One character; with the terminator, the line.
ReadChar ==
  /\ tty # << >>
  /\ tty' = Tail(tty)
  /\ LET b == Append(buf, Head(tty))
     IN  IF EndsWithTerm(b) THEN buf' = AfterLine(b) /\ Emit(b)
                            ELSE buf' = b /\ UNCHANGED <<read, wrong>>
  /\ UNCHANGED <<next, cuts>>

\* A second without a character: _read_line_ascii returns "".
Pause ==
  /\ tty = << >>
  /\ buf # << >>
  /\ buf' = << >>
  /\ CountCut(Content(buf) # {})
  /\ UNCHANGED <<next, tty, read, wrong>>

\* The driver opens the port, and what was in its own buffer is gone with the
\* one before it.
OpenPort ==
  /\ tty' = << >> /\ buf' = << >>
  /\ CountCut(next[2] # 1)
  /\ UNCHANGED <<next, read, wrong>>

\* Another driver opens the port beside it.
Flush ==
  /\ tty' = << >>
  /\ CountCut(tty # << >>)
  /\ UNCHANGED <<next, buf, read, wrong>>

\* The port is closed or gone, and so are its characters.
DropPort ==
  /\ tty' = << >> /\ buf' = << >>
  /\ CountCut(Content(buf \o tty) # {})
  /\ UNCHANGED <<next, read, wrong>>

-----------------------------------------------------------------------------
(* A line that is cut, by a pause, by a device that was cut off or started *)
(* again, by a restart of the source or by a test of it, costs at most one *)
(* false reading: the reader is in step with the device again at the next  *)
(* terminator.                                                             *)
CutCostsOne == wrong <= cuts
=============================================================================
