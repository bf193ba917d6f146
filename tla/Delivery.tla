------------------------------ MODULE Delivery ------------------------------
(***************************************************************************)
(* What the edge collector promises about measurement batches, whatever    *)
(* the network, Main or the process do: a batch the outbox has taken is    *)
(* applied by Main exactly once, and the batches of one serial are applied *)
(* in the order in which the outbox took them (README.md:36-37, docstring  *)
(* of scheduler.py, lines 7-8).  Batches of different serials are          *)
(* independent.  Telemetry is the detailed specification.                  *)
(***************************************************************************)
EXTENDS Integers, Sequences

CONSTANTS
  Serials,
  Served     \* the serials whose batches Main takes in the end

VARIABLES
  waiting,   \* the batches taken and not yet applied
  log        \* log[s] is the sequence of batches Main applied for s

vars == <<waiting, log>>

\* Batches are records with at least a serial and a sequence number.
WaitingOf(s) == {b \in waiting : b.serial = s}

Init ==
  /\ waiting = {}
  /\ log = [s \in Serials |-> << >>]

\* Taking a batch: it is younger than every batch of its serial.
Take ==
  /\ \E b \in waiting' \ waiting :
       /\ waiting' = waiting \cup {b}
       /\ \A o \in WaitingOf(b.serial) : o.seq < b.seq
       /\ \A i \in DOMAIN log[b.serial] : log[b.serial][i].seq < b.seq
  /\ UNCHANGED log

\* Applying the oldest batch of serial s, once and for all.
Apply(s) ==
  \E b \in WaitingOf(s) :
    /\ \A o \in WaitingOf(s) : b.seq <= o.seq
    /\ waiting' = waiting \ {b}
    /\ log' = [log EXCEPT ![s] = Append(@, b)]

Next == Take \/ \E s \in Serials : Apply(s)

Spec == Init /\ [][Next]_vars

FairSpec == Spec /\ \A s \in Served : WF_vars(Apply(s))
=============================================================================
