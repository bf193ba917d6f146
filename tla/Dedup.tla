------------------------------- MODULE Dedup -------------------------------
(***************************************************************************)
(* Change detection on one channel: which readings of a device are sent to *)
(* Main and which are repeats that may be left out.  It models             *)
(* EdgeAgent._should_skip_duplicate and _on_value (scheduler.py), the      *)
(* channel settings apply_config hands them (manager.py), and _flush_loop  *)
(* as far as the newest reading is concerned.                              *)
(*                                                                         *)
(* _last_enqueued is a cache of what Main will show: it is right only if   *)
(* it follows every reading that is sent and vanishes with `_pending`.     *)
(* Time is counted in ticks; value, text and quality are one value.        *)
(***************************************************************************)
EXTENDS Integers

CONSTANTS
  Values,    \* what a reading may carry: (v, s, q)
  Settings,  \* what Main may configure for the channel
  Horizon,   \* bound: ticks are counted up to here
  None

DEFAULT_HEARTBEAT_S == 2

ASSUME DedupAssumption ==
  /\ Settings \subseteq [every : BOOLEAN, maxAge : Nat \cup {None}]
  /\ Horizon \in Nat
  /\ None \notin Nat \cup [v : Values, stable : BOOLEAN]

Readings == [v : Values, stable : BOOLEAN]

VARIABLES
  meta,     \* _channel_meta of this channel
  last,     \* _last_enqueued: the reading, or None
  age,      \* ticks since last["ts"]
  pending,  \* the newest reading in `_pending`, or None
  kept,     \* the newest reading in the outbox or beyond, or None
  read,     \* history: what this process read last, or None
  silence   \* history: ticks since a reading was put in `_pending`

vars == <<meta, last, age, pending, kept, read, silence>>

\* The time after which a repeat is sent again.
Heartbeat(m) ==
  IF m.maxAge = None \/ m.maxAge = 0
  THEN DEFAULT_HEARTBEAT_S
  ELSE m.maxAge \div 2

TypeOK ==
  /\ meta.every \in BOOLEAN /\ Heartbeat(meta) \in Nat
  /\ last \in Readings \cup {None} /\ age \in 0..Horizon
  /\ pending \in Readings \cup {None}
  /\ kept \in Readings \cup {None}
  /\ read \in Readings \cup {None} /\ silence \in 0..Horizon

\* channel_meta_for, while nothing is configured.
Unconfigured == [every |-> TRUE, maxAge |-> None]

Init ==
  /\ meta = Unconfigured
  /\ last = None /\ age = 0
  /\ pending = None /\ kept = None
  /\ read = None /\ silence = Horizon

\* `same` of _should_skip_duplicate.
Same(r) == last # None /\ r.stable /\ last.stable /\ r.v = last.v

\* Mutant: an unstable reading may be skipped too.
Alike(r) ==
  /\ ~ meta.every
  /\ last # None /\ r.v = last.v
  /\ age < Heartbeat(meta)

Skip(r) ==
  /\ ~ meta.every
  /\ Same(r)
  /\ age < Heartbeat(meta)

\* Mutant: a skipped reading moves the timestamp too.
Slides == 0

\* _last_enqueued["ts"] after a reading that is skipped.
SkippedAge == age

(***************************************************************************)
(* _on_value.  A channel that must send every reading returns before       *)
(* _last_enqueued is written (scheduler.py:73-74).                         *)
(***************************************************************************)
Reading(r) ==
  /\ read' = r
  /\ IF Skip(r)
     THEN /\ age' = SkippedAge
          /\ UNCHANGED <<last, pending, silence>>
     ELSE /\ pending' = r
          /\ silence' = 0
          /\ IF meta.every
             THEN UNCHANGED <<last, age>>
             ELSE last' = r /\ age' = 0
  /\ UNCHANGED <<meta, kept>>

\* _flush_loop: `_pending` goes to the outbox.
Flush ==
  /\ pending # None
  /\ kept' = pending
  /\ pending' = None
  /\ UNCHANGED <<meta, last, age, read, silence>>

\* apply_config gives the channel new settings; those of a channel it drops are
\* Unconfigured.
Apply(m) ==
  /\ m # meta
  /\ meta' = m
  /\ UNCHANGED <<last, age, pending, kept, read, silence>>

\* Mutant: the cache is kept across a restart that loses `_pending`.
Surviving == last

\* _last_enqueued of a new process.
Forgotten == None

\* The process dies and starts again: RAM is lost, the outbox is not.
Restart ==
  /\ meta' = Unconfigured
  /\ last' = Forgotten
  /\ age' = 0
  /\ pending' = None
  /\ read' = None
  /\ UNCHANGED <<kept, silence>>

Older(n) == IF n < Horizon THEN n + 1 ELSE n

Tick ==
  /\ age' = Older(age)
  /\ silence' = Older(silence)
  /\ UNCHANGED <<meta, last, pending, kept, read>>

\* What a running process does.
Collect ==
  \/ \E r \in Readings : Reading(r)
  \/ Flush
  \/ \E m \in Settings : Apply(m)
  \/ Tick

Next == Collect \/ Restart

Spec == Init /\ [][Next]_vars

-----------------------------------------------------------------------------
\* The reading Main shows once everything on the way has arrived.
Shown == IF pending # None THEN pending ELSE kept

(***************************************************************************)
(* Leaving repeats out never hides a change: whatever this process read    *)
(* last is what Main shows in the end, through flushes, crashes that lose  *)
(* `_pending`, and changes of the channel's heartbeat.  It fails as soon   *)
(* as _last_enqueued is not the newest reading on the way (scheduler.py    *)
(* lines 39-42).                                                           *)
(***************************************************************************)
ShownIsRead == read # None => Shown = read

(***************************************************************************)
(* A steady channel never falls silent: a reading taken a heartbeat or     *)
(* more after the last one that was sent is sent, however many repeats     *)
(* were skipped in between (scheduler.py lines 64-66).                     *)
(***************************************************************************)
HeartbeatKept ==
  [][\A r \in Readings :
       Reading(r) /\ silence >= Heartbeat(meta) => silence' = 0]_vars
=============================================================================
