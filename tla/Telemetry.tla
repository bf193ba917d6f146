----------------------------- MODULE Telemetry -----------------------------
(***************************************************************************)
(* The durable path of a measurement: driver reading -> RAM buffer ->      *)
(* SQLite outbox -> Main.  It models EdgeAgent._on_value, _flush_loop,     *)
(* _sender_loop and _drain_serial (scheduler.py), the outbox, the sequence *)
(* counters and the boot id of Store (store.py), the way OdooClient turns  *)
(* an HTTP reply into a result (odoo_client.py) and, as the environment,   *)
(* Main's batch deduplication (external, docs/technical-reference-dev.html *)
(* lines 263-275).                                                         *)
(*                                                                         *)
(* The process is one asyncio event loop.  A coroutine runs until its next *)
(* await: _drain_serial awaits only the HTTP call, _flush_loop only its    *)
(* sleep, so nothing else in the process runs while a flush is under way.  *)
(* A crash may come between any two SQLite commits, and the network and    *)
(* Main run at any time.                                                   *)
(***************************************************************************)
EXTENDS Integers, Sequences, FiniteSets

CONSTANTS
  Serials,        \* the device serials the edge reports for
  MaxReadings,    \* bound: readings a behaviour produces
  MaxStarts,      \* bound: times the process starts
  MaxConcurrent,  \* MAX_CONCURRENT_SERIALS
  MaxPerRound,    \* MAX_MOI_VONG
  StoreFaults,    \* TRUE: a SQLite statement may raise
  Malformed,      \* TRUE: a 2xx reply may not come from Main (a proxy, a portal)
  Rejecting       \* the serials whose batches Main refuses for good

ASSUME TelemetryAssumption ==
  /\ MaxReadings \in Nat
  /\ MaxStarts \in Nat
  /\ MaxConcurrent \in Nat \ {0}
  /\ MaxPerRound \in Nat \ {0}
  /\ StoreFaults \in BOOLEAN
  /\ Malformed \in BOOLEAN
  /\ Rejecting \subseteq Serials

VARIABLES
  kvBoot,      \* SQLite kv["boot_id"]; 0: no row
  seqCounter,  \* SQLite seq_counter
  lastId,      \* the last AUTOINCREMENT id of the outbox
  outbox,      \* SQLite outbox, a set of rows
  up,          \* the process is running
  boot,        \* EdgeAgent._boot_id
  pending,     \* EdgeAgent._pending
  batch,       \* _flush_loop's local batch, the part not yet pushed
  ticket,      \* the sequence number drawn for the next push, at most one
  flushAlive,  \* the _flush_loop task has not ended
  round,       \* the serials whose coroutine of this gather() has not returned
  sent,        \* rows a serial's coroutine has had acknowledged this round
  calls,       \* the HTTP calls coroutines await: row and what is known of it
  resting,     \* the serials whose _backoff_until lies in the future
  late,        \* rows of calls given up on that may still reach Main
  mainBoot,    \* Main: pcm.device.boot_id
  mainSeq,     \* Main: pcm.device.last_seq
  mainLog,     \* Main: the batches applied, in order
  starts,      \* number of process starts so far
  clock,       \* number of the last reading
  pushed,      \* history: every row the outbox has ever held
  mistaken     \* history: the rows for which another's 2xx passed for Main's

durable == <<kvBoot, seqCounter, lastId, outbox, pushed, mistaken>>
flushing == <<pending, batch, ticket, flushAlive>>
sending == <<round, sent, calls, resting>>
process == <<up, boot, starts>>
main == <<mainBoot, mainSeq, mainLog>>
vars == <<durable, flushing, sending, process, main, late, clock>>

Row == [id : Nat, serial : Serials, bid : Nat, seq : Nat, items : Seq(Nat)]
Phase == {"sent", "ok", "busy", "fail"}
Empty == [s \in Serials |-> << >>]

TypeOK ==
  /\ kvBoot \in Nat
  /\ seqCounter \in [Serials -> Nat]
  /\ lastId \in Nat
  /\ outbox \subseteq Row
  /\ up \in BOOLEAN
  /\ boot \in Nat
  /\ pending \in [Serials -> Seq(Nat)]
  /\ batch \in [Serials -> Seq(Nat)]
  /\ ticket \subseteq [serial : Serials, seq : Nat]
  /\ flushAlive \in BOOLEAN
  /\ round \subseteq Serials
  /\ sent \in [Serials -> Nat]
  /\ calls \subseteq [row : Row, phase : Phase]
  /\ resting \subseteq Serials
  /\ late \subseteq Row
  /\ mainBoot \in [Serials -> Nat]
  /\ mainSeq \in [Serials -> Nat]
  /\ mainLog \in [Serials -> Seq(Row)]
  /\ starts \in Nat
  /\ clock \in Nat
  /\ pushed \subseteq Row
  /\ mistaken \subseteq Row

-----------------------------------------------------------------------------
\* The process starts on an empty database, not yet running.
Init ==
  /\ kvBoot = 0 /\ lastId = 0 /\ outbox = {} /\ pushed = {} /\ mistaken = {}
  /\ seqCounter = [s \in Serials |-> 0]
  /\ up = FALSE /\ boot = 0 /\ starts = 0 /\ clock = 0
  /\ pending = Empty /\ batch = Empty /\ ticket = {} /\ flushAlive = FALSE
  /\ round = {} /\ sent = [s \in Serials |-> 0] /\ calls = {} /\ resting = {}
  /\ late = {}
  /\ mainBoot = [s \in Serials |-> 0]
  /\ mainSeq = [s \in Serials |-> 0]
  /\ mainLog = Empty

\* A flush is between its swap of the buffer and its last push.
Flushing == batch # Empty

\* A coroutine other than _flush_loop may take a step.
Running == up /\ ~Flushing

-----------------------------------------------------------------------------
(* The process starts, crashes and restarts.                               *)

\* Mutant: a fresh boot id at every start.
BootIdFresh == starts + 1

\* uuid4 is modelled by the number of the start, which is fresh.
BootId == IF kvBoot = 0 THEN starts + 1 ELSE kvBoot

\* EdgeAgent.__init__ and start(): the boot id is made once and kept in kv.
Start ==
  /\ ~up
  /\ starts < MaxStarts
  /\ up' = TRUE
  /\ starts' = starts + 1
  /\ boot' = BootId
  /\ kvBoot' = BootId
  /\ flushAlive' = TRUE
  /\ UNCHANGED <<seqCounter, lastId, outbox, pushed, mistaken, pending, batch,
                 ticket, sending, main, late, clock>>

\* The process dies, or stop() cancels its tasks: everything in RAM is lost.
\* A request already on the wire may still reach Main.
Crash ==
  /\ up
  /\ starts < MaxStarts
  /\ up' = FALSE
  /\ boot' = 0
  /\ pending' = Empty /\ batch' = Empty /\ ticket' = {} /\ flushAlive' = FALSE
  /\ round' = {} /\ sent' = [s \in Serials |-> 0]
  /\ calls' = {} /\ resting' = {}
  /\ late' = late \cup {c.row : c \in {d \in calls : d.phase = "sent"}}
  /\ UNCHANGED <<durable, main, starts, clock>>

-----------------------------------------------------------------------------
(* Readings and the flush into the outbox.                                 *)

\* _on_value for a reading that change detection lets through.
OnValue(s) ==
  /\ Running
  /\ clock < MaxReadings
  /\ clock' = clock + 1
  /\ pending' = [pending EXCEPT ![s] = Append(@, clock')]
  /\ UNCHANGED <<durable, batch, ticket, flushAlive, sending, process, main, late>>

\* batch, self._pending = self._pending, {}
FlushSwap ==
  /\ Running
  /\ flushAlive
  /\ pending # Empty
  /\ batch' = pending
  /\ pending' = Empty
  /\ UNCHANGED <<durable, ticket, flushAlive, sending, process, main, late, clock>>

\* Mutant: the counter runs backwards.
SeqBackwards(s) == seqCounter[s] - 1

NextSeq(s) == seqCounter[s] + 1

\* Store.next_seq, in a commit of its own.
FlushSeq(s) ==
  /\ up
  /\ batch[s] # << >>
  /\ ticket = {}
  /\ seqCounter' = [seqCounter EXCEPT ![s] = NextSeq(s)]
  /\ ticket' = {[serial |-> s, seq |-> NextSeq(s)]}
  /\ UNCHANGED <<kvBoot, lastId, outbox, pushed, mistaken, pending, batch,
                 flushAlive, sending, process, main, late, clock>>

\* Store.outbox_push, in a second commit.
FlushPush ==
  /\ up
  /\ \E t \in ticket :
       LET row == [id |-> lastId + 1, serial |-> t.serial, bid |-> boot,
                   seq |-> t.seq, items |-> batch[t.serial]]
       IN /\ outbox' = outbox \cup {row}
          /\ pushed' = pushed \cup {row}
          /\ batch' = [batch EXCEPT ![t.serial] = << >>]
  /\ lastId' = lastId + 1
  /\ ticket' = {}
  /\ UNCHANGED <<kvBoot, seqCounter, mistaken, pending, flushAlive, sending,
                 process, main, late, clock>>

\* next_seq or outbox_push raises: _flush_loop has no try, its task ends and
\* the swapped batch goes with it.
FlushDies ==
  /\ StoreFaults
  /\ up
  /\ Flushing
  /\ flushAlive' = FALSE
  /\ batch' = Empty
  /\ ticket' = {}
  /\ UNCHANGED <<durable, pending, sending, process, main, late, clock>>

-----------------------------------------------------------------------------
(* The sender: rounds of one coroutine per serial.                         *)

CallsOf(s) == {c \in calls : c.row.serial = s}

\* Mutant: the youngest row first (ORDER BY id DESC).
Youngest(r, rows) == \A q \in rows : q.serial = r.serial => q.id <= r.id

\* Store.outbox_oldest: r is the row of its serial with the least id.
Oldest(r, rows) == \A q \in rows : q.serial = r.serial => r.id <= q.id

\* The sender loop reads outbox_serials and gathers one coroutine for each;
\* the last gather() has returned, so every coroutine of it has.
StartRound ==
  /\ Running
  /\ round = {}
  /\ outbox # {}
  /\ round' = {r.serial : r \in outbox}
  /\ sent' = [s \in Serials |-> 0]
  /\ UNCHANGED <<durable, flushing, calls, resting, process, main, late, clock>>

\* The head of _drain_serial's loop for s, after n acknowledged rows and with
\* rows in the outbox: post the oldest row, or return.
Post(s, n, rows) ==
  \/ /\ n < MaxPerRound
     /\ \E r \in rows :
          /\ r.serial = s
          /\ Oldest(r, rows)
          /\ calls' = (calls \ CallsOf(s)) \cup {[row |-> r, phase |-> "sent"]}
     /\ UNCHANGED round
  \/ /\ n >= MaxPerRound \/ \A r \in rows : r.serial # s
     /\ calls' = calls \ CallsOf(s)
     /\ round' = round \ {s}

\* The coroutine of s gets the semaphore and enters _drain_serial, which
\* returns at once while s is backing off.
Enter(s) ==
  /\ Running
  /\ s \in round
  /\ CallsOf(s) = {}
  /\ Cardinality(calls) < MaxConcurrent
  /\ \/ /\ s \in resting
        /\ round' = round \ {s}
        /\ UNCHANGED calls
     \/ /\ s \notin resting
        /\ Post(s, 0, outbox)
  /\ UNCHANGED <<durable, flushing, sent, resting, process, main, late, clock>>

\* Mutant: DELETE ... WHERE seq = ? hits the other serials' rows too.
DeletedBySeq(c) == {r \in outbox : r.seq # c.row.seq}

\* Store.outbox_delete of the row of call c.
Deleted(c) == {r \in outbox : r.id # c.row.id}

\* A result with ok true: delete the row, clear the backoff, go on.
HandleOk(s) ==
  /\ Running
  /\ \E c \in CallsOf(s) :
       /\ c.phase = "ok"
       /\ outbox' = Deleted(c)
  /\ resting' = resting \ {s}
  /\ sent' = [sent EXCEPT ![s] = @ + 1]
  /\ Post(s, sent[s] + 1, outbox')
  /\ UNCHANGED <<kvBoot, seqCounter, lastId, pushed, mistaken, flushing, process,
                 main, late, clock>>

\* Mutant: a failed row is tried again at once, the coroutine goes on.
FailureRetries(s) ==
  /\ Running
  /\ \E c \in CallsOf(s) : c.phase \in {"busy", "fail"}
  /\ Post(s, 0, outbox)
  /\ UNCHANGED <<durable, flushing, sent, resting, process, main, late, clock>>

\* A result with ok false leaves the row in place and ends the coroutine: 429
\* and 5xx note a backoff, a lost call or another status does not.
HandleFailure(s) ==
  /\ Running
  /\ \E c \in CallsOf(s) :
       \/ /\ c.phase = "busy"
          /\ resting' = resting \cup {s}
       \/ /\ c.phase = "fail"
          /\ UNCHANGED resting
  /\ calls' = calls \ CallsOf(s)
  /\ round' = round \ {s}
  /\ UNCHANGED <<durable, flushing, sent, process, main, late, clock>>

\* outbox_delete raises: gather(return_exceptions=True) absorbs it.
DeleteRaises(s) ==
  /\ StoreFaults
  /\ Running
  /\ \E c \in CallsOf(s) : c.phase = "ok"
  /\ calls' = calls \ CallsOf(s)
  /\ round' = round \ {s}
  /\ UNCHANGED <<durable, flushing, sent, resting, process, main, late, clock>>

\* Mutant: only a serial that got a row through is let out of its backoff.
BackoffSticks(s) ==
  /\ s \in resting
  /\ sent[s] > 0
  /\ resting' = resting \ {s}
  /\ UNCHANGED <<durable, flushing, round, sent, calls, process, main, late, clock>>

\* Time passes _backoff_until[s].
BackoffExpires(s) ==
  /\ s \in resting
  /\ resting' = resting \ {s}
  /\ UNCHANGED <<durable, flushing, round, sent, calls, process, main, late, clock>>

-----------------------------------------------------------------------------
(* Main and the network (external).                                        *)

\* pcm.device._seen_batch
Seen(r) == mainBoot[r.serial] = r.bid /\ r.seq <= mainSeq[r.serial]

\* One measurements request reaches Main: one transaction.
MainApplies(r) ==
  \/ /\ Seen(r)
     /\ UNCHANGED main
  \/ /\ ~Seen(r)
     /\ mainBoot' = [mainBoot EXCEPT ![r.serial] = r.bid]
     /\ mainSeq' = [mainSeq EXCEPT ![r.serial] = r.seq]
     /\ mainLog' = [mainLog EXCEPT ![r.serial] = Append(@, r)]

\* OdooClient._parse gives the pending call c the phase p.
Result(c, p) == calls' = (calls \ {c}) \cup {[c EXCEPT !.phase = p]}

\* Main applies the batch and its 2xx reply arrives.
MainAccepts(s) ==
  /\ s \notin Rejecting
  /\ \E c \in CallsOf(s) :
       /\ c.phase = "sent"
       /\ MainApplies(c.row)
       /\ Result(c, "ok")
  /\ UNCHANGED <<durable, flushing, round, sent, resting, process, late, clock>>

\* Main applies the batch; the reply is lost, or a proxy answers 5xx for it.
MainUnheard(s) ==
  /\ s \notin Rejecting
  /\ \E c \in CallsOf(s), p \in {"fail", "busy"} :
       /\ c.phase = "sent"
       /\ MainApplies(c.row)
       /\ Result(c, p)
  /\ UNCHANGED <<durable, flushing, round, sent, resting, process, late, clock>>

\* Main writes nothing: 429 or 5xx ("busy"), another status or ok false
\* ("fail").
MainRefuses(s) ==
  /\ \E c \in CallsOf(s), p \in {"fail", "busy"} :
       /\ c.phase = "sent"
       /\ Result(c, p)
  /\ UNCHANGED <<durable, flushing, round, sent, resting, process, main, late, clock>>

\* A 2xx reply that is no answer of Main: _parse sets ok to true on it.
MalformedReply(s) ==
  /\ Malformed
  /\ \E c \in CallsOf(s) :
       /\ c.phase = "sent"
       /\ Result(c, "ok")
       /\ mistaken' = mistaken \cup {c.row}
  /\ UNCHANGED <<kvBoot, seqCounter, lastId, outbox, pushed, flushing, round,
                 sent, resting, process, main, late, clock>>

\* httpx raises (timeout, reset): the request may still be on its way.
CallLost(s) ==
  /\ \E c \in CallsOf(s) :
       /\ c.phase = "sent"
       /\ Result(c, "fail")
       /\ late' = late \cup {c.row}
  /\ UNCHANGED <<durable, flushing, round, sent, resting, process, main, clock>>

\* A request nobody waits for any more reaches Main.
LateArrives ==
  /\ \E r \in late :
       /\ r.serial \notin Rejecting
       /\ MainApplies(r)
       /\ late' = late \ {r}
  /\ UNCHANGED <<durable, flushing, sending, process, clock>>

-----------------------------------------------------------------------------
Flush == FlushSwap \/ FlushPush \/ FlushDies \/ \E s \in Serials : FlushSeq(s)

Sender(s) ==
  \/ Enter(s) \/ HandleOk(s) \/ HandleFailure(s) \/ DeleteRaises(s)
  \/ BackoffExpires(s)

Network(s) ==
  \/ MainAccepts(s) \/ MainUnheard(s) \/ MainRefuses(s) \/ MalformedReply(s)
  \/ CallLost(s)

Next ==
  \/ Start \/ Crash \/ Flush \/ StartRound \/ LateArrives
  \/ \E s \in Serials : OnValue(s) \/ Sender(s) \/ Network(s)

Spec == Init /\ [][Next]_vars

(***************************************************************************)
(* Fairness.  The supervisor restarts the process; the event loop runs     *)
(* every ready coroutine and timer; httpx ends every call, at the latest   *)
(* with its timeout.  Of Main only this is assumed: a serial that keeps    *)
(* asking is answered with ok in the end.                                  *)
(***************************************************************************)
Fairness ==
  /\ WF_vars(Start)
  /\ WF_vars(FlushSwap) /\ WF_vars(FlushPush)
  /\ WF_vars(StartRound)
  /\ \A s \in Serials :
       /\ WF_vars(FlushSeq(s))
       /\ WF_vars(Enter(s)) /\ WF_vars(HandleOk(s)) /\ WF_vars(HandleFailure(s))
       /\ WF_vars(BackoffExpires(s))
       /\ WF_vars(Network(s))
       /\ SF_vars(MainAccepts(s))

FairSpec == Spec /\ Fairness

-----------------------------------------------------------------------------
(* Properties.                                                             *)

Applied(r) == \E i \in DOMAIN mainLog[r.serial] : mainLog[r.serial][i] = r

\* Main has applied r, or the edge was made to believe so.
Settled(r) == Applied(r) \/ r \in mistaken

ReadingsOf(b) == {b.items[i] : i \in DOMAIN b.items}

(***************************************************************************)
(* Main applies the readings of a serial exactly once and in the order in  *)
(* which they were taken, whatever is retried, lost or arrives late and    *)
(* however often the process crashes (README.md:36-37; scheduler.py        *)
(* 205-207 "Thứ tự bên TRONG 1 serial VẪN tuần tự").                       *)
(***************************************************************************)
MainLogInOrder ==
  \A s \in Serials : \A i, j \in DOMAIN mainLog[s] :
    i < j => \A m \in ReadingsOf(mainLog[s][i]), n \in ReadingsOf(mainLog[s][j]) :
               m < n

(***************************************************************************)
(* A batch the outbox has taken is in the outbox until Main has applied it *)
(* (scheduler.py:7-8, "mất mạng giữa chừng không làm mất mẫu"), whatever   *)
(* happens to it but one thing: a 2xx reply that is not Main's.            *)
(***************************************************************************)
NothingLost == \A r \in pushed : r \in outbox \/ Settled(r)

(***************************************************************************)
(* Claim of README.md:178-179: a malformed body counts as a failure, so it *)
(* never costs a batch.                                                    *)
(***************************************************************************)
MalformedIsFailure == \A r \in mistaken : r \in outbox \/ Applied(r)

(***************************************************************************)
(* Main's high-water mark never takes a batch it has not applied for one   *)
(* it has: neither a restart nor a sequence number burnt by a crash        *)
(* between next_seq and outbox_push makes a waiting batch look old.        *)
(***************************************************************************)
NoFalseDuplicate == \A r \in outbox : Seen(r) => Applied(r)

(***************************************************************************)
(* What is on the wire for a serial is one call at most, and it carries    *)
(* the oldest row of that serial in the outbox: a row leaves the outbox    *)
(* only after its own answer (scheduler.py 249-266).                       *)
(***************************************************************************)
OneCallForTheOldest ==
  /\ \A c \in calls : c.row \in outbox /\ Oldest(c.row, outbox)
  /\ \A c, d \in calls : c.row.serial = d.row.serial => c = d

-----------------------------------------------------------------------------
(* The inductive invariant: what the properties rest on.                   *)

\* One identity for good: every row and Main's mark carry the boot id of kv.
Identity ==
  /\ up => boot = kvBoot /\ kvBoot > 0
  /\ ~up => calls = {} /\ ticket = {}
  /\ \A r \in pushed : r.bid = kvBoot /\ r.bid > 0
  /\ \A s \in Serials : mainBoot[s] \in {0, kvBoot}
  /\ \A s \in Serials : mainBoot[s] = 0 => mainSeq[s] = 0

\* Ids and sequence numbers are drawn once, and order the rows of a serial alike.
Ledger ==
  /\ outbox \subseteq pushed
  /\ late \subseteq pushed
  /\ \A r \in pushed : r.id <= lastId /\ 0 < r.seq /\ r.seq <= seqCounter[r.serial]
  /\ \A r, q \in pushed : r.id = q.id => r = q
  /\ \A r, q \in pushed : r.serial = q.serial => (r.id < q.id <=> r.seq < q.seq)
  /\ \A t \in ticket : /\ 0 < t.seq /\ t.seq <= seqCounter[t.serial]
                       /\ \A r \in pushed : r.serial = t.serial => r.seq < t.seq
  /\ \A t, u \in ticket : t = u

\* Nothing older than r is left in the outbox: the turn of r has come.
Overtaken(r) ==
  \A q \in outbox : q.serial = r.serial => r.seq <= q.seq

\* Main's mark is that of the last batch applied; of what still waits, it
\* covers only what Main has applied.
Mark ==
  /\ \A s \in Serials : \A i \in DOMAIN mainLog[s] :
       /\ mainLog[s][i] \in pushed
       /\ mainLog[s][i].serial = s
       /\ mainLog[s][i].seq <= mainSeq[s]
  /\ \A s \in Serials : \A i, j \in DOMAIN mainLog[s] :
       i < j => mainLog[s][i].seq < mainLog[s][j].seq
  /\ \A s \in Serials :
       mainSeq[s] = 0 \/ \E r \in pushed : r.serial = s /\ r.seq = mainSeq[s]
  /\ \A r \in outbox : r.seq <= mainSeq[r.serial] => Applied(r)

\* What is on the wire is due, and what was answered is settled.
Due ==
  /\ \A r \in late : Overtaken(r)
  /\ \A c \in calls : Overtaken(c.row)
  /\ \A c \in calls : c.phase = "ok" => Settled(c.row)

HighWater == Mark /\ Due

\* Readings of a serial move from pending over batch to the rows in order.
ReadingOrder ==
  /\ \A s \in Serials : \A i \in DOMAIN pending[s] : pending[s][i] <= clock
  /\ \A s \in Serials : \A i \in DOMAIN batch[s] :
       /\ batch[s][i] <= clock
       /\ \A j \in DOMAIN pending[s] : batch[s][i] < pending[s][j]
  /\ \A r \in pushed : \A m \in ReadingsOf(r) :
       /\ m <= clock
       /\ \A i \in DOMAIN batch[r.serial] : m < batch[r.serial][i]
       /\ \A i \in DOMAIN pending[r.serial] : m < pending[r.serial][i]
  /\ \A r, q \in pushed : r.serial = q.serial /\ r.seq < q.seq =>
       \A m \in ReadingsOf(r), n \in ReadingsOf(q) : m < n

(***************************************************************************)
(* The inductive invariant behind the safety properties above.             *)
(***************************************************************************)
IInv ==
  /\ TypeOK /\ Identity /\ Ledger /\ OneCallForTheOldest /\ NothingLost
  /\ HighWater /\ ReadingOrder

-----------------------------------------------------------------------------
(* Liveness and refinement.                                                *)

(***************************************************************************)
(* The outbox of a serial Main does not refuse drains, though another      *)
(* serial is refused for good, shares the rounds and the semaphore with    *)
(* it, and though the process crashes on the way.                          *)
(***************************************************************************)
OutboxDrains ==
  \A s \in Serials \ Rejecting :
    (\E r \in outbox : r.serial = s) ~> (\A r \in outbox : r.serial # s)

\* The batches the abstract specification still waits for.
Unapplied == {r \in outbox : ~Applied(r)}

Promise == INSTANCE Delivery
  WITH waiting <- Unapplied, log <- mainLog, Served <- Serials \ Rejecting

(***************************************************************************)
(* While every 2xx reply is Main's own, the durable path implements        *)
(* Delivery: every flush, answer, loss, crash and late arrival takes a     *)
(* batch, applies the oldest one, or is invisible.                         *)
(***************************************************************************)
DeliveryKept == Promise!Spec

(***************************************************************************)
(* It implements Delivery's liveness too: a batch that waits is applied,   *)
(* unless Main refuses its serial for good.                                *)
(***************************************************************************)
DeliveryMade == Promise!FairSpec
=============================================================================
