-------------------------- MODULE TelemetryProofs --------------------------
(***************************************************************************)
(* Proofs about Telemetry, for every set of serials and every bound.       *)
(***************************************************************************)
EXTENDS Telemetry, TLAPS

\* A buffer or log that is empty for every serial has the type of one.
LEMMA EmptyType ==
  ASSUME NEW S
  PROVE  Empty \in [Serials -> Seq(S)]
<1>1. << >> \in Seq(S)
  OBVIOUS
<1>2. QED
  BY <1>1 DEF Empty

\* The fields of an outbox row.
LEMMA RowType ==
  ASSUME NEW r \in Row
  PROVE  /\ r.id \in Nat /\ r.serial \in Serials /\ r.bid \in Nat
         /\ r.seq \in Nat /\ r.items \in Seq(Nat)
BY DEF Row

\* Posting a row, or returning, keeps the types of calls and round.
LEMMA PostType ==
  ASSUME TypeOK, NEW s \in Serials, NEW n \in Nat, NEW rows \in SUBSET Row,
         Post(s, n, rows)
  PROVE  calls' \subseteq [row : Row, phase : Phase] /\ round' \subseteq Serials
BY DEF TypeOK, Post, CallsOf, Phase

\* One request to Main keeps the types of what Main stores.
LEMMA MainType ==
  ASSUME TypeOK, NEW r \in Row, MainApplies(r)
  PROVE  /\ mainBoot' \in [Serials -> Nat]
         /\ mainSeq' \in [Serials -> Nat]
         /\ mainLog' \in [Serials -> Seq(Row)]
<1>1. Append(mainLog[r.serial], r) \in Seq(Row)
  BY RowType DEF TypeOK
<1>2. CASE UNCHANGED main
  BY <1>2 DEF TypeOK, main
<1>3. CASE /\ mainBoot' = [mainBoot EXCEPT ![r.serial] = r.bid]
           /\ mainSeq' = [mainSeq EXCEPT ![r.serial] = r.seq]
           /\ mainLog' = [mainLog EXCEPT ![r.serial] = Append(@, r)]
  BY <1>1, <1>3, RowType DEF TypeOK
<1>4. QED
  BY <1>2, <1>3 DEF MainApplies

\* A result keeps the type of calls.
LEMMA ResultType ==
  ASSUME TypeOK, NEW c \in calls, NEW p \in Phase, Result(c, p)
  PROVE  calls' \subseteq [row : Row, phase : Phase]
BY DEF TypeOK, Result, Phase

(***************************************************************************)
(* The types of the variables are kept by every step of _on_value, the     *)
(* flush, the sender, the network and Main.                                *)
(***************************************************************************)
LEMMA TypeStep == TypeOK /\ [Next]_vars => TypeOK'
<1> SUFFICES ASSUME TypeOK, [Next]_vars PROVE TypeOK'
  OBVIOUS
<1> USE DEF durable, flushing, sending, process, main
<1>1. CASE Start
  BY <1>1 DEF Start, BootId, TypeOK
<1>2. CASE Crash
  <2>1. late' \subseteq Row
    BY <1>2 DEF Crash, TypeOK
  <2>2. QED
    <3>1. pending' \in [Serials -> Seq(Nat)] /\ batch' \in [Serials -> Seq(Nat)]
      BY <1>2, EmptyType DEF Crash
    <3>2. QED
      BY <1>2, <2>1, <3>1 DEF Crash, TypeOK
<1>3. CASE FlushSwap
  BY <1>3, EmptyType DEF FlushSwap, TypeOK
<1>4. CASE FlushPush
  <2> DEFINE New(t) == [id |-> lastId + 1, serial |-> t.serial, bid |-> boot,
                        seq |-> t.seq, items |-> batch[t.serial]]
  <2>1. PICK t \in ticket : /\ outbox' = outbox \cup {New(t)}
                            /\ pushed' = pushed \cup {New(t)}
                            /\ batch' = [batch EXCEPT ![t.serial] = << >>]
    BY <1>4 DEF FlushPush
  <2>2. t.serial \in Serials /\ t.seq \in Nat
    BY DEF TypeOK
  <2>3. New(t) \in Row
    BY <2>2 DEF TypeOK, Row
  <2>4. << >> \in Seq(Nat)
    OBVIOUS
  <2>5. batch' \in [Serials -> Seq(Nat)]
    BY <2>1, <2>4 DEF TypeOK
  <2>6. outbox' \subseteq Row /\ pushed' \subseteq Row
    BY <2>1, <2>3 DEF TypeOK
  <2>7. /\ lastId' = lastId + 1 /\ ticket' = {}
        /\ UNCHANGED <<kvBoot, seqCounter, mistaken, pending, flushAlive,
                       sending, process, main, late, clock>>
    BY <1>4 DEF FlushPush
  <2> HIDE DEF New
  <2>8. QED
    BY <2>5, <2>6, <2>7 DEF TypeOK
<1>5. CASE FlushDies
  BY <1>5, EmptyType DEF FlushDies, TypeOK
<1>6. ASSUME NEW s \in Serials, FlushSeq(s) PROVE TypeOK'
  <2>1. seqCounter[s] + 1 \in Nat
    BY DEF TypeOK
  <2>2. /\ seqCounter' \in [Serials -> Nat]
        /\ ticket' \subseteq [serial : Serials, seq : Nat]
    BY <1>6, <2>1 DEF FlushSeq, NextSeq, TypeOK
  <2>3. QED
    BY <1>6, <2>2 DEF FlushSeq, TypeOK
<1>7. CASE StartRound
  <2>1. {r.serial : r \in outbox} \subseteq Serials
    BY RowType DEF TypeOK
  <2>2. QED
    BY <1>7, <2>1 DEF StartRound, TypeOK
<1>8. CASE LateArrives
  <2>1. PICK r \in late : MainApplies(r) /\ late' = late \ {r}
    BY <1>8 DEF LateArrives
  <2>2. r \in Row
    BY DEF TypeOK
  <2>3. QED
    BY <1>8, <2>1, <2>2, MainType DEF LateArrives, TypeOK
<1>9. ASSUME NEW s \in Serials, OnValue(s) PROVE TypeOK'
  <2>1. clock' \in Nat /\ pending[s] \in Seq(Nat)
    BY <1>9 DEF OnValue, TypeOK
  <2>2. Append(pending[s], clock') \in Seq(Nat)
    BY <2>1
  <2>3. pending' \in [Serials -> Seq(Nat)]
    BY <1>9, <2>2 DEF OnValue, TypeOK
  <2>4. QED
    BY <1>9, <2>1, <2>3 DEF OnValue, TypeOK
<1>10. ASSUME NEW s \in Serials, Enter(s) PROVE TypeOK'
  BY <1>10, PostType DEF Enter, TypeOK
<1>11. ASSUME NEW s \in Serials, HandleOk(s) PROVE TypeOK'
  <2>1. outbox' \in SUBSET Row
    BY <1>11 DEF HandleOk, Deleted, TypeOK
  <2>2. sent[s] + 1 \in Nat
    BY DEF TypeOK
  <2>3. calls' \subseteq [row : Row, phase : Phase] /\ round' \subseteq Serials
    BY <1>11, <2>1, <2>2, PostType DEF HandleOk
  <2>4. QED
    BY <1>11, <2>1, <2>2, <2>3 DEF HandleOk, TypeOK
<1>12. ASSUME NEW s \in Serials, HandleFailure(s) PROVE TypeOK'
  BY <1>12 DEF HandleFailure, TypeOK
<1>13. ASSUME NEW s \in Serials, DeleteRaises(s) PROVE TypeOK'
  BY <1>13 DEF DeleteRaises, TypeOK
<1>14. ASSUME NEW s \in Serials, BackoffExpires(s) PROVE TypeOK'
  BY <1>14 DEF BackoffExpires, TypeOK
<1>15. ASSUME NEW s \in Serials, Network(s) PROVE TypeOK'
  <2>1. \A c \in CallsOf(s) : c \in calls /\ c.row \in Row
    BY DEF CallsOf, TypeOK
  <2>2. {"ok", "fail", "busy"} \subseteq Phase
    BY DEF Phase
  <2>3. CASE MainAccepts(s)
    BY <2>1, <2>2, <2>3, MainType, ResultType DEF MainAccepts, TypeOK
  <2>4. CASE MainUnheard(s)
    BY <2>1, <2>2, <2>4, MainType, ResultType DEF MainUnheard, TypeOK
  <2>5. CASE MainRefuses(s)
    BY <2>1, <2>2, <2>5, ResultType DEF MainRefuses, TypeOK
  <2>6. CASE MalformedReply(s)
    BY <2>1, <2>2, <2>6, ResultType DEF MalformedReply, TypeOK
  <2>7. CASE CallLost(s)
    BY <2>1, <2>2, <2>7, ResultType DEF CallLost, TypeOK
  <2>8. QED
    BY <1>15, <2>3, <2>4, <2>5, <2>6, <2>7 DEF Network
<1>16. CASE UNCHANGED vars
  BY <1>16 DEF vars, TypeOK
<1>17. QED
  BY <1>1, <1>2, <1>3, <1>4, <1>5, <1>6, <1>7, <1>8, <1>9, <1>10, <1>11, <1>12,
     <1>13, <1>14, <1>15, <1>16 DEF Next, Flush, Sender

\* The process starts with well-typed state.
LEMMA InitType == Init => TypeOK
<1>1. ASSUME Init PROVE TypeOK
  <2>1. /\ pending \in [Serials -> Seq(Nat)]
        /\ batch \in [Serials -> Seq(Nat)]
        /\ mainLog \in [Serials -> Seq(Row)]
    BY <1>1, EmptyType DEF Init
  <2>2. /\ seqCounter \in [Serials -> Nat] /\ sent \in [Serials -> Nat]
        /\ mainBoot \in [Serials -> Nat] /\ mainSeq \in [Serials -> Nat]
    BY <1>1 DEF Init
  <2>3. /\ outbox = {} /\ pushed = {} /\ mistaken = {} /\ ticket = {} /\ round = {}
        /\ calls = {} /\ resting = {} /\ late = {}
    BY <1>1 DEF Init
  <2>4. /\ kvBoot \in Nat /\ lastId \in Nat /\ boot \in Nat
        /\ starts \in Nat /\ clock \in Nat
        /\ up \in BOOLEAN /\ flushAlive \in BOOLEAN
    BY <1>1 DEF Init
  <2>5. QED
    BY <2>1, <2>2, <2>3, <2>4 DEF TypeOK
<1>2. QED
  BY <1>1

(***************************************************************************)
(* Type correctness.                                                       *)
(***************************************************************************)
THEOREM TypeCorrect == Spec => []TypeOK
BY InitType, TypeStep, PTL DEF Spec

-----------------------------------------------------------------------------
(* Facts about the building blocks of the actions.                         *)

\* Where the calls after Post come from.
LEMMA PostFacts ==
  ASSUME TypeOK, NEW s \in Serials, NEW n, NEW rows, Post(s, n, rows)
  PROVE  /\ \A c \in calls' :
              \/ c \in calls /\ c.row.serial # s
              \/ /\ c.phase = "sent" /\ c.row.serial = s
                 /\ c.row \in rows /\ Oldest(c.row, rows)
         /\ \A c, d \in calls' :
              c.row.serial = s /\ d.row.serial = s => c = d
<1>1. \A c \in calls \ CallsOf(s) : c \in calls /\ c.row.serial # s
  BY DEF CallsOf
<1>2. CASE calls' = calls \ CallsOf(s)
  BY <1>1, <1>2
<1>3. CASE \E r \in rows :
              /\ r.serial = s
              /\ Oldest(r, rows)
              /\ calls' = (calls \ CallsOf(s)) \cup {[row |-> r, phase |-> "sent"]}
  <2>1. PICK r \in rows :
              /\ r.serial = s
              /\ Oldest(r, rows)
              /\ calls' = (calls \ CallsOf(s)) \cup {[row |-> r, phase |-> "sent"]}
    BY <1>3
  <2>2. \A c \in calls' : \/ c \in calls /\ c.row.serial # s
                          \/ c = [row |-> r, phase |-> "sent"]
    BY <1>1, <2>1
  <2>3. /\ [row |-> r, phase |-> "sent"].row = r
        /\ [row |-> r, phase |-> "sent"].phase = "sent"
    OBVIOUS
  <2>4. QED
    BY <2>1, <2>2, <2>3
<1>4. QED
  BY <1>2, <1>3 DEF Post

\* A result changes nothing but the phase of its call.
LEMMA ResultFacts ==
  ASSUME TypeOK, NEW c \in calls, NEW p, Result(c, p)
  PROVE  \A d \in calls' : \/ d \in calls /\ d # c
                           \/ /\ d = [c EXCEPT !.phase = p]
                              /\ d.row = c.row /\ d.phase = p
<1>1. [c EXCEPT !.phase = p].row = c.row /\ [c EXCEPT !.phase = p].phase = p
  BY DEF TypeOK
<1>2. QED
  BY <1>1 DEF Result

\* What has been applied stays applied, and a row that reaches Main in its
\* turn is applied afterwards; Main's mark stays exact.
LEMMA MainEffect ==
  ASSUME TypeOK, Identity, Ledger, HighWater,
         NEW r \in pushed, Overtaken(r), MainApplies(r),
         UNCHANGED <<kvBoot, pushed, outbox>>
  PROVE  /\ \A q \in pushed : Applied(q) => Applied(q)'
         /\ r \in outbox => Applied(r)'
         /\ \A s \in Serials : mainBoot'[s] \in {0, kvBoot}
         /\ \A s \in Serials : mainBoot'[s] = 0 => mainSeq'[s] = 0
         /\ Mark'
<1> DEFINE z == r.serial
<1>1. r \in Row /\ z \in Serials /\ r.bid = kvBoot /\ r.bid > 0 /\ r.seq \in Nat /\ 0 < r.seq
  BY RowType DEF TypeOK, Identity, Ledger
<1>2. CASE Seen(r)
  <2>1. r \in outbox => Applied(r)
    BY <1>2 DEF Seen, HighWater, Mark
  <2>2. UNCHANGED main
    BY <1>2 DEF MainApplies
  <2>3. QED
    BY <2>1, <2>2 DEF main, Applied, Identity, HighWater, Mark, Due
<1>3. CASE ~Seen(r)
  <2>1. /\ mainBoot' = [mainBoot EXCEPT ![z] = r.bid]
        /\ mainSeq' = [mainSeq EXCEPT ![z] = r.seq]
        /\ mainLog' = [mainLog EXCEPT ![z] = Append(@, r)]
    BY <1>3 DEF MainApplies
  <2>2. mainSeq[z] < r.seq
    BY <1>1, <1>3 DEF Seen, Identity, TypeOK
  <2>3. mainLog[z] \in Seq(Row)
    BY <1>1 DEF TypeOK
  <2>4. /\ mainLog'[z] = Append(mainLog[z], r)
        /\ \A s \in Serials : s # z => mainLog'[s] = mainLog[s]
        /\ mainSeq'[z] = r.seq
        /\ \A s \in Serials : s # z => mainSeq'[s] = mainSeq[s]
        /\ mainBoot'[z] = kvBoot
        /\ \A s \in Serials : s # z => mainBoot'[s] = mainBoot[s]
    BY <1>1, <2>1 DEF TypeOK
  <2>5. /\ DOMAIN mainLog[z] = 1..Len(mainLog[z])
        /\ DOMAIN mainLog'[z] = 1..(Len(mainLog[z]) + 1)
        /\ \A i \in 1..Len(mainLog[z]) : mainLog'[z][i] = mainLog[z][i]
        /\ mainLog'[z][Len(mainLog[z]) + 1] = r
        /\ Len(mainLog[z]) \in Nat
    BY <1>1, <2>3, <2>4
  <2> HIDE DEF z
  <2>6. \A q \in pushed : Applied(q) => Applied(q)'
    <3> SUFFICES ASSUME NEW q \in pushed, Applied(q) PROVE Applied(q)'
      OBVIOUS
    <3>1. q.serial \in Serials
      BY RowType DEF TypeOK
    <3>2. CASE q.serial = z
      BY <2>5, <3>2 DEF Applied
    <3>3. CASE q.serial # z
      BY <2>4, <3>1, <3>3 DEF Applied
    <3>4. QED
      BY <3>2, <3>3
  <2>7. Applied(r)'
    BY <2>5 DEF Applied, z
  <2>8. \A i \in DOMAIN mainLog[z] :
          /\ mainLog[z][i] \in pushed /\ mainLog[z][i].serial = z
          /\ mainLog[z][i].seq <= mainSeq[z] /\ mainLog[z][i].seq \in Nat
    BY <1>1, RowType DEF HighWater, Mark, Due, TypeOK
  <2>9. \A s \in Serials : \A i \in DOMAIN mainLog'[s] :
          /\ mainLog'[s][i] \in pushed
          /\ mainLog'[s][i].serial = s
          /\ mainLog'[s][i].seq <= mainSeq'[s]
    <3> SUFFICES ASSUME NEW s \in Serials, NEW i \in DOMAIN mainLog'[s]
                 PROVE  /\ mainLog'[s][i] \in pushed
                        /\ mainLog'[s][i].serial = s
                        /\ mainLog'[s][i].seq <= mainSeq'[s]
      OBVIOUS
    <3>1. CASE s # z
      BY <2>4, <3>1 DEF HighWater, Mark, Due
    <3>2. CASE s = z /\ i = Len(mainLog[z]) + 1
      BY <1>1, <2>4, <2>5, <3>2 DEF z
    <3>3. CASE s = z /\ i # Len(mainLog[z]) + 1
      <4>1. i \in DOMAIN mainLog[z]
        BY <2>5, <3>3
      <4>2. mainSeq[z] \in Nat
        BY <1>1 DEF TypeOK
      <4>3. mainLog'[s][i] = mainLog[z][i]
        BY <2>5, <3>3, <4>1
      <4>4. mainSeq'[s] = r.seq
        BY <2>4, <3>3
      <4>5. QED
        BY <1>1, <2>2, <2>8, <3>3, <4>1, <4>2, <4>3, <4>4
    <3>4. QED
      BY <3>1, <3>2, <3>3
  <2>10. \A s \in Serials : \A i, j \in DOMAIN mainLog'[s] :
           i < j => mainLog'[s][i].seq < mainLog'[s][j].seq
    <3> SUFFICES ASSUME NEW s \in Serials, NEW i \in DOMAIN mainLog'[s],
                        NEW j \in DOMAIN mainLog'[s], i < j
                 PROVE  mainLog'[s][i].seq < mainLog'[s][j].seq
      OBVIOUS
    <3>1. CASE s # z
      BY <2>4, <3>1 DEF HighWater, Mark, Due
    <3>2. CASE s = z
      <4>1. i \in DOMAIN mainLog[z]
        BY <2>5, <3>2
      <4>2. CASE j = Len(mainLog[z]) + 1
        <5>1. mainSeq[z] \in Nat
          BY <1>1 DEF TypeOK
        <5>2. mainLog'[s][i] = mainLog[z][i] /\ mainLog'[s][j] = r
          BY <2>5, <3>2, <4>1, <4>2
        <5>3. mainLog[z][i].seq <= mainSeq[z] /\ mainLog[z][i].seq \in Nat
          BY <2>8, <4>1
        <5>4. QED
          BY <1>1, <2>2, <5>1, <5>2, <5>3
      <4>3. CASE j # Len(mainLog[z]) + 1
        <5>1. j \in DOMAIN mainLog[z]
          BY <2>5, <3>2, <4>3
        <5>2. mainLog[z][i].seq < mainLog[z][j].seq
          BY <1>1, <4>1, <5>1 DEF HighWater, Mark, Due
        <5>3. QED
          BY <2>5, <3>2, <4>1, <5>1, <5>2
      <4>4. QED
        BY <4>2, <4>3
    <3>3. QED
      BY <3>1, <3>2
  <2>11. \A s \in Serials :
           mainSeq'[s] = 0 \/ \E q \in pushed : q.serial = s /\ q.seq = mainSeq'[s]
    BY <2>4 DEF HighWater, Mark, Due, z
  <2>12. \A q \in outbox : q.seq <= mainSeq'[q.serial] => Applied(q)'
    <3> SUFFICES ASSUME NEW q \in outbox, q.seq <= mainSeq'[q.serial]
                 PROVE  Applied(q)'
      OBVIOUS
    <3>1. /\ q \in pushed /\ q.serial \in Serials
          /\ q.seq \in Nat /\ q.id \in Nat /\ r.id \in Nat
      BY RowType DEF TypeOK, Ledger
    <3>2. CASE q.serial # z
      BY <2>4, <2>6, <3>1, <3>2 DEF HighWater, Mark
    <3>3. CASE q.serial = z
      <4>1. q.seq = r.seq
        BY <1>1, <2>4, <3>1, <3>3 DEF Overtaken, z
      <4>2. ~(q.id < r.id) /\ ~(r.id < q.id)
        BY <1>1, <3>1, <3>3, <4>1 DEF Ledger, z
      <4>3. q = r
        BY <3>1, <4>2 DEF Ledger
      <4>4. QED
        BY <2>7, <4>3
    <3>4. QED
      BY <3>2, <3>3
  <2>13. /\ \A s \in Serials : mainBoot'[s] \in {0, kvBoot}
         /\ \A s \in Serials : mainBoot'[s] = 0 => mainSeq'[s] = 0
    BY <1>1, <2>4 DEF Identity
  <2>14. Mark'
    <3>1. \A q \in outbox' : q.seq <= mainSeq'[q.serial] => Applied(q)'
      BY <2>12
    <3>2. QED
      BY <2>9, <2>10, <2>11, <3>1 DEF Mark
  <2>15. QED
    BY <2>6, <2>7, <2>13, <2>14
<1>4. QED
  BY <1>2, <1>3

-----------------------------------------------------------------------------
(* The inductive steps, one lemma per conjunct of IInv.                    *)

\* One boot id for good: a start takes the one in kv, and nothing else draws one.
LEMMA IdentityStep == IInv /\ [Next]_vars => Identity'
<1> SUFFICES ASSUME IInv, [Next]_vars PROVE Identity'
  OBVIOUS
<1> USE DEF durable, flushing, sending, process, main
<1>1. ASSUME UNCHANGED <<up, boot, kvBoot, calls, ticket, pushed, mainBoot, mainSeq>>
      PROVE  Identity'
  BY <1>1 DEF IInv, Identity
<1>2. ASSUME UNCHANGED <<up, boot, kvBoot, pushed, mainBoot, mainSeq>>, up
      PROVE  Identity'
  BY <1>2 DEF IInv, Identity
<1>3. CASE Start
  <2>1. kvBoot' > 0 /\ boot' = kvBoot' /\ up' /\ UNCHANGED <<pushed, main>>
    BY <1>3 DEF Start, BootId, IInv, TypeOK
  <2>2. CASE kvBoot = 0
    BY <2>1, <2>2 DEF IInv, Identity
  <2>3. CASE kvBoot # 0
    BY <1>3, <2>1, <2>3 DEF Start, BootId, IInv, Identity
  <2>4. QED
    BY <2>2, <2>3
<1>4. CASE Crash
  BY <1>4 DEF Crash, IInv, Identity
<1>5. CASE FlushPush
  <2>1. PICK t \in ticket :
          pushed' = pushed \cup {[id |-> lastId + 1, serial |-> t.serial,
            bid |-> boot, seq |-> t.seq, items |-> batch[t.serial]]}
    BY <1>5 DEF FlushPush
  <2>2. up /\ ticket' = {} /\ UNCHANGED <<up, boot, kvBoot, mainBoot, mainSeq>>
    BY <1>5 DEF FlushPush
  <2>3. \A r \in pushed' : r \in pushed \/ r.bid = boot
    BY <2>1
  <2>4. QED
    BY <2>2, <2>3 DEF IInv, Identity
<1>6. ASSUME NEW r \in pushed, Overtaken(r), MainApplies(r),
             UNCHANGED <<up, boot, kvBoot, pushed, outbox, ticket>>, up \/ calls' = calls
      PROVE  Identity'
  BY <1>6, MainEffect DEF IInv, Identity
<1>7. ASSUME NEW s \in Serials, MainAccepts(s) \/ MainUnheard(s) PROVE Identity'
  <2>1. PICK c \in calls : MainApplies(c.row)
    BY <1>7 DEF MainAccepts, MainUnheard, CallsOf
  <2>2. c.row \in pushed /\ Overtaken(c.row) /\ up
    BY DEF IInv, OneCallForTheOldest, Ledger, HighWater, Mark, Due, Identity
  <2>3. QED
    BY <1>6, <1>7, <2>1, <2>2 DEF MainAccepts, MainUnheard
<1>8. CASE LateArrives
  <2>1. PICK r \in late : MainApplies(r)
    BY <1>8 DEF LateArrives
  <2>2. r \in pushed /\ Overtaken(r)
    BY DEF IInv, Ledger, HighWater, Mark, Due
  <2>3. QED
    BY <1>6, <1>8, <2>1, <2>2 DEF LateArrives
<1>9. CASE FlushSwap \/ FlushDies \/ StartRound
  BY <1>2, <1>9 DEF FlushSwap, FlushDies, StartRound, Running
<1>10. ASSUME NEW s \in Serials,
              FlushSeq(s) \/ OnValue(s) \/ Enter(s) \/ HandleOk(s)
              \/ HandleFailure(s) \/ DeleteRaises(s)
       PROVE  Identity'
  BY <1>2, <1>10 DEF FlushSeq, OnValue, Enter, HandleOk, HandleFailure,
     DeleteRaises, Running
<1>11. ASSUME NEW s \in Serials, BackoffExpires(s) PROVE Identity'
  BY <1>1, <1>11 DEF BackoffExpires
<1>12. ASSUME NEW s \in Serials, MainRefuses(s) \/ MalformedReply(s) \/ CallLost(s)
       PROVE  Identity'
  <2>1. up
    BY <1>12 DEF MainRefuses, MalformedReply, CallLost, CallsOf, IInv, Identity
  <2>2. QED
    BY <1>2, <1>12, <2>1 DEF MainRefuses, MalformedReply, CallLost
<1>13. CASE UNCHANGED vars
  BY <1>1, <1>13 DEF vars
<1>14. QED
  BY <1>3, <1>4, <1>5, <1>7, <1>8, <1>9, <1>10, <1>11, <1>12, <1>13
     DEF Next, Flush, Sender, Network

\* The row FlushPush adds.
LEMMA PushFacts ==
  ASSUME IInv, FlushPush
  PROVE  \E row \in Row :
           /\ outbox' = outbox \cup {row} /\ pushed' = pushed \cup {row}
           /\ row.id = lastId + 1 /\ row.bid = boot /\ 0 < row.seq
           /\ row.seq <= seqCounter[row.serial]
           /\ row.items = batch[row.serial]
           /\ \A r \in pushed : r.serial = row.serial => r.seq < row.seq
           /\ batch' = [batch EXCEPT ![row.serial] = << >>]
<1> DEFINE New(t) == [id |-> lastId + 1, serial |-> t.serial, bid |-> boot,
                      seq |-> t.seq, items |-> batch[t.serial]]
<1>1. PICK t \in ticket : /\ outbox' = outbox \cup {New(t)}
                          /\ pushed' = pushed \cup {New(t)}
                          /\ batch' = [batch EXCEPT ![t.serial] = << >>]
  BY DEF FlushPush
<1>2. t.serial \in Serials /\ t.seq \in Nat
  BY DEF IInv, TypeOK
<1>3. New(t) \in Row
  BY <1>2 DEF IInv, TypeOK, Row
<1>4. /\ New(t).id = lastId + 1 /\ New(t).bid = boot /\ New(t).seq = t.seq
      /\ New(t).serial = t.serial /\ New(t).items = batch[t.serial]
  OBVIOUS
<1>5. /\ 0 < t.seq /\ t.seq <= seqCounter[t.serial]
      /\ \A r \in pushed : r.serial = t.serial => r.seq < t.seq
  BY DEF IInv, Ledger
<1> HIDE DEF New
<1>6. QED
  BY <1>1, <1>3, <1>4, <1>5

\* Ids and sequence numbers stay unique and order the rows alike.
LEMMA LedgerStep == IInv /\ [Next]_vars => Ledger'
<1> SUFFICES ASSUME IInv, [Next]_vars PROVE Ledger'
  OBVIOUS
<1> USE DEF durable, flushing, sending, process, main
<1>1. ASSUME UNCHANGED <<outbox, pushed, lastId, seqCounter>>,
             ticket' \subseteq ticket, late' \subseteq pushed
      PROVE  Ledger'
  BY <1>1 DEF IInv, Ledger
<1>2. \A c \in calls : c.row \in pushed
  BY DEF IInv, OneCallForTheOldest, Ledger
<1>3. late \subseteq pushed
  BY DEF IInv, Ledger
<1>4. CASE Crash
  BY <1>1, <1>2, <1>3, <1>4 DEF Crash
<1>5. ASSUME NEW s \in Serials, FlushSeq(s) PROVE Ledger'
  <2>1. /\ seqCounter' = [seqCounter EXCEPT ![s] = seqCounter[s] + 1]
        /\ ticket' = {[serial |-> s, seq |-> seqCounter[s] + 1]}
        /\ UNCHANGED <<outbox, pushed, lastId, late>>
    BY <1>5 DEF FlushSeq, NextSeq
  <2>2. \A z \in Serials : seqCounter[z] \in Nat /\ seqCounter'[z] \in Nat
                           /\ seqCounter[z] <= seqCounter'[z]
    <3>1. seqCounter \in [Serials -> Nat]
      BY DEF IInv, TypeOK
    <3>2. QED
      BY <2>1, <3>1
  <2>3. \A r \in pushed : r.serial \in Serials /\ r.seq \in Nat
    BY RowType DEF IInv, TypeOK
  <2>4. \A r \in pushed : r.seq <= seqCounter'[r.serial]
    BY <2>2, <2>3 DEF IInv, Ledger
  <2>5. \A t \in ticket' : t.serial = s /\ t.seq = seqCounter[s] + 1
    BY <2>1
  <2>6. seqCounter'[s] = seqCounter[s] + 1
    BY <2>1 DEF IInv, TypeOK
  <2>7. \A t \in ticket' : /\ 0 < t.seq /\ t.seq <= seqCounter'[t.serial]
                           /\ \A r \in pushed : r.serial = t.serial => r.seq < t.seq
    BY <2>2, <2>3, <2>5, <2>6 DEF IInv, Ledger
  <2>8. \A t, u \in ticket' : t = u
    BY <2>1
  <2>9. QED
    BY <2>1, <2>4, <2>7, <2>8 DEF IInv, Ledger
<1>6. CASE FlushPush
  <2>1. PICK row \in Row :
           /\ outbox' = outbox \cup {row} /\ pushed' = pushed \cup {row}
           /\ row.id = lastId + 1 /\ 0 < row.seq
           /\ row.seq <= seqCounter[row.serial]
           /\ \A r \in pushed : r.serial = row.serial => r.seq < row.seq
    BY <1>6, PushFacts
  <2>2. lastId' = lastId + 1 /\ ticket' = {} /\ UNCHANGED <<seqCounter, late>>
    BY <1>6 DEF FlushPush
  <2>3. lastId \in Nat /\ \A r \in pushed' : r.id \in Nat /\ r.seq \in Nat
    BY <2>1, RowType DEF IInv, TypeOK
  <2>4. \A r \in pushed : r.id < row.id
    BY <2>1, <2>3 DEF IInv, Ledger
  <2>5. outbox' \subseteq pushed' /\ late' \subseteq pushed'
    BY <2>1, <2>2 DEF IInv, Ledger
  <2>6. \A r \in pushed' : r.id <= lastId' /\ 0 < r.seq /\ r.seq <= seqCounter'[r.serial]
    BY <2>1, <2>2, <2>3 DEF IInv, Ledger
  <2>7. \A r, q \in pushed' : r.id = q.id => r = q
    BY <2>1, <2>3, <2>4 DEF IInv, Ledger
  <2>8. \A r, q \in pushed' : r.serial = q.serial => (r.id < q.id <=> r.seq < q.seq)
    BY <2>1, <2>3, <2>4 DEF IInv, Ledger
  <2>9. QED
    BY <2>2, <2>5, <2>6, <2>7, <2>8 DEF Ledger
<1>7. ASSUME NEW s \in Serials, HandleOk(s) PROVE Ledger'
  <2>1. outbox' \subseteq outbox
    BY <1>7 DEF HandleOk, Deleted
  <2>2. UNCHANGED <<pushed, lastId, seqCounter, ticket, late>>
    BY <1>7 DEF HandleOk
  <2>3. QED
    BY <2>1, <2>2 DEF IInv, Ledger
<1>8. ASSUME NEW s \in Serials, CallLost(s) PROVE Ledger'
  BY <1>1, <1>2, <1>3, <1>8 DEF CallLost, CallsOf
<1>9. CASE LateArrives
  BY <1>1, <1>3, <1>9 DEF LateArrives
<1>10. CASE Start \/ FlushSwap \/ FlushDies \/ StartRound \/ UNCHANGED vars
  BY <1>1, <1>3, <1>10 DEF Start, FlushSwap, FlushDies, StartRound, vars
<1>11. ASSUME NEW s \in Serials,
              OnValue(s) \/ Enter(s) \/ HandleFailure(s) \/ DeleteRaises(s)
              \/ BackoffExpires(s) \/ MainAccepts(s) \/ MainUnheard(s)
              \/ MainRefuses(s) \/ MalformedReply(s)
       PROVE  Ledger'
  <2>1. UNCHANGED <<outbox, pushed, lastId, seqCounter, ticket, late>>
    BY <1>11 DEF OnValue, Enter, HandleFailure, DeleteRaises, BackoffExpires,
       MainAccepts, MainUnheard, MainRefuses, MalformedReply
  <2>2. QED
    BY <1>1, <1>3, <2>1
<1>12. QED
  BY <1>4, <1>5, <1>6, <1>7, <1>8, <1>9, <1>10, <1>11 DEF Next, Flush, Sender, Network

\* One call at most for a serial, and it stays the one for its oldest row.
LEMMA CallsStep == IInv /\ [Next]_vars => OneCallForTheOldest'
<1> SUFFICES ASSUME IInv, [Next]_vars PROVE OneCallForTheOldest'
  OBVIOUS
<1> USE DEF durable, flushing, sending, process, main
<1>1. ASSUME UNCHANGED outbox, calls' \subseteq calls PROVE OneCallForTheOldest'
  BY <1>1 DEF IInv, OneCallForTheOldest, Oldest
<1>2. CASE Crash
  BY <1>1, <1>2 DEF Crash
<1>3. CASE FlushPush
  <2>1. PICK row \in Row : outbox' = outbox \cup {row} /\ row.id = lastId + 1
    BY <1>3, PushFacts
  <2>2. UNCHANGED calls
    BY <1>3 DEF FlushPush
  <2>3. lastId \in Nat /\ \A c \in calls : c.row.id \in Nat /\ c.row.id <= lastId
    BY RowType DEF IInv, TypeOK, Ledger, OneCallForTheOldest
  <2>4. \A c \in calls : Oldest(c.row, outbox')
    BY <2>1, <2>3 DEF IInv, OneCallForTheOldest, Oldest
  <2>5. QED
    BY <2>1, <2>2, <2>4 DEF IInv, OneCallForTheOldest
<1>4. ASSUME NEW s \in Serials, Enter(s) PROVE OneCallForTheOldest'
  <2>1. CASE UNCHANGED calls
    BY <1>1, <1>4, <2>1 DEF Enter
  <2>2. CASE Post(s, 0, outbox)
    <3>1. UNCHANGED outbox
      BY <1>4 DEF Enter
    <3>2. QED
      BY <2>2, <3>1, PostFacts DEF IInv, OneCallForTheOldest
  <2>3. QED
    BY <1>4, <2>1, <2>2 DEF Enter
<1>5. ASSUME NEW s \in Serials, HandleOk(s) PROVE OneCallForTheOldest'
  <2>1. PICK c \in calls : c.row.serial = s /\ outbox' = {r \in outbox : r.id # c.row.id}
    BY <1>5 DEF HandleOk, Deleted, CallsOf
  <2>2. \A d \in calls : d.row.serial # s => d.row \in outbox' /\ Oldest(d.row, outbox')
    <3> SUFFICES ASSUME NEW d \in calls, d.row.serial # s
                 PROVE  d.row \in outbox' /\ Oldest(d.row, outbox')
      OBVIOUS
    <3>1. d.row \in pushed /\ c.row \in pushed /\ d.row # c.row
      BY <2>1 DEF IInv, OneCallForTheOldest, Ledger
    <3>2. d.row.id # c.row.id
      BY <3>1 DEF IInv, Ledger
    <3>3. QED
      BY <2>1, <3>2 DEF IInv, OneCallForTheOldest, Oldest
  <2>3. Post(s, sent[s] + 1, outbox')
    BY <1>5 DEF HandleOk
  <2>4. QED
    BY <2>2, <2>3, PostFacts DEF IInv, OneCallForTheOldest
<1>6. ASSUME NEW c \in calls, NEW p, Result(c, p), UNCHANGED outbox
      PROVE  OneCallForTheOldest'
  BY <1>6, ResultFacts DEF IInv, OneCallForTheOldest
<1>7. ASSUME NEW s \in Serials, Network(s) PROVE OneCallForTheOldest'
  <2>1. UNCHANGED outbox /\ \E c \in calls, p \in Phase : Result(c, p)
    BY <1>7 DEF Network, MainAccepts, MainUnheard, MainRefuses, MalformedReply,
       CallLost, CallsOf, Phase
  <2>2. QED
    BY <1>6, <2>1
<1>8. ASSUME NEW s \in Serials, HandleFailure(s) \/ DeleteRaises(s)
      PROVE  OneCallForTheOldest'
  BY <1>1, <1>8 DEF HandleFailure, DeleteRaises
<1>9. ASSUME NEW s \in Serials, FlushSeq(s) \/ OnValue(s) \/ BackoffExpires(s)
      PROVE  OneCallForTheOldest'
  BY <1>1, <1>9 DEF FlushSeq, OnValue, BackoffExpires
<1>10. CASE Start \/ FlushSwap \/ FlushDies \/ StartRound \/ LateArrives \/ UNCHANGED vars
  BY <1>1, <1>10 DEF Start, FlushSwap, FlushDies, StartRound, LateArrives, vars
<1>11. QED
  BY <1>2, <1>3, <1>4, <1>5, <1>7, <1>8, <1>9, <1>10 DEF Next, Flush, Sender

\* Main applies only rows that are due, and what it has applied it keeps.
LEMMA MainStep ==
  ASSUME IInv,
         \/ LateArrives
         \/ \E s \in Serials : MainAccepts(s) \/ MainUnheard(s)
  PROVE  \E r \in pushed : Overtaken(r) /\ MainApplies(r)
<1>1. \A r \in late : r \in pushed /\ Overtaken(r)
  BY DEF IInv, Ledger, HighWater, Mark, Due
<1>2. \A c \in calls : c.row \in pushed /\ Overtaken(c.row)
  BY DEF IInv, OneCallForTheOldest, Ledger, HighWater, Mark, Due
<1>3. QED
  BY <1>1, <1>2 DEF LateArrives, MainAccepts, MainUnheard, CallsOf

\* What Main has applied stays applied.
LEMMA AppliedKept ==
  ASSUME IInv, [Next]_vars, NEW q \in pushed, Applied(q)
  PROVE  Applied(q)'
<1> USE DEF durable, flushing, sending, process, main
<1>1. CASE UNCHANGED mainLog
  BY <1>1 DEF Applied
<1>2. CASE \/ LateArrives
           \/ \E s \in Serials : MainAccepts(s) \/ MainUnheard(s)
  <2>1. UNCHANGED <<kvBoot, pushed, outbox>>
    BY <1>2 DEF LateArrives, MainAccepts, MainUnheard
  <2>2. QED
    BY <1>2, <2>1, MainStep, MainEffect DEF IInv
<1>3. CASE Start \/ Crash \/ FlushSwap \/ FlushPush \/ FlushDies \/ StartRound
           \/ UNCHANGED vars
  BY <1>1, <1>3 DEF Start, Crash, FlushSwap, FlushPush, FlushDies, StartRound, vars
<1>4. ASSUME NEW s \in Serials,
             OnValue(s) \/ FlushSeq(s) \/ Sender(s) \/ MainRefuses(s)
             \/ MalformedReply(s) \/ CallLost(s)
      PROVE  UNCHANGED mainLog
  BY <1>4 DEF OnValue, FlushSeq, Sender, Enter, HandleOk, HandleFailure,
     DeleteRaises, BackoffExpires, MainRefuses, MalformedReply, CallLost
<1>5. QED
  BY <1>1, <1>2, <1>3, <1>4 DEF Next, Flush, Network

\* What is settled stays settled.
LEMMA SettledKept ==
  ASSUME IInv, [Next]_vars, NEW q \in pushed, Settled(q)
  PROVE  Settled(q)'
<1> USE DEF durable
<1>1. mistaken \subseteq mistaken'
  <2>1. ASSUME NEW s \in Serials, OnValue(s) \/ Sender(s) \/ Network(s)
        PROVE  mistaken \subseteq mistaken'
    BY <2>1 DEF OnValue, Sender, Enter, HandleOk, HandleFailure, DeleteRaises,
       BackoffExpires, Network, MainAccepts, MainUnheard, MainRefuses,
       MalformedReply, CallLost
  <2>2. ASSUME Start \/ Crash \/ Flush \/ StartRound \/ LateArrives
        PROVE  mistaken \subseteq mistaken'
    BY <2>2 DEF Start, Crash, Flush, FlushSwap, FlushSeq, FlushPush, FlushDies,
       StartRound, LateArrives
  <2>3. QED
    BY <2>1, <2>2 DEF Next, vars
<1>2. QED
  BY <1>1, AppliedKept DEF Settled

\* A row leaves the outbox only after an answer that settles it.
LEMMA NothingLostStep == IInv /\ [Next]_vars => NothingLost'
<1> SUFFICES ASSUME IInv, [Next]_vars PROVE NothingLost'
  OBVIOUS
<1> USE DEF durable, flushing, sending, process, main
<1>1. ASSUME UNCHANGED <<pushed, outbox>> PROVE NothingLost'
  BY <1>1, SettledKept DEF IInv, NothingLost
<1>2. CASE FlushPush
  <2>1. \E row \in Row : outbox' = outbox \cup {row} /\ pushed' = pushed \cup {row}
    BY <1>2, PushFacts
  <2>2. QED
    BY <2>1, SettledKept DEF IInv, NothingLost
<1>3. ASSUME NEW s \in Serials, HandleOk(s) PROVE NothingLost'
  <2>1. PICK c \in calls : /\ c.phase = "ok"
                           /\ outbox' = {r \in outbox : r.id # c.row.id}
    BY <1>3 DEF HandleOk, Deleted, CallsOf
  <2>2. c.row \in pushed /\ Settled(c.row)
    BY <2>1 DEF IInv, OneCallForTheOldest, Ledger, HighWater, Mark, Due
  <2>3. \A r \in outbox : r \notin outbox' => r = c.row
    BY <2>1, <2>2 DEF IInv, Ledger
  <2>4. UNCHANGED pushed
    BY <1>3 DEF HandleOk
  <2>5. QED
    BY <2>2, <2>3, <2>4, SettledKept DEF IInv, NothingLost
<1>4. CASE Start \/ Crash \/ FlushSwap \/ FlushDies \/ StartRound \/ LateArrives
           \/ UNCHANGED vars
  BY <1>1, <1>4 DEF Start, Crash, FlushSwap, FlushDies, StartRound, LateArrives, vars
<1>5. ASSUME NEW s \in Serials,
             OnValue(s) \/ FlushSeq(s) \/ Enter(s) \/ HandleFailure(s)
             \/ DeleteRaises(s) \/ BackoffExpires(s) \/ Network(s)
      PROVE  NothingLost'
  <2>1. UNCHANGED <<pushed, outbox>>
    BY <1>5 DEF OnValue, FlushSeq, Enter, HandleFailure, DeleteRaises,
       BackoffExpires, Network, MainAccepts, MainUnheard, MainRefuses,
       MalformedReply, CallLost
  <2>2. QED
    BY <1>1, <2>1
<1>6. QED
  BY <1>2, <1>3, <1>4, <1>5 DEF Next, Flush, Sender

\* The row with the least id of its serial has the least sequence number.
LEMMA OldestIsDue ==
  ASSUME IInv, NEW rows, rows \subseteq pushed, NEW r \in rows, Oldest(r, rows),
         NEW q \in rows, q.serial = r.serial
  PROVE  r.seq <= q.seq
<1>1. /\ r \in pushed /\ q \in pushed
      /\ q.id \in Nat /\ r.id \in Nat /\ q.seq \in Nat /\ r.seq \in Nat
  BY RowType DEF IInv, TypeOK
<1>2. ~(q.id < r.id)
  BY <1>1 DEF Oldest
<1>3. QED
  BY <1>1, <1>2 DEF IInv, Ledger

\* Main's mark stays exact, and what is on the wire stays due.
LEMMA HighWaterStep == IInv /\ [Next]_vars => HighWater'
<1> SUFFICES ASSUME IInv, [Next]_vars PROVE HighWater'
  OBVIOUS
<1> USE DEF durable, flushing, sending, process, main
<1>1. \A c \in calls : c.row \in pushed /\ c.row \in outbox /\ Overtaken(c.row)
  BY DEF IInv, OneCallForTheOldest, Ledger, HighWater, Due
<1>2. \A r \in late : r \in pushed /\ Overtaken(r)
  BY DEF IInv, Ledger, HighWater, Due
<1>3. \A c \in calls : c.phase = "ok" => Settled(c.row)'
  BY <1>1, SettledKept DEF IInv, HighWater, Due
\* Steps that leave Main and the history alone; rows may leave the outbox.
<1>4. ASSUME UNCHANGED <<pushed, main>>, outbox' \subseteq outbox,
             \A r \in late' : Overtaken(r)',
             \A c \in calls' : Overtaken(c.row)',
             \A c \in calls' : c.phase = "ok" => Settled(c.row)'
      PROVE  HighWater'
  <2>1. \A r \in outbox' : r.seq <= mainSeq[r.serial] => Applied(r)'
    BY <1>4 DEF IInv, HighWater, Mark, Applied
  <2>2. QED
    BY <1>4, <2>1 DEF IInv, HighWater, Mark, Due
<1>5. ASSUME outbox' \subseteq outbox, NEW r, Overtaken(r) PROVE Overtaken(r)'
  BY <1>5 DEF Overtaken
<1>6. ASSUME UNCHANGED <<pushed, main, late, outbox>>, calls' \subseteq calls
      PROVE  HighWater'
  BY <1>1, <1>2, <1>3, <1>4, <1>5, <1>6
<1>7. CASE Crash
  <2>1. calls' = {} /\ UNCHANGED <<pushed, main, outbox>>
    BY <1>7 DEF Crash
  <2>2. \A r \in late' : Overtaken(r)
    BY <1>1, <1>2, <1>7 DEF Crash
  <2>3. QED
    BY <1>4, <1>5, <2>1, <2>2
<1>8. CASE FlushPush
  <2>1. PICK row \in Row :
          /\ outbox' = outbox \cup {row} /\ pushed' = pushed \cup {row}
          /\ 0 < row.seq
          /\ \A r \in pushed : r.serial = row.serial => r.seq < row.seq
    BY <1>8, PushFacts
  <2>2. UNCHANGED <<calls, late, main, mistaken>>
    BY <1>8 DEF FlushPush
  <2>3. row.serial \in Serials /\ row.seq \in Nat /\ mainSeq[row.serial] \in Nat
    BY RowType DEF IInv, TypeOK
  <2>4. \A r \in pushed : r.seq \in Nat
    BY RowType DEF IInv, TypeOK
  <2>5. mainSeq[row.serial] < row.seq
    BY <2>1, <2>3 DEF IInv, HighWater, Mark
  <2>6. \A q : Applied(q)' <=> Applied(q)
    BY <2>2 DEF Applied
  <2>7. ASSUME NEW r \in pushed, Overtaken(r) PROVE Overtaken(r)'
    <3>1. r.serial = row.serial => r.seq <= row.seq
      BY <2>1, <2>3, <2>4
    <3>2. QED
      BY <2>1, <2>7, <3>1 DEF Overtaken
  <2>8. \A r \in outbox' : r.seq <= mainSeq[r.serial] => Applied(r)'
    BY <2>1, <2>3, <2>5, <2>6 DEF IInv, HighWater, Mark
  <2>9. \A s \in Serials : \A k \in DOMAIN mainLog[s] : mainLog[s][k] \in pushed'
    BY <2>1 DEF IInv, HighWater, Mark
  <2>10. \A s \in Serials :
           mainSeq[s] = 0 \/ \E r \in pushed' : r.serial = s /\ r.seq = mainSeq[s]
    BY <2>1 DEF IInv, HighWater, Mark
  <2>11. /\ \A r \in late : Overtaken(r)'
         /\ \A c \in calls : Overtaken(c.row)'
    BY <1>1, <1>2, <2>7
  <2>12. Mark'
    BY <2>2, <2>8, <2>9, <2>10 DEF IInv, HighWater, Mark
  <2>13. Due'
    BY <1>3, <2>2, <2>11 DEF Due
  <2>14. QED
    BY <2>12, <2>13 DEF HighWater
<1>9. ASSUME NEW s \in Serials, Enter(s) PROVE HighWater'
  <2>1. UNCHANGED <<pushed, main, late, outbox>>
    BY <1>9 DEF Enter
  <2>2. CASE UNCHANGED calls
    BY <1>6, <2>1, <2>2
  <2>3. CASE Post(s, 0, outbox)
    <3>1. outbox \subseteq pushed
      BY DEF IInv, Ledger
    <3>2. \A r \in outbox : Oldest(r, outbox) => Overtaken(r)
      BY <3>1, OldestIsDue DEF Overtaken
    <3>3. \A c \in calls' : \/ c \in calls
                            \/ c.phase = "sent" /\ Overtaken(c.row)
      BY <2>3, <3>2, PostFacts DEF IInv
    <3>4. QED
      BY <1>1, <1>2, <1>3, <1>4, <1>5, <2>1, <3>3
  <2>4. QED
    BY <1>9, <2>2, <2>3 DEF Enter
<1>10. ASSUME NEW s \in Serials, HandleOk(s) PROVE HighWater'
  <2>1. UNCHANGED <<pushed, main, late>> /\ Post(s, sent[s] + 1, outbox')
    BY <1>10 DEF HandleOk
  <2>2. outbox' \subseteq outbox /\ outbox \subseteq pushed
    BY <1>10 DEF HandleOk, Deleted, IInv, Ledger
  <2>3. \A r \in outbox' : Oldest(r, outbox') => Overtaken(r)'
    BY <2>2, OldestIsDue DEF Overtaken
  <2>4. \A c \in calls' : \/ c \in calls
                          \/ c.phase = "sent" /\ Overtaken(c.row)'
    BY <2>1, <2>3, PostFacts DEF IInv
  <2>5. QED
    BY <1>1, <1>2, <1>3, <1>4, <1>5, <2>1, <2>2, <2>4
<1>11. ASSUME NEW s \in Serials, HandleFailure(s) \/ DeleteRaises(s) PROVE HighWater'
  BY <1>6, <1>11 DEF HandleFailure, DeleteRaises
<1>12. ASSUME NEW c \in calls, NEW p, Result(c, p), UNCHANGED <<pushed, main, outbox>>,
              p = "ok" => Settled(c.row)', late' \subseteq late \cup {c.row}
       PROVE  HighWater'
  <2>1. \A d \in calls' : d \in calls \/ (d.row = c.row /\ d.phase = p)
    BY <1>12, ResultFacts DEF IInv
  <2>2. QED
    BY <1>1, <1>2, <1>3, <1>4, <1>5, <1>12, <2>1
<1>13. ASSUME NEW s \in Serials, MainRefuses(s) \/ CallLost(s) PROVE HighWater'
  BY <1>12, <1>13 DEF MainRefuses, CallLost, CallsOf
<1>14. ASSUME NEW s \in Serials, MalformedReply(s) PROVE HighWater'
  <2>1. PICK c \in calls : Result(c, "ok") /\ mistaken' = mistaken \cup {c.row}
    BY <1>14 DEF MalformedReply, CallsOf
  <2>2. UNCHANGED <<pushed, main, outbox, late>>
    BY <1>14 DEF MalformedReply
  <2>3. Settled(c.row)'
    BY <2>1 DEF Settled
  <2>4. QED
    BY <1>12, <2>1, <2>2, <2>3
\* Steps of Main: what is on the wire stays due, the served row is applied.
<1>15. ASSUME NEW r \in pushed, Overtaken(r), MainApplies(r),
              UNCHANGED <<kvBoot, pushed, outbox>>,
              late' \subseteq late,
              \A d \in calls' : d \in calls \/ (d.row = r /\ r \in outbox)
       PROVE  HighWater'
  <2>1. Mark' /\ (r \in outbox => Applied(r)')
    BY <1>15, MainEffect DEF IInv
  <2>2. /\ \A q \in late' : Overtaken(q)'
        /\ \A d \in calls' : Overtaken(d.row)'
    BY <1>1, <1>2, <1>5, <1>15
  <2>3. \A d \in calls' : d.phase = "ok" => Settled(d.row)'
    BY <1>3, <1>15, <2>1 DEF Settled
  <2>4. QED
    BY <2>1, <2>2, <2>3 DEF HighWater, Due
<1>16. ASSUME NEW s \in Serials, MainAccepts(s) \/ MainUnheard(s) PROVE HighWater'
  <2>1. PICK c \in calls, p \in Phase : MainApplies(c.row) /\ Result(c, p)
    BY <1>16 DEF MainAccepts, MainUnheard, CallsOf, Phase
  <2>2. UNCHANGED <<kvBoot, pushed, outbox, late>>
    BY <1>16 DEF MainAccepts, MainUnheard
  <2>3. \A d \in calls' : d \in calls \/ d.row = c.row
    BY <2>1, ResultFacts DEF IInv
  <2>4. c.row \in pushed /\ c.row \in outbox /\ Overtaken(c.row)
    BY <1>1
  <2>5. QED
    BY <1>15, <2>1, <2>2, <2>3, <2>4
<1>17. CASE LateArrives
  <2>1. PICK r \in late : MainApplies(r) /\ late' = late \ {r}
    BY <1>17 DEF LateArrives
  <2>2. UNCHANGED <<kvBoot, pushed, outbox, calls>>
    BY <1>17 DEF LateArrives
  <2>3. QED
    BY <1>2, <1>15, <2>1, <2>2
<1>18. CASE Start \/ FlushSwap \/ FlushDies \/ StartRound \/ UNCHANGED vars
  BY <1>6, <1>18 DEF Start, FlushSwap, FlushDies, StartRound, vars
<1>19. ASSUME NEW s \in Serials, OnValue(s) \/ FlushSeq(s) \/ BackoffExpires(s)
       PROVE  HighWater'
  BY <1>6, <1>19 DEF OnValue, FlushSeq, BackoffExpires
<1>20. QED
  BY <1>7, <1>8, <1>9, <1>10, <1>11, <1>13, <1>14, <1>16, <1>17, <1>18, <1>19
     DEF Next, Flush, Sender, Network

\* An empty buffer has no positions.
LEMMA EmptyHasNone == \A s \in Serials : DOMAIN Empty[s] = {}
BY DEF Empty

\* Readings keep their order on the way from pending over batch to the rows.
LEMMA ReadingStep == IInv /\ [Next]_vars => ReadingOrder'
<1> SUFFICES ASSUME IInv, [Next]_vars PROVE ReadingOrder'
  OBVIOUS
<1> USE DEF durable, flushing, sending, process, main
<1>1. ASSUME UNCHANGED <<pending, batch, pushed, clock>> PROVE ReadingOrder'
  BY <1>1 DEF IInv, ReadingOrder, ReadingsOf
<1>2. \A r \in pushed : r.serial \in Serials /\ r.seq \in Nat
  BY RowType DEF IInv, TypeOK
<1>3. ASSUME UNCHANGED <<pushed, clock>>, batch' = Empty, pending' \in {pending, Empty}
      PROVE  ReadingOrder'
  <2>1. \A s \in Serials : \A k \in DOMAIN pending'[s] :
           k \in DOMAIN pending[s] /\ pending'[s][k] = pending[s][k]
    BY <1>3, EmptyHasNone
  <2>2. \A s \in Serials : DOMAIN batch'[s] = {}
    BY <1>3, EmptyHasNone
  <2>3. QED
    BY <1>2, <1>3, <2>1, <2>2 DEF IInv, ReadingOrder, ReadingsOf
<1>4. CASE Crash
  BY <1>3, <1>4 DEF Crash
<1>5. CASE FlushDies
  BY <1>3, <1>5 DEF FlushDies
<1>6. CASE FlushSwap
  <2>1. batch' = pending /\ pending' = Empty /\ UNCHANGED <<pushed, clock>>
    BY <1>6 DEF FlushSwap
  <2>2. \A s \in Serials : DOMAIN pending'[s] = {}
    BY <2>1, EmptyHasNone
  <2>3. QED
    BY <1>2, <2>1, <2>2 DEF IInv, ReadingOrder, ReadingsOf
<1>7. CASE FlushPush
  <2>1. PICK row \in Row :
           /\ pushed' = pushed \cup {row}
           /\ row.items = batch[row.serial]
           /\ \A r \in pushed : r.serial = row.serial => r.seq < row.seq
           /\ batch' = [batch EXCEPT ![row.serial] = << >>]
    BY <1>7, PushFacts
  <2>2. UNCHANGED <<pending, clock>>
    BY <1>7 DEF FlushPush
  <2>3. row.serial \in Serials /\ row.seq \in Nat
    BY RowType
  <2>4. /\ DOMAIN batch'[row.serial] = {}
        /\ \A s \in Serials : s # row.serial => batch'[s] = batch[s]
    BY <2>1, <2>3 DEF IInv, TypeOK
  <2>5. \A s \in Serials : \A k \in DOMAIN batch'[s] :
           k \in DOMAIN batch[s] /\ batch'[s][k] = batch[s][k]
    BY <2>3, <2>4
  <2>6. \A m \in ReadingsOf(row) : \E k \in DOMAIN batch[row.serial] :
           m = batch[row.serial][k]
    BY <2>1 DEF ReadingsOf
  <2>7. \A m \in ReadingsOf(row) :
           /\ m <= clock
           /\ \A k \in DOMAIN pending[row.serial] : m < pending[row.serial][k]
    BY <2>3, <2>6 DEF IInv, ReadingOrder
  <2>8. \A r \in pushed : r.serial = row.serial =>
           \A m \in ReadingsOf(r), n \in ReadingsOf(row) : m < n
    BY <2>6 DEF IInv, ReadingOrder
  <2>9. \A r \in pushed' : \A m \in ReadingsOf(r) :
           /\ m <= clock
           /\ \A k \in DOMAIN batch'[r.serial] : m < batch'[r.serial][k]
           /\ \A k \in DOMAIN pending[r.serial] : m < pending[r.serial][k]
    BY <1>2, <2>1, <2>3, <2>4, <2>5, <2>7 DEF IInv, ReadingOrder
  <2>10. \A r, q \in pushed' : r.serial = q.serial /\ r.seq < q.seq =>
           \A m \in ReadingsOf(r), n \in ReadingsOf(q) : m < n
    <3> SUFFICES ASSUME NEW r \in pushed', NEW q \in pushed', r.serial = q.serial,
                        r.seq < q.seq
                 PROVE  \A m \in ReadingsOf(r), n \in ReadingsOf(q) : m < n
      OBVIOUS
    <3>1. CASE r \in pushed /\ q \in pushed
      BY <3>1 DEF IInv, ReadingOrder
    <3>2. CASE r \in pushed /\ q = row
      BY <2>8, <3>2
    <3>3. CASE r = row /\ q = row
      BY <2>3, <3>3
    <3>4. CASE r = row /\ q \in pushed
      BY <1>2, <2>1, <2>3, <3>4
    <3>5. QED
      BY <2>1, <3>1, <3>2, <3>3, <3>4
  <2>11. /\ \A s \in Serials : \A k \in DOMAIN pending[s] : pending[s][k] <= clock
         /\ \A s \in Serials : \A k \in DOMAIN batch'[s] :
              /\ batch'[s][k] <= clock
              /\ \A j \in DOMAIN pending[s] : batch'[s][k] < pending[s][j]
    BY <2>5 DEF IInv, ReadingOrder
  <2>12. QED
    BY <2>2, <2>9, <2>10, <2>11 DEF ReadingOrder, ReadingsOf
<1>8. ASSUME NEW s \in Serials, OnValue(s) PROVE ReadingOrder'
  <2>1. /\ clock' = clock + 1
        /\ pending' = [pending EXCEPT ![s] = Append(@, clock + 1)]
        /\ UNCHANGED <<batch, pushed>>
        /\ batch = Empty
    BY <1>8 DEF OnValue, Running, Flushing
  <2>2. clock \in Nat /\ pending[s] \in Seq(Nat)
    BY DEF IInv, TypeOK
  <2>3. /\ \A z \in Serials : z # s => pending'[z] = pending[z]
        /\ pending'[s] = Append(pending[s], clock + 1)
    BY <2>1 DEF IInv, TypeOK
  <2>4. \A z \in Serials : \A k \in DOMAIN pending'[z] :
           \/ k \in DOMAIN pending[z] /\ pending'[z][k] = pending[z][k]
           \/ pending'[z][k] = clock + 1
    <3> SUFFICES ASSUME NEW z \in Serials, NEW k \in DOMAIN pending'[z]
                 PROVE  \/ k \in DOMAIN pending[z] /\ pending'[z][k] = pending[z][k]
                        \/ pending'[z][k] = clock + 1
      OBVIOUS
    <3>1. CASE z # s
      BY <2>3, <3>1
    <3>2. CASE z = s
      <4>1. /\ DOMAIN pending[s] = 1..Len(pending[s]) /\ Len(pending[s]) \in Nat
            /\ DOMAIN pending'[s] = 1..(Len(pending[s]) + 1)
            /\ \A i \in 1..Len(pending[s]) : pending'[s][i] = pending[s][i]
            /\ pending'[s][Len(pending[s]) + 1] = clock + 1
        BY <2>2, <2>3
      <4>2. QED
        BY <3>2, <4>1
    <3>3. QED
      BY <3>1, <3>2
  <2>5. \A z \in Serials : \A k \in DOMAIN pending[z] :
           pending[z][k] \in Nat /\ pending[z][k] <= clock
    <3>1. \A z \in Serials : \A k \in DOMAIN pending[z] : pending[z][k] <= clock
      BY DEF IInv, ReadingOrder
    <3>2. \A z \in Serials : pending[z] \in Seq(Nat)
      BY DEF IInv, TypeOK
    <3>3. QED
      BY <3>1, <3>2
  <2>6. \A z \in Serials : \A k \in DOMAIN pending'[z] : pending'[z][k] <= clock + 1
    BY <2>2, <2>4, <2>5
  <2>7. \A z \in Serials : DOMAIN batch[z] = {}
    BY <2>1, EmptyHasNone
  <2>8. \A r \in pushed : \A m \in ReadingsOf(r) : m \in Nat /\ m <= clock
    <3>1. \A r \in pushed : \A m \in ReadingsOf(r) : m <= clock
      BY DEF IInv, ReadingOrder
    <3>2. \A r \in pushed : r.items \in Seq(Nat)
      BY RowType DEF IInv, TypeOK
    <3>3. QED
      BY <3>1, <3>2 DEF ReadingsOf
  <2>9. \A r \in pushed : \A m \in ReadingsOf(r) :
           /\ m <= clock + 1
           /\ \A k \in DOMAIN pending'[r.serial] : m < pending'[r.serial][k]
    <3> SUFFICES ASSUME NEW r \in pushed, NEW m \in ReadingsOf(r)
                 PROVE  /\ m <= clock + 1
                        /\ \A k \in DOMAIN pending'[r.serial] :
                             m < pending'[r.serial][k]
      OBVIOUS
    <3>1. m \in Nat /\ m <= clock /\ r.serial \in Serials
      BY <1>2, <2>8
    <3>2. \A k \in DOMAIN pending[r.serial] : m < pending[r.serial][k]
      BY DEF IInv, ReadingOrder
    <3>3. QED
      BY <2>2, <2>4, <3>1, <3>2
  <2>10. QED
    <3>1. \A r, q \in pushed : r.serial = q.serial /\ r.seq < q.seq =>
            \A m \in ReadingsOf(r), n \in ReadingsOf(q) : m < n
      BY DEF IInv, ReadingOrder
    <3>2. \A r \in pushed : DOMAIN batch[r.serial] = {}
      BY <1>2, <2>7
    <3>3. QED
      <4>1. \A r : ReadingsOf(r)' = ReadingsOf(r)
        BY DEF ReadingsOf
      <4>2. /\ clock' = clock + 1
            /\ UNCHANGED <<batch, pushed>>
        BY <2>1
      <4>3. QED
        BY <2>6, <2>7, <2>9, <3>1, <3>2, <4>1, <4>2 DEF ReadingOrder
<1>9. CASE Start \/ StartRound \/ LateArrives \/ UNCHANGED vars
  BY <1>1, <1>9 DEF Start, StartRound, LateArrives, vars
<1>10. ASSUME NEW s \in Serials, FlushSeq(s) \/ Sender(s) \/ Network(s)
       PROVE  ReadingOrder'
  <2>1. UNCHANGED <<pending, batch, pushed, clock>>
    BY <1>10 DEF FlushSeq, Sender, Enter, HandleOk, HandleFailure, DeleteRaises,
       BackoffExpires, Network, MainAccepts, MainUnheard, MainRefuses,
       MalformedReply, CallLost
  <2>2. QED
    BY <1>1, <2>1
<1>11. QED
  BY <1>4, <1>5, <1>6, <1>7, <1>8, <1>9, <1>10 DEF Next, Flush

-----------------------------------------------------------------------------
(* The theorems.                                                           *)

\* The inductive invariant holds at first.
LEMMA InitInductive == Init => IInv
<1> SUFFICES ASSUME Init PROVE IInv
  OBVIOUS
<1>1. TypeOK
  BY InitType
<1>2. /\ outbox = {} /\ pushed = {} /\ ticket = {} /\ calls = {} /\ late = {}
      /\ ~up /\ kvBoot = 0 /\ pending = Empty /\ batch = Empty
      /\ \A s \in Serials : mainBoot[s] = 0 /\ mainSeq[s] = 0 /\ mainLog[s] = Empty[s]
  BY DEF Init
<1>3. Identity /\ Ledger /\ OneCallForTheOldest /\ NothingLost
  BY <1>2 DEF Identity, Ledger, OneCallForTheOldest, NothingLost
<1>4. HighWater
  BY <1>2, EmptyHasNone DEF HighWater, Mark, Due
<1>5. ReadingOrder
  BY <1>2, EmptyHasNone DEF ReadingOrder
<1>6. QED
  BY <1>1, <1>3, <1>4, <1>5 DEF IInv

(***************************************************************************)
(* The inductive invariant holds of every behaviour.                       *)
(***************************************************************************)
THEOREM Inductive ==
  Spec => []IInv
<1>1. IInv /\ [Next]_vars => IInv'
  <2>1. IInv => TypeOK
    BY DEF IInv
  <2>2. QED
    BY <2>1, TypeStep, IdentityStep, LedgerStep, CallsStep, NothingLostStep,
       HighWaterStep, ReadingStep DEF IInv
<1>2. QED
  BY <1>1, InitInductive, PTL DEF Spec

(***************************************************************************)
(* A batch the outbox has taken is in the outbox until Main has applied it *)
(* or a 2xx reply that is not Main's was taken for its answer: retries,    *)
(* lost answers, late requests and crashes lose nothing.                   *)
(***************************************************************************)
THEOREM NeverLost ==
  Spec => []NothingLost
<1>1. IInv => NothingLost
  BY DEF IInv
<1>2. QED
  BY <1>1, Inductive, PTL

(***************************************************************************)
(* Main's log of a serial holds every reading at most once and in order.   *)
(***************************************************************************)
THEOREM ExactlyOnceInOrder ==
  Spec => []MainLogInOrder
<1>1. IInv => MainLogInOrder
  <2> SUFFICES ASSUME IInv, NEW s \in Serials,
                      NEW i \in DOMAIN mainLog[s], NEW j \in DOMAIN mainLog[s], i < j
               PROVE  \A m \in ReadingsOf(mainLog[s][i]),
                         n \in ReadingsOf(mainLog[s][j]) : m < n
    BY DEF MainLogInOrder
  <2>1. /\ mainLog[s][i] \in pushed /\ mainLog[s][j] \in pushed
        /\ mainLog[s][i].serial = mainLog[s][j].serial
        /\ mainLog[s][i].seq < mainLog[s][j].seq
    BY DEF IInv, HighWater, Mark
  <2>2. QED
    BY <2>1 DEF IInv, ReadingOrder
<1>2. QED
  BY <1>1, Inductive, PTL

(***************************************************************************)
(* No waiting batch looks to Main like one it has had.                     *)
(***************************************************************************)
THEOREM NeverFalselyDuplicate ==
  Spec => []NoFalseDuplicate
<1>1. IInv => NoFalseDuplicate
  BY DEF IInv, NoFalseDuplicate, Ledger, HighWater, Mark, Seen
<1>2. QED
  BY <1>1, Inductive, PTL

(***************************************************************************)
(* At most one call per serial is on the wire, for its oldest row.         *)
(***************************************************************************)
THEOREM InTurn ==
  Spec => []OneCallForTheOldest
<1>1. IInv => OneCallForTheOldest
  BY DEF IInv
<1>2. QED
  BY <1>1, Inductive, PTL

-----------------------------------------------------------------------------
(* Telemetry implements Delivery, for every set of serials and every bound, *)
(* as long as every 2xx reply is Main's own.                                *)

\* No 2xx reply has passed for Main's.
Honest == mistaken = {}

\* Only a portal makes a reply pass for Main's.
LEMMA HonestStep == ~Malformed /\ Honest /\ [Next]_vars => Honest'
<1> SUFFICES ASSUME ~Malformed, Honest, [Next]_vars PROVE Honest'
  OBVIOUS
<1> USE DEF durable
<1>1. ASSUME NEW s \in Serials, OnValue(s) \/ Sender(s) \/ Network(s)
      PROVE  UNCHANGED mistaken
  BY <1>1 DEF OnValue, Sender, Enter, HandleOk, HandleFailure, DeleteRaises,
     BackoffExpires, Network, MainAccepts, MainUnheard, MainRefuses,
     MalformedReply, CallLost
<1>2. ASSUME Start \/ Crash \/ Flush \/ StartRound \/ LateArrives
      PROVE  UNCHANGED mistaken
  BY <1>2 DEF Start, Crash, Flush, FlushSwap, FlushSeq, FlushPush, FlushDies,
     StartRound, LateArrives
<1>3. QED
  BY <1>1, <1>2 DEF Next, vars, Honest

\* What Main has applied was in the outbox once, and Main knows it again.
LEMMA AppliedFacts ==
  ASSUME IInv, NEW r, Applied(r), r.serial \in Serials
  PROVE  /\ r \in pushed
         /\ r \in pushed => Seen(r)
<1>1. PICK i \in DOMAIN mainLog[r.serial] : mainLog[r.serial][i] = r
  BY DEF Applied
<1>2. r \in pushed /\ r.seq <= mainSeq[r.serial]
  BY <1>1 DEF IInv, HighWater, Mark
<1>3. r.seq \in Nat /\ 0 < r.seq /\ r.bid = kvBoot
  BY <1>2, RowType DEF IInv, TypeOK, Identity, Ledger
<1>4. mainSeq[r.serial] # 0
  BY <1>2, <1>3 DEF IInv, TypeOK
<1>5. mainBoot[r.serial] = kvBoot
  BY <1>4 DEF IInv, Identity
<1>6. QED
  BY <1>2, <1>3, <1>5 DEF Seen

\* A step that leaves outbox and log alone is invisible.
LEMMA Invisible ==
  ASSUME UNCHANGED <<outbox, mainLog>>
  PROVE  UNCHANGED Promise!vars
BY DEF Promise!vars, Unapplied, Applied

\* A push takes a batch.
LEMMA PushTakes == IInv /\ FlushPush => Promise!Take
<1> SUFFICES ASSUME IInv, FlushPush PROVE Promise!Take
  OBVIOUS
<1>1. PICK row \in Row :
        /\ outbox' = outbox \cup {row}
        /\ row.id = lastId + 1
        /\ \A r \in pushed : r.serial = row.serial => r.seq < row.seq
  BY PushFacts
<1>2. UNCHANGED mainLog
  BY DEF FlushPush, main
<1>3. row \notin pushed
  BY <1>1 DEF IInv, Ledger, TypeOK
<1>4. row.serial \in Serials /\ row \notin outbox /\ ~Applied(row)
  BY <1>3, AppliedFacts, RowType DEF IInv, Ledger
<1>5. Unapplied' = Unapplied \cup {row}
  BY <1>1, <1>2, <1>4 DEF Unapplied, Applied
<1>6. row \in Unapplied' \ Unapplied
  BY <1>4, <1>5 DEF Unapplied
<1>7. \A o \in Promise!WaitingOf(row.serial) : o.seq < row.seq
  BY <1>1 DEF Promise!WaitingOf, Unapplied, IInv, Ledger
<1>8. \A i \in DOMAIN mainLog[row.serial] : mainLog[row.serial][i].seq < row.seq
  BY <1>1, <1>4 DEF IInv, HighWater, Mark
<1>9. QED
  BY <1>2, <1>5, <1>6, <1>7, <1>8 DEF Promise!Take

\* An acknowledged row leaves the outbox unseen: Main has applied it.
LEMMA DeleteInvisible ==
  ASSUME IInv, Honest, NEW s \in Serials, HandleOk(s)
  PROVE  UNCHANGED Promise!vars
<1>1. PICK c \in calls : c.phase = "ok" /\ outbox' = Deleted(c)
  BY DEF HandleOk, CallsOf
<1>2. UNCHANGED mainLog
  BY DEF HandleOk, main
<1>3. Applied(c.row)
  BY <1>1 DEF IInv, HighWater, Due, Settled, Honest
<1>4. \A q \in outbox : q.id = c.row.id => q = c.row
  BY DEF IInv, Ledger, OneCallForTheOldest
<1>5. Unapplied' = Unapplied
  BY <1>1, <1>2, <1>3, <1>4 DEF Unapplied, Applied, Deleted
<1>6. QED
  BY <1>2, <1>5 DEF Promise!vars

\* A request that reaches Main applies the oldest batch that waits, or is a
\* duplicate nobody sees.
LEMMA MainApplyStep ==
  ASSUME IInv, Honest, NEW r \in pushed, Overtaken(r), MainApplies(r),
         UNCHANGED <<kvBoot, pushed, outbox>>
  PROVE  (\E s \in Serials : Promise!Apply(s)) \/ UNCHANGED Promise!vars
<1> DEFINE z == r.serial
<1>1. r \in Row /\ z \in Serials
  BY RowType DEF IInv, TypeOK
<1>2. CASE Seen(r)
  BY <1>2, Invisible DEF MainApplies, main
<1>3. CASE ~Seen(r)
  <2>1. ~Applied(r)
    BY <1>1, <1>3, AppliedFacts
  <2>2. r \in outbox
    BY <2>1 DEF IInv, NothingLost, Settled, Honest
  <2>3. mainLog' = [mainLog EXCEPT ![z] = Append(@, r)]
    BY <1>3 DEF MainApplies
  <2>4. /\ \A q \in pushed : Applied(q) => Applied(q)'
        /\ Applied(r)'
    BY <2>2, MainEffect DEF IInv
  <2>5. mainLog[z] \in Seq(Row)
    BY <1>1 DEF IInv, TypeOK
  <2>6. ASSUME NEW q \in outbox, q # r, Applied(q)' PROVE Applied(q)
    <3>1. q.serial \in Serials
      BY RowType DEF IInv, TypeOK
    <3>2. CASE q.serial # z
      BY <1>1, <2>3, <2>6, <3>1, <3>2 DEF Applied, IInv, TypeOK
    <3>3. CASE q.serial = z
      <4>1. mainLog'[z] = Append(mainLog[z], r)
        BY <1>1, <2>3 DEF IInv, TypeOK
      <4>2. PICK i \in DOMAIN mainLog'[z] : mainLog'[z][i] = q
        BY <2>6, <3>3 DEF Applied
      <4>3. i \in DOMAIN mainLog[z] /\ mainLog[z][i] = q
        BY <2>5, <2>6, <4>1, <4>2
      <4>4. QED
        BY <3>3, <4>3 DEF Applied
    <3>4. QED
      BY <3>2, <3>3
  <2>7. Unapplied' = Unapplied \ {r}
    BY <2>4, <2>6 DEF Unapplied, IInv, Ledger
  <2>8. r \in Promise!WaitingOf(z)
    BY <2>1, <2>2 DEF Promise!WaitingOf, Unapplied
  <2>9. \A o \in Promise!WaitingOf(z) : r.seq <= o.seq
    BY DEF Promise!WaitingOf, Unapplied, Overtaken
  <2>10. Promise!Apply(z)
    BY <2>3, <2>7, <2>8, <2>9 DEF Promise!Apply
  <2>11. QED
    BY <1>1, <2>10
<1>4. QED
  BY <1>2, <1>3

(***************************************************************************)
(* Every step of the durable path is a step of Delivery or invisible.      *)
(***************************************************************************)
LEMMA StepImplements ==
  IInv /\ Honest /\ [Next]_vars => [Promise!Next]_(Promise!vars)
<1> SUFFICES ASSUME IInv, Honest, [Next]_vars
             PROVE  Promise!Next \/ UNCHANGED Promise!vars
  OBVIOUS
<1> USE DEF durable, main
<1>1. CASE FlushPush
  BY <1>1, PushTakes DEF Promise!Next
<1>2. ASSUME NEW s \in Serials, HandleOk(s)
      PROVE  UNCHANGED Promise!vars
  BY <1>2, DeleteInvisible
<1>3. CASE \/ LateArrives
           \/ \E s \in Serials : MainAccepts(s) \/ MainUnheard(s)
  <2>1. UNCHANGED <<kvBoot, pushed, outbox>>
    BY <1>3 DEF LateArrives, MainAccepts, MainUnheard
  <2>2. PICK r \in pushed : Overtaken(r) /\ MainApplies(r)
    BY <1>3, MainStep
  <2>3. QED
    BY <2>1, <2>2, MainApplyStep DEF Promise!Next
<1>4. ASSUME NEW s \in Serials,
             \/ OnValue(s) \/ FlushSeq(s) \/ Enter(s) \/ HandleFailure(s)
             \/ DeleteRaises(s) \/ BackoffExpires(s)
             \/ MainRefuses(s) \/ MalformedReply(s) \/ CallLost(s)
      PROVE  UNCHANGED <<outbox, mainLog>>
  BY <1>4 DEF OnValue, FlushSeq, Enter, HandleFailure, DeleteRaises,
     BackoffExpires, MainRefuses, MalformedReply, CallLost
<1>5. ASSUME Start \/ Crash \/ FlushSwap \/ FlushDies \/ StartRound \/ UNCHANGED vars
      PROVE  UNCHANGED <<outbox, mainLog>>
  BY <1>5 DEF Start, Crash, FlushSwap, FlushDies, StartRound, vars
<1>6. QED
  BY <1>1, <1>2, <1>3, <1>4, <1>5, Invisible DEF Next, Flush, Sender, Network

(***************************************************************************)
(* The durable path keeps Delivery's promise: a batch the outbox has taken *)
(* is applied by Main at most once, and in the order of its serial,        *)
(* through retries, lost answers, late requests and crashes.               *)
(***************************************************************************)
THEOREM ImplementsDelivery ==
  ASSUME ~Malformed
  PROVE  Spec => DeliveryKept
<1>1. Init => Honest /\ Promise!Init
  BY DEF Init, Honest, Promise!Init, Unapplied, Empty
<1>2. Honest /\ [Next]_vars => Honest'
  BY HonestStep
<1>3. Spec => []Honest
  BY <1>1, <1>2, PTL DEF Spec
<1>4. QED
  BY <1>1, <1>3, Inductive, StepImplements, PTL DEF Spec, DeliveryKept, Promise!Spec

\* What follows from Delivery alone: the log ascends, what waits is younger than
\* the log, and no two that wait are equally old.
Ascending ==
  /\ \A s \in Serials : \A i, j \in DOMAIN mainLog[s] :
       i < j => mainLog[s][i].seq < mainLog[s][j].seq
  /\ \A s \in Serials : \A i \in DOMAIN mainLog[s] : \A o \in Promise!WaitingOf(s) :
       mainLog[s][i].seq < o.seq
  /\ \A s \in Serials : \A o, q \in Promise!WaitingOf(s) : o.seq = q.seq => o = q

BatchesTyped == Unapplied \subseteq Row /\ mainLog \in [Serials -> Seq(Row)]

\* The log of s with one batch more.
LEMMA LogGrows ==
  ASSUME NEW z \in Serials, NEW b \in Row, mainLog \in [Serials -> Seq(Row)],
         mainLog' = [mainLog EXCEPT ![z] = Append(@, b)]
  PROVE  /\ \A s \in Serials : s # z => mainLog'[s] = mainLog[s]
         /\ \A i \in DOMAIN mainLog[z] : i \in DOMAIN mainLog'[z] /\ mainLog'[z][i] = mainLog[z][i]
         /\ \A i \in DOMAIN mainLog'[z] :
              \/ i \in DOMAIN mainLog[z] /\ mainLog'[z][i] = mainLog[z][i]
              \/ /\ mainLog'[z][i] = b /\ i = Len(mainLog[z]) + 1
                 /\ \A j \in DOMAIN mainLog[z] : j < i
         /\ \E i \in DOMAIN mainLog'[z] : mainLog'[z][i] = b
<1>1. mainLog[z] \in Seq(Row) /\ mainLog'[z] = Append(mainLog[z], b)
  OBVIOUS
<1>2. DOMAIN mainLog[z] = 1..Len(mainLog[z]) /\ Len(mainLog[z]) \in Nat
  BY <1>1
<1>3. DOMAIN mainLog'[z] = 1..Len(mainLog[z]) + 1
  BY <1>1, <1>2
<1>. QED
  BY <1>1, <1>2, <1>3

LEMMA AscendingApply ==
  ASSUME Ascending, BatchesTyped, NEW z \in Serials, Promise!Apply(z)
  PROVE  /\ Ascending'
         /\ \A r \in Unapplied : r \in Unapplied' \/ Applied(r)'
         /\ \A s \in Serials : \A i \in DOMAIN mainLog[s] :
              i \in DOMAIN mainLog'[s] /\ mainLog'[s][i] = mainLog[s][i]
<1>1. PICK b \in Promise!WaitingOf(z) :
        /\ \A o \in Promise!WaitingOf(z) : b.seq <= o.seq
        /\ Unapplied' = Unapplied \ {b}
        /\ mainLog' = [mainLog EXCEPT ![z] = Append(@, b)]
  BY DEF Promise!Apply
<1>2. b \in Row /\ b.serial = z /\ mainLog \in [Serials -> Seq(Row)]
  BY <1>1 DEF Promise!WaitingOf, BatchesTyped
<1>3. /\ \A s \in Serials : s # z => mainLog'[s] = mainLog[s]
      /\ \A i \in DOMAIN mainLog[z] : i \in DOMAIN mainLog'[z] /\ mainLog'[z][i] = mainLog[z][i]
      /\ \A i \in DOMAIN mainLog'[z] :
           \/ i \in DOMAIN mainLog[z] /\ mainLog'[z][i] = mainLog[z][i]
           \/ /\ mainLog'[z][i] = b /\ i = Len(mainLog[z]) + 1
              /\ \A j \in DOMAIN mainLog[z] : j < i
      /\ \E i \in DOMAIN mainLog'[z] : mainLog'[z][i] = b
  BY <1>1, <1>2, LogGrows
<1>4. \A s \in Serials : Promise!WaitingOf(s)' = Promise!WaitingOf(s) \ {b}
  BY <1>1 DEF Promise!WaitingOf
<1>5. \A o \in Promise!WaitingOf(z) \ {b} : b.seq < o.seq
  <2>1. \A o \in Promise!WaitingOf(z) : o.seq \in Nat
    BY RowType DEF BatchesTyped, Promise!WaitingOf
  <2>2. \A o \in Promise!WaitingOf(z) \ {b} : b.seq <= o.seq /\ b.seq # o.seq
    BY <1>1 DEF Ascending
  <2>. QED
    BY <1>1, <2>1, <2>2
<1>6. ASSUME NEW s \in Serials, NEW i \in DOMAIN mainLog'[s], NEW j \in DOMAIN mainLog'[s], i < j
      PROVE  mainLog'[s][i].seq < mainLog'[s][j].seq
  <2>1. CASE s # z
    BY <1>3, <1>6, <2>1 DEF Ascending
  <2>2. CASE s = z
    <3>0. i \in Nat /\ j \in Nat
      BY <1>1, <1>2, <1>6, <2>2
    <3>1. i \in DOMAIN mainLog[z] /\ mainLog'[z][i] = mainLog[z][i]
      <4>1. CASE i \notin DOMAIN mainLog[z]
        <5>1. i = Len(mainLog[z]) + 1 /\ \A k \in DOMAIN mainLog[z] : k < i
          BY <1>3, <1>6, <2>2, <4>1
        <5>2. j < i \/ j = i
          BY <1>3, <1>6, <2>2, <5>1
        <5>. QED
          BY <1>6, <3>0, <5>2
      <4>. QED
        BY <1>3, <1>6, <2>2, <4>1
    <3>2. CASE j \in DOMAIN mainLog[z]
      BY <1>3, <1>6, <2>2, <3>1, <3>2 DEF Ascending
    <3>3. CASE mainLog'[z][j] = b
      BY <1>1, <2>2, <3>1, <3>3 DEF Ascending
    <3>. QED
      BY <1>3, <1>6, <2>2, <3>2, <3>3
  <2>. QED
    BY <2>1, <2>2
<1>7. ASSUME NEW s \in Serials, NEW i \in DOMAIN mainLog'[s], NEW o \in Promise!WaitingOf(s)'
      PROVE  mainLog'[s][i].seq < o.seq
  BY <1>3, <1>4, <1>5, <1>7 DEF Ascending
<1>8. Ascending'
  BY <1>4, <1>6, <1>7 DEF Ascending
<1>9. \A r \in Unapplied : r \in Unapplied' \/ Applied(r)'
  BY <1>1, <1>2, <1>3 DEF Applied
<1>. QED
  BY <1>3, <1>8, <1>9

LEMMA AscendingTake ==
  ASSUME Ascending, BatchesTyped, BatchesTyped', Promise!Take
  PROVE  Ascending' /\ Unapplied \subseteq Unapplied' /\ UNCHANGED mainLog
<1>1. PICK b \in Unapplied' \ Unapplied :
        /\ Unapplied' = Unapplied \cup {b}
        /\ \A o \in Promise!WaitingOf(b.serial) : o.seq < b.seq
        /\ \A i \in DOMAIN mainLog[b.serial] : mainLog[b.serial][i].seq < b.seq
  BY DEF Promise!Take
<1>2. UNCHANGED mainLog
  BY DEF Promise!Take
<1>3. \A s \in Serials : Promise!WaitingOf(s)'
                          = Promise!WaitingOf(s) \cup {o \in {b} : o.serial = s}
  BY <1>1 DEF Promise!WaitingOf
<1>4. b.seq \in Nat /\ \A s \in Serials : \A o \in Promise!WaitingOf(s) : o.seq \in Nat
  BY <1>1, RowType DEF BatchesTyped, Promise!WaitingOf
<1>5. \A s \in Serials : \A o, q \in Promise!WaitingOf(s)' : o.seq = q.seq => o = q
  BY <1>1, <1>3, <1>4 DEF Ascending
<1>6. \A s \in Serials : \A i \in DOMAIN mainLog'[s] : \A o \in Promise!WaitingOf(s)' :
        mainLog'[s][i].seq < o.seq
  BY <1>1, <1>2, <1>3 DEF Ascending
<1>. QED
  BY <1>1, <1>2, <1>5, <1>6 DEF Ascending

(***************************************************************************)
(* What Delivery's promise means, whoever keeps it: the batches of a       *)
(* serial are applied in ascending order, one that waits is not forgotten, *)
(* and what was applied stays where it is in the log.                      *)
(***************************************************************************)
THEOREM DeliveryMeans ==
  DeliveryKept /\ []TypeOK =>
    /\ [](\A s \in Serials : \A i, j \in DOMAIN mainLog[s] :
            i < j => mainLog[s][i].seq < mainLog[s][j].seq)
    /\ [][\A r \in Unapplied : r \in Unapplied' \/ Applied(r)']_(Promise!vars)
    /\ [][\A s \in Serials : \A i \in DOMAIN mainLog[s] :
            i \in DOMAIN mainLog'[s] /\ mainLog'[s][i] = mainLog[s][i]]_(Promise!vars)
<1>. DEFINE InOrder == \A s \in Serials : \A i, j \in DOMAIN mainLog[s] :
                         i < j => mainLog[s][i].seq < mainLog[s][j].seq
            NoneForgotten == \A r \in Unapplied : r \in Unapplied' \/ Applied(r)'
            NoneMoved == \A s \in Serials : \A i \in DOMAIN mainLog[s] :
                           i \in DOMAIN mainLog'[s] /\ mainLog'[s][i] = mainLog[s][i]
<1>1. TypeOK => BatchesTyped
  BY DEF TypeOK, BatchesTyped, Unapplied
<1>2. Promise!Init => Ascending
  BY DEF Promise!Init, Ascending, Promise!WaitingOf
<1>3. Ascending /\ BatchesTyped /\ BatchesTyped' /\ [Promise!Next]_(Promise!vars)
        => Ascending' /\ [NoneForgotten]_(Promise!vars) /\ [NoneMoved]_(Promise!vars)
  <2>. SUFFICES ASSUME Ascending, BatchesTyped, BatchesTyped', [Promise!Next]_(Promise!vars)
                PROVE  Ascending' /\ [NoneForgotten]_(Promise!vars) /\ [NoneMoved]_(Promise!vars)
    OBVIOUS
  <2>1. CASE Promise!Take
    <3>1. Ascending' /\ Unapplied \subseteq Unapplied' /\ UNCHANGED mainLog
      BY <2>1, AscendingTake
    <3>. QED
      BY <3>1
  <2>2. ASSUME NEW z \in Serials, Promise!Apply(z)
        PROVE  Ascending' /\ NoneForgotten /\ NoneMoved
    BY <2>2, AscendingApply
  <2>3. CASE UNCHANGED Promise!vars
    BY <2>3 DEF Promise!vars, Ascending, Promise!WaitingOf
  <2>. QED
    BY <2>1, <2>2, <2>3 DEF Promise!Next
<1>4. Ascending => InOrder
  BY DEF Ascending
<1>. QED
  BY <1>1, <1>2, <1>3, <1>4, PTL DEF DeliveryKept, Promise!Spec

-----------------------------------------------------------------------------
(* The outbox of a serial is a queue: first in, first out.                  *)

\* The rows that leave before r does.
Ahead(r) == {q \in outbox : q.serial = r.serial /\ q.id < r.id}

\* A step that puts nothing before a row, and takes it only when it is the first.
InTheirOrder ==
  \A r \in outbox : /\ Ahead(r)' \subseteq Ahead(r)
                    /\ r \notin outbox' => Ahead(r) = {}

\* The row of the outbox that a deletion takes: the oldest of its serial.
LEMMA DeletesOldest ==
  ASSUME IInv, NEW s \in Serials, HandleOk(s)
  PROVE  \E d \in outbox : d.serial = s /\ outbox' = outbox \ {d} /\ Oldest(d, outbox)
<1>1. PICK c \in calls : c.row.serial = s /\ outbox' = {r \in outbox : r.id # c.row.id}
  BY DEF HandleOk, Deleted, CallsOf
<1>2. c.row \in outbox /\ Oldest(c.row, outbox)
  BY <1>1 DEF IInv, OneCallForTheOldest
<1>3. \A r \in outbox : r.id = c.row.id => r = c.row
  BY <1>2 DEF IInv, Ledger
<1>4. outbox' = outbox \ {c.row}
  BY <1>1, <1>2, <1>3
<1>. QED
  BY <1>1, <1>2, <1>4

\* What a step does to the outbox: nothing, a row above all others, or the
\* oldest of a serial gone.
LEMMA OutboxStep ==
  ASSUME IInv, [Next]_vars
  PROVE  \/ outbox' = outbox
         \/ \E q \in Row : outbox' = outbox \cup {q} /\ \A r \in outbox : r.id < q.id
         \/ \E d \in outbox : outbox' = outbox \ {d} /\ Oldest(d, outbox)
<1>. USE DEF durable, flushing, sending, process, main
<1>1. CASE FlushPush
  <2>1. PICK q \in Row : outbox' = outbox \cup {q} /\ q.id = lastId + 1
    BY <1>1, PushFacts
  <2>2. lastId \in Nat /\ \A r \in outbox : r.id \in Nat /\ r.id <= lastId
    BY RowType DEF IInv, TypeOK, Ledger
  <2>3. \A r \in outbox : r.id < q.id
    BY <2>1, <2>2
  <2>. QED
    BY <2>1, <2>3
<1>2. ASSUME NEW s \in Serials, HandleOk(s)
      PROVE  \E d \in outbox : outbox' = outbox \ {d} /\ Oldest(d, outbox)
  BY <1>2, DeletesOldest
<1>3. CASE Start \/ Crash \/ FlushSwap \/ FlushDies \/ StartRound \/ LateArrives
           \/ UNCHANGED vars
  BY <1>3 DEF Start, Crash, FlushSwap, FlushDies, StartRound, LateArrives, vars
<1>4. ASSUME NEW s \in Serials,
             OnValue(s) \/ FlushSeq(s) \/ Enter(s) \/ HandleFailure(s)
             \/ DeleteRaises(s) \/ BackoffExpires(s) \/ Network(s)
      PROVE  outbox' = outbox
  BY <1>4 DEF OnValue, FlushSeq, Enter, HandleFailure, DeleteRaises,
     BackoffExpires, Network, MainAccepts, MainUnheard, MainRefuses,
     MalformedReply, CallLost
<1>. QED
  BY <1>1, <1>2, <1>3, <1>4 DEF Next, Flush, Sender

(***************************************************************************)
(* A row leaves the outbox when no older one of its serial is left, and    *)
(* none ever gets in before it: _drain_serial and outbox_oldest keep the   *)
(* order of the flushes through failures, rests, crashes and calls of      *)
(* other serials that run beside it (scheduler.py 205-207).                *)
(***************************************************************************)
THEOREM NeverOvertaken == Spec => [][InTheirOrder]_vars
<1>1. ASSUME IInv, [Next]_vars, NEW r \in outbox
      PROVE  Ahead(r)' \subseteq Ahead(r) /\ (r \notin outbox' => Ahead(r) = {})
  <2>1. \A q \in outbox : q.id \in Nat
    BY <1>1, RowType DEF IInv, TypeOK
  <2>2. CASE outbox' = outbox
    BY <2>2 DEF Ahead
  <2>3. ASSUME NEW q \in Row, outbox' = outbox \cup {q}, \A t \in outbox : t.id < q.id
        PROVE  Ahead(r)' \subseteq Ahead(r) /\ r \in outbox'
    <3>1. q.id \in Nat /\ r.id \in Nat /\ r.id < q.id
      BY <2>1, <2>3, RowType
    <3>2. ~(q.id < r.id)
      BY <3>1
    <3>. QED
      BY <2>3, <3>2 DEF Ahead
  <2>4. ASSUME NEW d \in outbox, outbox' = outbox \ {d}, Oldest(d, outbox)
        PROVE  Ahead(r)' \subseteq Ahead(r) /\ (r \notin outbox' => Ahead(r) = {})
    <3>1. Ahead(r)' \subseteq Ahead(r)
      BY <2>4 DEF Ahead
    <3>2. Ahead(d) = {}
      BY <2>1, <2>4 DEF Ahead, Oldest
    <3>. QED
      BY <2>4, <3>1, <3>2
  <2>5. (\E q \in Row : outbox' = outbox \cup {q} /\ \A t \in outbox : t.id < q.id)
          => Ahead(r)' \subseteq Ahead(r) /\ r \in outbox'
    BY <2>3
  <2>6. (\E d \in outbox : outbox' = outbox \ {d} /\ Oldest(d, outbox))
          => Ahead(r)' \subseteq Ahead(r) /\ (r \notin outbox' => Ahead(r) = {})
    BY <2>4
  <2>. QED
    BY <1>1, <2>2, <2>5, <2>6, OutboxStep
<1>2. IInv /\ [Next]_vars => [InTheirOrder]_vars
  BY <1>1 DEF InTheirOrder
<1>. QED
  BY <1>2, Inductive, PTL DEF Spec

(***************************************************************************)
(* So a serial that gets rows through gets every row through: while        *)
(* HandleOk comes again and again for a serial with rows, what is ahead of *)
(* a row becomes less, from every set, or the row is out.                  *)
(***************************************************************************)
THEOREM EveryRowAdvances ==
  ASSUME NEW s \in Serials, NEW r \in Row, r.serial = s, NEW A \in SUBSET Row
  PROVE  Spec /\ []([](\E q \in outbox : q.serial = s) => <><<HandleOk(s)>>_vars) =>
           [](r \in outbox /\ Ahead(r) = A =>
                <>(r \notin outbox \/ (Ahead(r) \subseteq A /\ Ahead(r) # A)))
<1>. DEFINE Waits == \E q \in outbox : q.serial = s
            There == r \in outbox /\ Ahead(r) = A
            Past == r \notin outbox \/ (Ahead(r) \subseteq A /\ Ahead(r) # A)
<1>1. There /\ [InTheirOrder]_vars => There' \/ Past'
  <2>1. There /\ InTheirOrder => There' \/ Past'
    BY DEF InTheirOrder
  <2>2. There /\ UNCHANGED vars => There'
    BY DEF vars, durable, Ahead
  <2>. QED
    BY <2>1, <2>2
<1>2. IInv /\ There /\ <<HandleOk(s)>>_vars => Past'
  <2>. SUFFICES ASSUME IInv, There, HandleOk(s) PROVE Past'
    OBVIOUS
  <2>1. PICK d \in outbox : d.serial = s /\ outbox' = outbox \ {d} /\ Oldest(d, outbox)
    BY DeletesOldest
  <2>2. Ahead(r)' = Ahead(r) \ {d}
    BY <2>1 DEF Ahead
  <2>3. d = r \/ d \in Ahead(r)
    <3>1. d.id \in Nat /\ r.id \in Nat /\ d.id <= r.id
      BY <2>1, RowType DEF IInv, TypeOK, Oldest
    <3>2. d.id = r.id => d = r
      BY <2>1 DEF IInv, Ledger
    <3>. QED
      BY <2>1, <3>1, <3>2 DEF Ahead
  <2>. QED
    BY <2>1, <2>2, <2>3
<1>3. There => Waits
  OBVIOUS
<1>. HIDE DEF There, Past, Waits
<1>4. Spec /\ []([]Waits => <><<HandleOk(s)>>_vars) => [](There => <>Past)
  BY <1>1, <1>2, <1>3, NeverOvertaken, Inductive, PTL
<1>. QED
  BY <1>4, PTL DEF There, Past, Waits
=============================================================================
