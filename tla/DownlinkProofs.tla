--------------------------- MODULE DownlinkProofs ---------------------------
(***************************************************************************)
(* What RequestGate and RawPublish promise holds in Downlink for every     *)
(* number of requests, copies, restarts and lost connections, and for all  *)
(* clocks and delays for which a signature outlives the copies of its      *)
(* request (TTLOutlivesCopies).                                            *)
(***************************************************************************)
EXTENDS Downlink, FiniteSetTheorems, TLAPS

(***************************************************************************)
(* The composition adds no behaviour to either of its parts.               *)
(***************************************************************************)
THEOREM PartsKeepTheirSpecs == DownlinkSpec => GateSpec /\ PublishSpec
<1>1. DownlinkInit => GateInit /\ PublishInit
  BY DEF DownlinkInit
<1>2. [DownlinkNext]_downlinkVars => [GateNext]_gateVars
  BY DEF DownlinkNext, downlinkVars, Serve, AtTheDoor, Handling, NewProcess, GateNext
<1>3. [DownlinkNext]_downlinkVars => [PublishNext]_publishVars
  <2>. SUFFICES ASSUME [DownlinkNext]_downlinkVars PROVE [PublishNext]_publishVars
    OBVIOUS
  <2>1. ASSUME NEW c \in Copies, Serve(c) PROVE [PublishNext]_publishVars
    BY <2>1 DEF Serve, PublishNext
  <2>2. CASE AtTheDoor
    BY <2>2 DEF AtTheDoor
  <2>3. CASE Handling
    BY <2>3 DEF Handling, PublishNext
  <2>4. CASE NewProcess
    BY <2>4 DEF NewProcess, PublishNext
  <2>5. CASE UNCHANGED downlinkVars
    BY <2>5 DEF downlinkVars
  <2>. QED
    BY <2>1, <2>2, <2>3, <2>4, <2>5 DEF DownlinkNext
<1>. QED
  BY <1>1, <1>2, <1>3, PTL DEF DownlinkSpec, GateSpec, PublishSpec

-----------------------------------------------------------------------------
(* The gate.                                                               *)

\* A request is signed before now.
Signed == \A r \in Requests : signed[r] <= clock

\* A copy whose body is awaited has passed the window, not long ago.
InTime ==
  \A c \in Copies : stage[c] = "body" =>
    /\ signed[RequestOf[c]] # Never
    /\ checked[c] <= signed[RequestOf[c]] + Skew + Drift
    /\ clock <= checked[c] + BodyTime

\* A signature is remembered for TTL after its request was signed, and longer.
Outlives ==
  \A e \in seen : signed[e.req] # Never /\ e.exp >= signed[e.req] + TTL

\* A request that has used up its one service is remembered, or so old that no
\* copy of it passes the window any more.
Spent ==
  \A r \in Requests :
    /\ served[r] <= 1 + dropped[r]
    /\ served[r] = 1 + dropped[r] =>
         /\ signed[r] # Never
         /\ (\E e \in seen : e.req = r) \/ clock >= signed[r] + TTL

GateInv == GateTypeOK /\ Signed /\ InTime /\ Outlives /\ Spent

\* Nothing has been signed yet.
LEMMA GateInitially == GateInit => GateInv
<1>. SUFFICES ASSUME GateInit PROVE GateInv
  OBVIOUS
<1>1. GateTypeOK
  BY GateAssumption, FS_EmptySet DEF GateInit, GateTypeOK, Stage, Never
<1>2. Signed /\ InTime /\ Outlives /\ Spent
  BY DEF GateInit, Signed, InTime, Outlives, Spent, Never
<1>. QED
  BY <1>1, <1>2 DEF GateInv

\* What is left to remember is finite and within the limit.
LEMMA UnexpiredType ==
  ASSUME GateTypeOK
  PROVE  /\ Unexpired \subseteq seen
         /\ IsFiniteSet(Unexpired) /\ Cardinality(Unexpired) \in Nat
         /\ Cardinality(Unexpired) <= SeenMax
BY GateAssumption, FS_Subset, FS_CardinalityType DEF GateTypeOK, Unexpired

\* There is always room for one more signature.
LEMMA RoomForOne ==
  ASSUME GateTypeOK, NEW kept \in Room, NEW e
  PROVE  /\ kept \subseteq Unexpired
         /\ IsFiniteSet(kept \cup {e}) /\ Cardinality(kept \cup {e}) <= SeenMax
<1>1. kept \subseteq Unexpired /\ IsFiniteSet(kept) /\ Cardinality(kept) < SeenMax
  <2>1. CASE Cardinality(Unexpired) < SeenMax
    BY <2>1, UnexpiredType DEF Room
  <2>2. CASE ~(Cardinality(Unexpired) < SeenMax)
    <3>1. PICK o \in Unexpired : kept = Unexpired \ {o}
      BY <2>2 DEF Room
    <3>2. IsFiniteSet(kept) /\ Cardinality(kept) = Cardinality(Unexpired) - 1
      BY <3>1, UnexpiredType, FS_RemoveElement
    <3>. QED
      BY <3>1, <3>2, UnexpiredType, GateAssumption
  <2>. QED
    BY <2>1, <2>2
<1>2. IsFiniteSet(kept \cup {e})
      /\ (Cardinality(kept \cup {e}) = Cardinality(kept)
          \/ Cardinality(kept \cup {e}) = Cardinality(kept) + 1)
  BY <1>1, FS_AddElement
<1>3. Cardinality(kept) \in Nat
  BY <1>1, FS_CardinalityType
<1>. QED
  BY <1>1, <1>2, <1>3, GateAssumption

\* What is counted is a natural number, and no less than before.
LEMMA DroppedGrows ==
  ASSUME GateTypeOK, NEW kept, CountDropped(kept)
  PROVE  /\ dropped' \in [Requests -> Nat]
         /\ \A r \in Requests : dropped'[r] >= dropped[r]
         /\ \A r \in Requests :
              (\E e \in Unexpired : e.req = r /\ e \notin kept) => dropped'[r] = dropped[r] + 1
BY DEF GateTypeOK, CountDropped

\* One step per action, and under it one per conjunct of the invariant.
LEMMA GateSteps == GateInv /\ [GateNext]_gateVars => GateInv'
<1>. SUFFICES ASSUME GateInv, [GateNext]_gateVars PROVE GateInv'
  OBVIOUS
<1>. USE GateAssumption DEF GateInv, Never
<1>0. Signed'
  BY DEF Signed, GateTypeOK, GateNext, gateVars, Sign, Arrive, Admit, Repeat, Tick, ForgetSeen
<1>1. ASSUME NEW r \in Requests, Sign(r) PROVE GateInv'
  <2>1. GateTypeOK'
    BY <1>1 DEF Sign, GateTypeOK
  <2>2. InTime'
    BY <1>1 DEF Sign, GateTypeOK, InTime
  <2>3. Outlives'
    BY <1>1 DEF Sign, GateTypeOK, Outlives, Signature
  <2>4. Spent'
    BY <1>1 DEF Sign, GateTypeOK, Spent
  <2>. QED
    BY <1>0, <2>1, <2>2, <2>3, <2>4
<1>2. ASSUME NEW c \in Copies, Arrive(c) PROVE GateInv'
  <2>1. GateTypeOK'
    BY <1>2 DEF Arrive, GateTypeOK, Stage
  <2>2. InTime'
    <3>1. PICK offset \in -Drift..Drift :
            \/ /\ Fresh(RequestOf[c], clock + offset)
               /\ stage' = [stage EXCEPT ![c] = "body"]
               /\ checked' = [checked EXCEPT ![c] = clock]
            \/ /\ stage' = [stage EXCEPT ![c] = "refused"]
               /\ UNCHANGED checked
      BY <1>2 DEF Arrive
    <3>2. ASSUME NEW d \in Copies, d # c, stage'[d] = "body"
          PROVE  stage[d] = "body" /\ checked'[d] = checked[d]
      BY <3>1, <3>2 DEF GateTypeOK
    <3>3. ASSUME stage'[c] = "body"
          PROVE  /\ signed[RequestOf[c]] # Never
                 /\ clock <= signed[RequestOf[c]] + Skew + Drift
                 /\ checked'[c] = clock
      BY <1>2, <3>1, <3>3 DEF Arrive, Fresh, GateTypeOK
    <3>. QED
      BY <1>2, <3>2, <3>3 DEF InTime, Arrive, GateTypeOK
  <2>3. Outlives' /\ Spent'
    BY <1>2 DEF Arrive, Outlives, Spent
  <2>. QED
    BY <1>0, <2>1, <2>2, <2>3
<1>3. ASSUME NEW c \in Copies, Admit(c) PROVE GateInv'
  <2>. DEFINE r == RequestOf[c]
              e == [req |-> r, exp |-> Expiry]
  <2>1. r \in Requests /\ e \in Signature
    BY DEF GateTypeOK, Signature, Expiry
  <2>2. PICK kept \in Room : seen' = kept \cup {e} /\ CountDropped(kept)
    BY <1>3 DEF Admit
  <2>3. kept \subseteq Unexpired /\ IsFiniteSet(seen') /\ Cardinality(seen') <= SeenMax
    BY <2>2, RoomForOne
  <2>4. GateTypeOK'
    <3>1. seen' \subseteq Signature
      BY <2>1, <2>2, <2>3 DEF GateTypeOK, Unexpired
    <3>2. served' \in [Requests -> Nat] /\ dropped' \in [Requests -> Nat]
      BY <1>3, <2>1, <2>2, DroppedGrows DEF Admit, GateTypeOK
    <3>. QED
      BY <1>3, <2>3, <3>1, <3>2 DEF Admit, GateTypeOK, Stage
  <2>5. InTime'
    BY <1>3 DEF Admit, InTime, GateTypeOK
  <2>6. signed[r] # Never /\ clock < signed[r] + TTL
    BY <1>3, <2>1, TTLOutlivesCopies DEF Admit, InTime, GateTypeOK
  <2>7. Outlives'
    <3>1. Expiry >= signed[r] + TTL
      BY <2>1 DEF Expiry, GateInv, GateTypeOK, InTime, Signed
    <3>. QED
      BY <1>3, <2>2, <2>3, <2>6, <3>1 DEF Admit, Outlives, Unexpired
  <2>8. Spent'
    <3>1. clock' = clock /\ signed' = signed
          /\ \A q \in Requests : served'[q] = IF q = r THEN served[q] + 1 ELSE served[q]
      BY <1>3 DEF Admit, GateTypeOK
    <3>2. ASSUME NEW q \in Requests
          PROVE  /\ served[q] \in Nat /\ dropped[q] \in Nat /\ dropped'[q] \in Nat
                 /\ signed[q] \in Int /\ clock \in Int /\ dropped'[q] >= dropped[q]
      BY <2>2, DroppedGrows DEF GateTypeOK
    <3>3. served[r] <= dropped[r]
      <4>1. ASSUME NEW o \in seen, o.req = r PROVE clock >= signed[r] + TTL
        BY <1>3, <3>2, <4>1 DEF Admit, Remembered, Unexpired, Outlives, GateTypeOK, Signature
      <4>. QED
        BY <2>1, <2>6, <3>2, <4>1 DEF Spent
    <3>4. e \in seen' /\ e.req = r
      BY <2>2
    <3>5. ASSUME NEW q \in Requests, q # r
          PROVE  /\ served'[q] <= 1 + dropped'[q]
                 /\ served'[q] = 1 + dropped'[q] =>
                      /\ signed'[q] # Never
                      /\ (\E o \in seen' : o.req = q) \/ clock' >= signed'[q] + TTL
      <4>1. CASE dropped'[q] # dropped[q]
        BY <3>1, <3>2, <3>5, <4>1 DEF Spent
      <4>2. CASE dropped'[q] = dropped[q]
        <5>1. ASSUME NEW o \in seen, o.req = q
              PROVE  o \in seen' \/ clock >= signed[q] + TTL
          <6>1. o \in Unexpired => o \in kept
            BY <2>2, <3>2, <4>2, <5>1, DroppedGrows
          <6>. QED
            BY <2>2, <3>2, <5>1, <6>1 DEF Unexpired, Outlives, GateTypeOK, Signature
        <5>. QED
          BY <3>1, <3>2, <3>5, <4>2, <5>1 DEF Spent
      <4>. QED
        BY <4>1, <4>2
    <3>. QED
      BY <2>1, <2>6, <3>1, <3>2, <3>3, <3>4, <3>5 DEF Spent
  <2>. QED
    BY <1>0, <2>4, <2>5, <2>7, <2>8
<1>4. ASSUME NEW c \in Copies, Repeat(c) PROVE GateInv'
  <2>1. GateTypeOK'
    BY <1>4, UnexpiredType DEF Repeat, GateTypeOK, Stage
  <2>2. InTime'
    BY <1>4 DEF Repeat, InTime, GateTypeOK
  <2>3. Outlives'
    BY <1>4 DEF Repeat, Outlives, Unexpired
  <2>4. Spent'
    BY <1>4 DEF Repeat, Spent, Outlives, Unexpired, GateTypeOK, Signature
  <2>. QED
    BY <1>0, <2>1, <2>2, <2>3, <2>4
<1>5. CASE Tick
  <2>1. GateTypeOK'
    BY <1>5 DEF Tick, GateTypeOK
  <2>2. InTime'
    BY <1>5 DEF Tick, InTime, GateTypeOK
  <2>3. Outlives' /\ Spent'
    BY <1>5 DEF Tick, Outlives, Spent, GateTypeOK
  <2>. QED
    BY <1>0, <2>1, <2>2, <2>3
<1>6. CASE ForgetSeen
  <2>1. CountDropped({})
    BY <1>6 DEF ForgetSeen
  <2>2. GateTypeOK'
    BY <1>6, <2>1, DroppedGrows, FS_EmptySet DEF ForgetSeen, GateTypeOK, Stage
  <2>3. InTime' /\ Outlives'
    BY <1>6 DEF ForgetSeen, InTime, Outlives, GateTypeOK
  <2>4. Spent'
    <3>. SUFFICES ASSUME NEW q \in Requests
                  PROVE  /\ served'[q] <= 1 + dropped'[q]
                         /\ served'[q] = 1 + dropped'[q] =>
                              signed'[q] # Never /\ clock' >= signed'[q] + TTL
      BY DEF Spent
    <3>1. served'[q] = served[q] /\ signed'[q] = signed[q] /\ clock' = clock
      BY <1>6 DEF ForgetSeen
    <3>2. served[q] \in Nat /\ dropped[q] \in Nat /\ dropped'[q] \in Nat
          /\ signed[q] \in Int /\ clock \in Int /\ dropped'[q] >= dropped[q]
      BY <2>1, DroppedGrows DEF GateTypeOK
    <3>3. CASE dropped'[q] = dropped[q]
      <4>1. ASSUME NEW e \in seen, e.req = q PROVE clock >= signed[q] + TTL
        <5>1. e \notin Unexpired
          BY <2>1, <3>2, <3>3, <4>1, DroppedGrows
        <5>. QED
          BY <3>2, <4>1, <5>1 DEF Unexpired, Outlives, GateTypeOK, Signature
      <4>. QED
        BY <3>1, <3>2, <3>3, <4>1 DEF Spent
    <3>4. CASE dropped'[q] # dropped[q]
      BY <3>1, <3>2, <3>4 DEF Spent
    <3>. QED
      BY <3>3, <3>4
  <2>. QED
    BY <1>0, <2>2, <2>3, <2>4
<1>7. CASE UNCHANGED gateVars
  BY <1>0, <1>7 DEF gateVars, GateTypeOK, InTime, Outlives, Spent, Unexpired
<1>. QED
  BY <1>1, <1>2, <1>3, <1>4, <1>5, <1>6, <1>7 DEF GateNext

\* The same for the steps of the composition.
LEMMA GateInvariant == DownlinkSpec => []GateInv
<1>1. GateInit => GateInv
  BY GateInitially
<1>2. GateInv /\ [GateNext]_gateVars => GateInv'
  BY GateSteps
<1>. QED
  BY <1>1, <1>2, PartsKeepTheirSpecs, PTL DEF GateSpec

(***************************************************************************)
(* _remember_sig under any number of copies, arrival orders and slow       *)
(* bodies: a request is let in once, and once more for every time its      *)
(* signature was lost before it expired.                                   *)
(***************************************************************************)
THEOREM ServedAtMostOnce == DownlinkSpec => []ServedOnce
<1>1. GateInv => ServedOnce
  BY DEF GateInv, Spent, ServedOnce
<1>. QED
  BY <1>1, GateInvariant, PTL

(***************************************************************************)
(* _downlink_auth_error looks at the time stamp before the body is read:   *)
(* still nothing is let in that was signed longer ago than the window, the *)
(* error of the clock and the time of a body allow, restarts or not.       *)
(***************************************************************************)
THEOREM OldIsRefused == DownlinkSpec => OldNeverServed
<1>1. GateInv /\ [GateNext]_gateVars =>
        \A c \in Copies : stage[c] # "served" /\ stage'[c] = "served"
          => clock - signed[RequestOf[c]] <= Skew + Drift + BodyTime
  <2>. SUFFICES ASSUME GateInv, [GateNext]_gateVars, NEW c \in Copies,
                       stage[c] # "served", stage'[c] = "served"
                PROVE  clock - signed[RequestOf[c]] <= Skew + Drift + BodyTime
    OBVIOUS
  <2>0. GateTypeOK /\ InTime
    BY DEF GateInv
  <2>1. stage[c] = "body"
    <3>1. ASSUME NEW r \in Requests, Sign(r) PROVE FALSE
      BY <3>1 DEF Sign
    <3>2. ASSUME NEW k \in Copies, Arrive(k) PROVE FALSE
      BY <2>0, <3>2 DEF Arrive, GateTypeOK
    <3>3. ASSUME NEW k \in Copies, Admit(k) PROVE stage[c] = "body"
      BY <2>0, <3>3 DEF Admit, GateTypeOK
    <3>4. ASSUME NEW k \in Copies, Repeat(k) PROVE FALSE
      BY <2>0, <3>4 DEF Repeat, GateTypeOK
    <3>5. CASE Tick \/ UNCHANGED gateVars
      BY <3>5 DEF Tick, gateVars
    <3>6. CASE ForgetSeen
      BY <3>6 DEF ForgetSeen
    <3>. QED
      BY <3>1, <3>2, <3>3, <3>4, <3>5, <3>6 DEF GateNext
  <2>2. /\ checked[c] <= signed[RequestOf[c]] + Skew + Drift
        /\ clock <= checked[c] + BodyTime
    BY <2>0, <2>1 DEF InTime
  <2>3. /\ clock \in Int /\ checked[c] \in Int /\ signed[RequestOf[c]] \in Int
        /\ Skew \in Int /\ Drift \in Int /\ BodyTime \in Int
    BY <2>0, GateAssumption DEF GateTypeOK, Never
  <2>. QED
    BY <2>2, <2>3
<1>2. DownlinkSpec => [][GateNext]_gateVars
  BY PartsKeepTheirSpecs, PTL DEF GateSpec
<1>. QED
  BY <1>1, <1>2, GateInvariant, PTL DEF OldNeverServed

-----------------------------------------------------------------------------
(* publish_raw and paho.                                                   *)

\* A message nobody has handed to paho yet.
NotYetCalled ==
  \A c \in Calls : call[c] = "idle" => out[c] = "none" /\ ~dup[c] /\ c \notin atBroker

\* paho awaits the PUBACK of what is on its way; a closed socket carries nothing.
OnTheWay ==
  /\ \A c \in wire \cup pubacks : out[c] = "wait"
  /\ wire \cap pubacks = {}
  /\ link = "down" => wire = {} /\ pubacks = {}

\* What paho has not sent, and has not marked dup, the broker cannot have.
UnsentIsUnknown == \A c \in Calls : NeverSentYet(c) => c \notin atBroker

\* A PUBACK, seen or under way, is for a message the broker has.
AckedIsTaken == \A c \in Calls : c \in pubacks \/ published[c] => c \in atBroker

\* Only a call that has ended was told anything.
AnsweredIsDone == \A c \in Calls : answer[c] # "none" => call[c] = "done"

PublishInv ==
  /\ PublishTypeOK /\ NotYetCalled /\ OnTheWay /\ UnsentIsUnknown
  /\ AckedIsTaken /\ AnsweredIsDone /\ DownNeverSent /\ OkIsAtBroker

\* Nothing has been called yet.
LEMMA PublishInitially == PublishInit => PublishInv
BY PublishAssumption
DEF PublishInit, PublishInv, PublishTypeOK, NotYetCalled, OnTheWay, UnsentIsUnknown,
    NeverSentYet, AckedIsTaken, AnsweredIsDone, DownNeverSent, OkIsAtBroker

\* Every step of a coroutine, of paho's thread and of the broker keeps it.
LEMMA PublishSteps == PublishInv /\ [PublishNext]_publishVars => PublishInv'
<1>. SUFFICES ASSUME PublishInv, [PublishNext]_publishVars PROVE PublishInv'
  OBVIOUS
<1>. USE DEF PublishInv, PublishTypeOK, NotYetCalled, OnTheWay, UnsentIsUnknown,
             NeverSentYet, AckedIsTaken, AnsweredIsDone, DownNeverSent, OkIsAtBroker
<1>1. ASSUME NEW c \in Calls, Call(c) PROVE PublishInv'
  <2>1. PublishTypeOK'
    BY <1>1 DEF Call, Tell
  <2>2. NotYetCalled' /\ OnTheWay' /\ UnsentIsUnknown' /\ AckedIsTaken'
    BY <1>1 DEF Call, Tell
  <2>3. AnsweredIsDone' /\ DownNeverSent' /\ OkIsAtBroker'
    BY <1>1 DEF Call, Tell
  <2>. QED
    BY <2>1, <2>2, <2>3
<1>2. ASSUME NEW c \in Calls, TakeBack(c) PROVE PublishInv'
  <2>1. PublishTypeOK' /\ NotYetCalled' /\ OnTheWay'
    BY <1>2 DEF TakeBack, Tell
  <2>2. UnsentIsUnknown' /\ AckedIsTaken'
    BY <1>2 DEF TakeBack, Tell
  <2>3. AnsweredIsDone' /\ DownNeverSent' /\ OkIsAtBroker'
    BY <1>2 DEF TakeBack, Tell
  <2>. QED
    BY <2>1, <2>2, <2>3
<1>3. ASSUME NEW c \in Calls, Waited(c) PROVE PublishInv'
  <2>1. PublishTypeOK' /\ NotYetCalled' /\ OnTheWay'
    BY <1>3 DEF Waited, Tell, IsPublished, paho
  <2>2. UnsentIsUnknown' /\ AckedIsTaken'
    BY <1>3 DEF Waited, Tell, IsPublished, paho
  <2>3. AnsweredIsDone' /\ DownNeverSent' /\ OkIsAtBroker'
    BY <1>3 DEF Waited, Tell, IsPublished, paho
  <2>. QED
    BY <2>1, <2>2, <2>3
<1>4. CASE Notice
  BY <1>4 DEF Notice, paho
<1>5. CASE LoseLink
  BY <1>5, PublishAssumption DEF LoseLink
<1>6. CASE Reconnect
  BY <1>6 DEF Reconnect
<1>7. CASE SendHeld
  BY <1>7 DEF SendHeld
<1>8. CASE BrokerTakes
  BY <1>8 DEF BrokerTakes
<1>9. CASE Puback
  <2>1. PICK c \in pubacks :
          /\ pubacks' = pubacks \ {c}
          /\ published' = [published EXCEPT ![c] = TRUE]
          /\ out' = [out EXCEPT ![c] = "none"]
          /\ dup' = [dup EXCEPT ![c] = FALSE]
    BY <1>9 DEF Puback
  <2>2. UNCHANGED <<call, answer, connected, notices, link, wire, atBroker, losses>>
    BY <1>9 DEF Puback
  <2>3. c \in Calls /\ c \notin wire /\ c \in atBroker /\ out[c] = "wait"
    OBVIOUS
  <2>4. PublishTypeOK'
    BY <2>1, <2>2, <2>3
  <2>5. NotYetCalled' /\ OnTheWay' /\ UnsentIsUnknown'
    BY <2>1, <2>2, <2>3
  <2>6. AckedIsTaken' /\ AnsweredIsDone' /\ DownNeverSent' /\ OkIsAtBroker'
    BY <2>1, <2>2, <2>3
  <2>. QED
    BY <2>4, <2>5, <2>6
<1>10. CASE NewPublisher
  <2>1. notices' \in Seq(BOOLEAN)
    BY <1>10 DEF NewPublisher
  <2>2. call' \in [Calls -> {"idle", "held", "waiting", "done"}]
        /\ \A c \in Calls : /\ call'[c] = "idle" => call[c] = "idle"
                            /\ call[c] = "done" => call'[c] = "done"
    BY <1>10 DEF NewPublisher
  <2>3. UNCHANGED <<answer, published, atBroker, losses>> /\ wire' = {} /\ pubacks' = {}
        /\ link' = "down" /\ connected' \in BOOLEAN
        /\ out' = [c \in Calls |-> "none"] /\ dup' = [c \in Calls |-> FALSE]
    BY <1>10 DEF NewPublisher
  <2>4. PublishTypeOK'
    BY <2>1, <2>2, <2>3
  <2>5. NotYetCalled' /\ OnTheWay' /\ UnsentIsUnknown'
    BY <2>2, <2>3
  <2>6. AckedIsTaken' /\ AnsweredIsDone' /\ DownNeverSent' /\ OkIsAtBroker'
    BY <2>2, <2>3
  <2>. QED
    BY <2>4, <2>5, <2>6
<1>11. CASE UNCHANGED publishVars
  BY <1>11 DEF publishVars, paho
<1>. QED
  BY <1>1, <1>2, <1>3, <1>4, <1>5, <1>6, <1>7, <1>8, <1>9, <1>10, <1>11
  DEF PublishNext, PublishStep

\* The same for the steps of the composition.
LEMMA PublishInvariant == DownlinkSpec => []PublishInv
<1>1. PublishInit => PublishInv
  BY PublishInitially
<1>2. PublishInv /\ [PublishNext]_publishVars => PublishInv'
  BY PublishSteps
<1>. QED
  BY <1>1, <1>2, PartsKeepTheirSpecs, PTL DEF PublishSpec

(***************************************************************************)
(* The gate keeps no more signatures than it may, and both parts keep      *)
(* their types.                                                            *)
(***************************************************************************)
THEOREM DownlinkTyped == DownlinkSpec => []TypeOK
<1>1. GateInv /\ PublishInv => TypeOK
  BY DEF GateInv, PublishInv, TypeOK
<1>. QED
  BY <1>1, GateInvariant, PublishInvariant, PTL

(***************************************************************************)
(* "broker_down" of publish_raw is said of a message only if the broker    *)
(* does not have it and will never get it: a retry sends it once.          *)
(***************************************************************************)
THEOREM BrokerDownIsSure == DownlinkSpec => []DownNeverSent
BY PublishInvariant, PTL DEF PublishInv

(***************************************************************************)
(* "ok" of publish_raw is said only of a message the broker has.           *)
(***************************************************************************)
THEOREM OkIsSure == DownlinkSpec => []OkIsAtBroker
BY PublishInvariant, PTL DEF PublishInv

-----------------------------------------------------------------------------
(* The refinement.                                                         *)

\* The end of a call is Tell of the promise.
LEMMA TellStep ==
  ASSUME PublishInv, PublishInv', NEW c \in Calls, answer[c] = "none",
         UNCHANGED atBroker, answer' = [answer EXCEPT ![c] = answer'[c]]
  PROVE  [Promise!Next]_(Promise!vars)
<1>. DEFINE told == [k \in Calls |-> Told(k)]
            done == [k \in Calls |-> IF k \in atBroker THEN {"ok"} ELSE {}]
<1>1. \A k \in Calls : k # c => Told(k)' = Told(k)
  BY DEF Told, PublishInv, PublishTypeOK
<1>2. told' = [told EXCEPT ![c] = Told(c)'] /\ told[c] = "nothing" /\ done' = done
  BY <1>1 DEF Told
<1>3. CASE answer'[c] = "none"
  <2>1. Told(c)' = "nothing"
    BY <1>3 DEF Told
  <2>. QED
    BY <1>2, <2>1 DEF Promise!vars
<1>4. CASE answer'[c] # "none"
  <2>1. answer'[c] \in {"down", "unknown", "ok"}
    BY <1>4 DEF PublishInv, PublishTypeOK
  <2>2. Told(c)' \in done[c] \cup {"never", "unknown"}
    BY <2>1 DEF Told, PublishInv, OkIsAtBroker
  <2>3. Told(c)' = "never" => done[c] = {}
    BY <2>1 DEF Told, PublishInv, DownNeverSent
  <2>4. Promise!Tell(c)
    BY <1>2, <2>2, <2>3 DEF Promise!Tell
  <2>. QED
    BY <2>4 DEF Promise!Next
<1>. QED
  BY <1>3, <1>4

(***************************************************************************)
(* publish_raw, with paho's thread, the broker and restarts, is nothing    *)
(* more than the promise to its callers, and so is all of /api/publish.    *)
(***************************************************************************)
THEOREM PublishKeepsPromise == DownlinkSpec => PublishPromiseKept
<1>1. PublishInit => Promise!Init
  BY DEF PublishInit, Promise!Init, Told
<1>2. PublishInv /\ PublishInv' /\ [PublishNext]_publishVars => [Promise!Next]_(Promise!vars)
  <2>. SUFFICES ASSUME PublishInv, PublishInv', [PublishNext]_publishVars
                PROVE  [Promise!Next]_(Promise!vars)
    OBVIOUS
  <2>1. ASSUME NEW c \in Calls, Call(c) \/ TakeBack(c) \/ Waited(c)
        PROVE  [Promise!Next]_(Promise!vars)
    <3>1. answer[c] = "none"
      BY <2>1 DEF Call, TakeBack, Waited, PublishInv, AnsweredIsDone
    <3>2. UNCHANGED atBroker
      BY <2>1 DEF Call, TakeBack, Waited
    <3>3. answer' = [answer EXCEPT ![c] = answer'[c]]
      BY <2>1 DEF Call, TakeBack, Waited, Tell, PublishInv, PublishTypeOK
    <3>. QED
      BY <3>1, <3>2, <3>3, TellStep
  <2>2. CASE BrokerTakes
    <3>1. PICK c \in wire : atBroker' = atBroker \cup {c}
      BY <2>2 DEF BrokerTakes
    <3>2. c \in Calls /\ Told(c) # "never"
      BY <3>1 DEF Told, PublishInv, PublishTypeOK, DownNeverSent
    <3>3. UNCHANGED [k \in Calls |-> Told(k)]
      BY <2>2 DEF BrokerTakes, Told
    <3>. DEFINE done == [k \in Calls |-> IF k \in atBroker THEN {"ok"} ELSE {}]
    <3>4. done' = [done EXCEPT ![c] = done[c] \cup {"ok"}]
      BY <3>1, <3>2
    <3>5. Promise!CarryOut(c)
      BY <3>2, <3>3, <3>4 DEF Promise!CarryOut
    <3>. QED
      BY <3>2, <3>5 DEF Promise!Next
  <2>3. CASE UNCHANGED <<answer, atBroker>>
    BY <2>3 DEF Promise!vars, Told
  <2>. QED
    BY <2>1, <2>2, <2>3
       DEF PublishNext, PublishStep, publishVars, paho, Notice, LoseLink, Reconnect, SendHeld,
           Puback, NewPublisher
<1>. QED
  BY <1>1, <1>2, PublishInvariant, PartsKeepTheirSpecs, PTL
     DEF PublishSpec, Promise!Spec, PublishPromiseKept
=============================================================================
