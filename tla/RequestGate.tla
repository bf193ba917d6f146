---------------------------- MODULE RequestGate ----------------------------
(***************************************************************************)
(* The door of the downlink API: _downlink_auth_error and _remember_sig    *)
(* (inbound_api.py).  Main signs a request with the time on its own clock; *)
(* the network may bring any number of copies of it, at any time and in    *)
(* any order.  A copy is served if its time stamp is close to the edge's   *)
(* corrected clock and its signature is not remembered.                    *)
(*                                                                         *)
(* Time is counted in units of Main's clock, which time.monotonic() keeps  *)
(* up with; the edge's time.time() plus clock_offset_s is off by any       *)
(* amount up to Drift when a copy arrives, since it is compared with       *)
(* Main's Date header only when the configuration is pulled and may be set *)
(* at any time in between.  The body of a request is awaited between the   *)
(* look at the clock and the look at the signatures.                       *)
(***************************************************************************)
EXTENDS Integers, FiniteSets

CONSTANTS
  Requests,     \* what Main signs: one nonce, one signature each
  Copies,       \* the arrivals of requests at the edge
  RequestOf,    \* RequestOf[c]: the request that c is a copy of
  Skew,         \* _SIG_MAX_SKEW_S
  TTL,          \* _SEEN_SIG_TTL_S
  SeenMax,      \* _SEEN_SIG_MAX
  Drift,        \* how far the edge's corrected clock is from Main's at most
  BodyTime,     \* how long the body of a request is awaited at most
  Horizon,      \* bound: time
  MaxRestarts   \* bound: restarts of the edge

ASSUME GateAssumption ==
  /\ RequestOf \in [Copies -> Requests]
  /\ Skew \in Nat /\ TTL \in Nat /\ SeenMax \in Nat \ {0}
  /\ Drift \in Nat /\ BodyTime \in Nat
  /\ Horizon \in Nat /\ MaxRestarts \in Nat

\* What _SEEN_SIG_TTL_S has to be "four windows" long for.
ASSUME TTLOutlivesCopies == TTL > Skew + Drift + BodyTime

Never == -1

VARIABLES
  clock,      \* Main's clock and the edge's time.monotonic()
  signed,     \* signed[r]: the time stamp of r, Never before it is sent
  stage,      \* stage[c]: how far the edge has come with c
  checked,    \* checked[c]: when the time stamp of a copy whose body is awaited was looked at
  seen,       \* _seen_sigs: signatures with the time they expire
  served,     \* served[r]: how often r was let in
  dropped,    \* dropped[r]: how often its signature was lost before it expired
  restarts

gateVars == <<clock, signed, stage, checked, seen, served, dropped, restarts>>

Stage == {"away", "body", "refused", "served", "cut"}
Signature == [req : Requests, exp : Int]

GateTypeOK ==
  /\ clock \in 0..Horizon
  /\ signed \in [Requests -> 0..Horizon \cup {Never}]
  /\ stage \in [Copies -> Stage]
  /\ checked \in [Copies -> 0..Horizon]
  /\ seen \subseteq Signature /\ IsFiniteSet(seen) /\ Cardinality(seen) <= SeenMax
  /\ served \in [Requests -> Nat]
  /\ dropped \in [Requests -> Nat]
  /\ restarts \in 0..MaxRestarts

GateInit ==
  /\ clock = 0
  /\ signed = [r \in Requests |-> Never]
  /\ stage = [c \in Copies |-> "away"]
  /\ checked = [c \in Copies |-> 0]
  /\ seen = {}
  /\ served = [r \in Requests |-> 0]
  /\ dropped = [r \in Requests |-> 0]
  /\ restarts = 0

\* Main signs a request and sends it.
Sign(r) ==
  /\ signed[r] = Never
  /\ signed' = [signed EXCEPT ![r] = clock]
  /\ UNCHANGED <<clock, stage, checked, seen, served, dropped, restarts>>

\* Mutant: a time stamp that is too old passes.
NotTooYoung(r, now) == now - signed[r] >= -Skew

\* abs(now - ts_int) <= _SIG_MAX_SKEW_S
Fresh(r, now) == now - signed[r] \in -Skew..Skew

\* A copy arrives: code, key and time stamp are looked at.
Arrive(c) ==
  /\ stage[c] = "away"
  /\ signed[RequestOf[c]] # Never
  /\ \E offset \in -Drift..Drift :
       \/ /\ Fresh(RequestOf[c], clock + offset)
          /\ stage' = [stage EXCEPT ![c] = "body"]
          /\ checked' = [checked EXCEPT ![c] = clock]
       \/ /\ ~Fresh(RequestOf[c], clock + offset)
          /\ stage' = [stage EXCEPT ![c] = "refused"]
          /\ UNCHANGED checked
  /\ UNCHANGED <<clock, signed, seen, served, dropped, restarts>>

\* The signatures that have not expired.
Unexpired == {e \in seen : e.exp > clock}

Remembered(r) == \E e \in Unexpired : e.req = r

\* Mutant: nothing has to go.
NoLimit == {Unexpired}

\* What _remember_sig may keep beside a new signature: all that is
\* unexpired, or all but the one that is oldest if the cache is full.
Room ==
  IF Cardinality(Unexpired) < SeenMax THEN {Unexpired}
  ELSE {Unexpired \ {e} : e \in {o \in Unexpired : \A p \in Unexpired : o.exp <= p.exp}}

\* Mutant: a signature is remembered for one window.
OneWindow == clock + Skew

\* When a signature that is remembered now expires.
Expiry == clock + TTL

\* Counts the loss of unexpired signatures for the requests they belong to.
CountDropped(kept) ==
  dropped' = [r \in Requests |->
                IF \E e \in Unexpired : e.req = r /\ e \notin kept
                THEN dropped[r] + 1 ELSE dropped[r]]

\* The body is there, the signature is right and not remembered: it is
\* remembered from here, and the request goes on to its handler.
Admit(c) ==
  /\ stage[c] = "body"
  /\ ~Remembered(RequestOf[c])
  /\ stage' = [stage EXCEPT ![c] = "served"]
  /\ checked' = [checked EXCEPT ![c] = 0]
  /\ served' = [served EXCEPT ![RequestOf[c]] = @ + 1]
  /\ \E kept \in Room :
       /\ seen' = kept \cup {[req |-> RequestOf[c], exp |-> Expiry]}
       /\ CountDropped(kept)
  /\ UNCHANGED <<clock, signed, restarts>>

\* The signature is remembered: "replay".
Repeat(c) ==
  /\ stage[c] = "body"
  /\ Remembered(RequestOf[c])
  /\ stage' = [stage EXCEPT ![c] = "refused"]
  /\ checked' = [checked EXCEPT ![c] = 0]
  /\ seen' = Unexpired
  /\ UNCHANGED <<clock, signed, served, dropped, restarts>>

Tick ==
  /\ clock < Horizon
  /\ \A c \in Copies : stage[c] = "body" => clock < checked[c] + BodyTime
  /\ clock' = clock + 1
  /\ UNCHANGED <<signed, stage, checked, seen, served, dropped, restarts>>

\* The process ends: the cache is in RAM, open connections are cut.
ForgetSeen ==
  /\ restarts < MaxRestarts
  /\ restarts' = restarts + 1
  /\ stage' = [c \in Copies |-> IF stage[c] = "body" THEN "cut" ELSE stage[c]]
  /\ checked' = [c \in Copies |-> 0]
  /\ seen' = {}
  /\ CountDropped({})
  /\ UNCHANGED <<clock, signed, served>>

GateNext ==
  \/ \E r \in Requests : Sign(r)
  \/ \E c \in Copies : Arrive(c) \/ Admit(c) \/ Repeat(c)
  \/ Tick
  \/ ForgetSeen

GateSpec == GateInit /\ [][GateNext]_gateVars

-----------------------------------------------------------------------------
(* However copies, clocks and a slow body mix, a request is let in once,   *)
(* and again only as often as its signature was lost from RAM before it    *)
(* expired: the window of the time stamp closes before the signature goes. *)
ServedOnce == \A r \in Requests : served[r] <= 1 + dropped[r]

(* A restart forgets which requests were served, so the window of the time *)
(* stamp is all that is left: what Main sent longer ago than that, as far  *)
(* as the edge's clock may be off, is never let in any more.               *)
OldNeverServed ==
  [][\A c \in Copies : stage[c] # "served" /\ stage'[c] = "served"
       => clock - signed[RequestOf[c]] <= Skew + Drift + BodyTime]_gateVars
=============================================================================
