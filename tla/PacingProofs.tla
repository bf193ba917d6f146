---------------------------- MODULE PacingProofs ----------------------------
(***************************************************************************)
(* What Dedup and Backoff promise holds in Pacing for every value of their *)
(* constants: no bound on the failures in a row, on the time that passes   *)
(* or on what Main asks for matters.                                       *)
(***************************************************************************)
EXTENDS Pacing, WellFoundedInduction, TLAPS

(***************************************************************************)
(* The composition adds no behaviour: each component of it runs by its own *)
(* specification, the other only stutters or restarts with it.             *)
(***************************************************************************)
THEOREM EachKeepsItsSpec == PacingSpec => Spec /\ BackoffSpec
<1>1. PacingInit => Init /\ BackoffInit
  BY DEF PacingInit
<1>2. [PacingNext]_pacingVars => [Next]_vars
  BY DEF PacingNext, pacingVars, CollectOnly, CallOnly, Rested, NewProcess, Next
<1>3. [PacingNext]_pacingVars => [BackoffNext]_backoffVars
  BY DEF PacingNext, pacingVars, CollectOnly, CallOnly, Rested, NewProcess, BackoffNext
<1>. QED
  BY <1>1, <1>2, <1>3, PTL DEF PacingSpec, Spec, BackoffSpec

-----------------------------------------------------------------------------
(* Dedup.                                                                  *)

\* A heartbeat is a number of ticks, whatever Main configures.
LEMMA HeartbeatType ==
  ASSUME NEW m, m \in [every : BOOLEAN, maxAge : Nat \cup {None}]
  PROVE  Heartbeat(m) \in Nat
BY DedupAssumption DEF Heartbeat, DEFAULT_HEARTBEAT_S

MetaType == meta \in [every : BOOLEAN, maxAge : Nat \cup {None}]

\* The last reading that was sent is younger than the channel's silence.
SilenceIsCounted == last # None => silence <= age

\* What the invariants of change detection need of each other.
DedupInv == MetaType /\ TypeOK /\ SilenceIsCounted

\* The counters stay within Horizon and keep their order.
LEMMA OlderType ==
  ASSUME NEW n \in 0..Horizon
  PROVE  Older(n) \in 0..Horizon
BY DedupAssumption DEF Older

\* A channel starts unconfigured and without a cached reading.
LEMMA DedupInitially == Init => DedupInv
<1>. SUFFICES ASSUME Init PROVE DedupInv
  OBVIOUS
<1>1. MetaType
  BY DEF Init, Unconfigured, MetaType
<1>2. TypeOK
  <2>1. Heartbeat(meta) \in Nat
    BY <1>1, HeartbeatType DEF MetaType
  <2>. QED
    BY <2>1, DedupAssumption DEF Init, Unconfigured, TypeOK
<1>. QED
  BY <1>1, <1>2 DEF DedupInv, SilenceIsCounted, Init

\* One step per action of Dedup.
LEMMA DedupSteps == DedupInv /\ [Next]_vars => DedupInv'
<1>. SUFFICES ASSUME DedupInv, [Next]_vars PROVE DedupInv'
  OBVIOUS
<1>. USE DEF DedupInv
<1>1. MetaType'
  <2>1. CASE UNCHANGED meta
    BY <2>1 DEF MetaType
  <2>2. ASSUME NEW m \in Settings, Apply(m) PROVE MetaType'
    BY <2>2, DedupAssumption DEF MetaType, Apply
  <2>3. CASE Restart
    BY <2>3 DEF MetaType, Restart, Unconfigured
  <2>. QED
    BY <2>1, <2>2, <2>3 DEF Next, Collect, Reading, Flush, Tick, vars
<1>2. Heartbeat(meta)' \in Nat
  BY <1>1, HeartbeatType DEF MetaType
<1>3. ASSUME NEW r \in Readings, Reading(r) PROVE DedupInv'
  <2>1. TypeOK'
    BY <1>2, <1>3, DedupAssumption DEF TypeOK, Reading, SkippedAge
  <2>2. SilenceIsCounted'
    BY <1>3, DedupAssumption DEF SilenceIsCounted, TypeOK, Reading, SkippedAge
  <2>. QED
    BY <1>1, <2>1, <2>2
<1>4. CASE Flush
  BY <1>1, <1>2, <1>4 DEF Flush, TypeOK, SilenceIsCounted
<1>5. ASSUME NEW m \in Settings, Apply(m) PROVE DedupInv'
  BY <1>1, <1>2, <1>5 DEF Apply, TypeOK, SilenceIsCounted, MetaType
<1>6. CASE Restart
  BY <1>1, <1>2, <1>6, DedupAssumption
  DEF Restart, Forgotten, TypeOK, SilenceIsCounted, MetaType
<1>7. CASE Tick
  <2>1. age' \in 0..Horizon /\ silence' \in 0..Horizon
    BY <1>7, OlderType DEF Tick, TypeOK
  <2>2. SilenceIsCounted'
    BY <1>7, DedupAssumption DEF Tick, Older, SilenceIsCounted, TypeOK
  <2>. QED
    BY <1>1, <1>2, <1>7, <2>1, <2>2 DEF Tick, TypeOK
<1>8. CASE UNCHANGED vars
  BY <1>1, <1>2, <1>8 DEF vars, TypeOK, SilenceIsCounted
<1>. QED
  BY <1>3, <1>4, <1>5, <1>6, <1>7, <1>8 DEF Next, Collect

\* The type invariant of change detection.
THEOREM DedupTyped == PacingSpec => []TypeOK
<1>1. DedupInv => TypeOK
  BY DEF DedupInv
<1>. QED
  BY <1>1, EachKeepsItsSpec, DedupInitially, DedupSteps, PTL DEF Spec

(***************************************************************************)
(* A channel is never silent for longer than its heartbeat while readings  *)
(* come in, whatever settings Main edits in between and however long time  *)
(* is counted: a repeat is left out only while the last reading that was   *)
(* sent is younger than the heartbeat, and it is as old as the silence.    *)
(***************************************************************************)
THEOREM HeartbeatAlwaysKept == PacingSpec => HeartbeatKept
<1>1. ASSUME DedupInv, [Next]_vars
      PROVE  [\A r \in Readings :
                Reading(r) /\ silence >= Heartbeat(meta) => silence' = 0]_vars
  <2>. SUFFICES ASSUME NEW r \in Readings, Reading(r), silence >= Heartbeat(meta)
                PROVE  silence' = 0
    OBVIOUS
  <2>1. ~Skip(r)
    BY <1>1 DEF DedupInv, Skip, Same, SilenceIsCounted, TypeOK
  <2>. QED
    BY <2>1 DEF Reading
<1>. QED
  BY <1>1, EachKeepsItsSpec, DedupInitially, DedupSteps, PTL DEF Spec, HeartbeatKept

\* Main filters the channel whenever it is configured.
AlwaysFiltered == \A m \in Settings : ~m.every

\* _last_enqueued is the newest reading on its way, and only readings of a
\* filtered channel are remembered there.
CacheIsNewest ==
  /\ last # None => ~meta.every /\ Shown = last
  /\ ShownIsRead

\* Nothing is cached and nothing has been read.
LEMMA CacheInitially == Init => CacheIsNewest
BY DEF Init, CacheIsNewest, ShownIsRead

\* One step per action: only a reading that is sent moves the cache, and it
\* moves what Main will show with it.
LEMMA CacheSteps ==
  ASSUME AlwaysFiltered
  PROVE  DedupInv /\ CacheIsNewest /\ [Next]_vars => CacheIsNewest'
<1>. SUFFICES ASSUME DedupInv, CacheIsNewest, [Next]_vars PROVE CacheIsNewest'
  OBVIOUS
<1>. USE DEF CacheIsNewest, ShownIsRead, Shown
<1>1. ASSUME NEW r \in Readings, Reading(r) PROVE CacheIsNewest'
  <2>1. r # None
    BY DedupAssumption DEF Readings
  <2>2. CASE Skip(r)
    <3>1. r = last
      BY <2>2 DEF Skip, Same, DedupInv, TypeOK, Readings
    <3>. QED
      BY <1>1, <2>1, <2>2, <3>1 DEF Reading
  <2>3. CASE ~Skip(r)
    BY <1>1, <2>1, <2>3 DEF Reading
  <2>. QED
    BY <2>2, <2>3
<1>2. CASE Flush
  BY <1>2 DEF Flush
<1>3. ASSUME NEW m \in Settings, Apply(m) PROVE CacheIsNewest'
  BY <1>3, AlwaysFiltered DEF Apply, AlwaysFiltered
<1>4. CASE Restart
  BY <1>4 DEF Restart, Forgotten
<1>5. CASE Tick
  BY <1>5 DEF Tick
<1>6. CASE UNCHANGED vars
  BY <1>6 DEF vars
<1>. QED
  BY <1>1, <1>2, <1>3, <1>4, <1>5, <1>6 DEF Next, Collect

(***************************************************************************)
(* Leaving repeats out hides no change from Main, in a channel that is     *)
(* filtered whenever it is configured: without that assumption it is not   *)
(* true, for readings of a channel that must send every one bypass the     *)
(* cache (scheduler.py:73-74).                                             *)
(***************************************************************************)
THEOREM NothingHidden ==
  ASSUME AlwaysFiltered
  PROVE  PacingSpec => []ShownIsRead
<1>1. CacheIsNewest => ShownIsRead
  BY DEF CacheIsNewest
<1>2. DedupInv /\ CacheIsNewest /\ [Next]_vars => CacheIsNewest'
  BY CacheSteps
<1>. QED
  BY <1>1, <1>2, EachKeepsItsSpec, DedupInitially, DedupSteps, CacheInitially, PTL DEF Spec

-----------------------------------------------------------------------------
(* Backoff.                                                                *)

\* The delay before the jitter is between the base and the cap.
LEMMA StretchedRange ==
  ASSUME NEW d \in BACKOFF_BASE_S..BACKOFF_CAP_S, NEW r \in Nat
  PROVE  Stretched(d, r) \in BACKOFF_BASE_S..BACKOFF_CAP_S
BY DEF Stretched, AtMost, AtLeast, BACKOFF_BASE_S, BACKOFF_CAP_S

\* The next delay stays in that range.
LEMMA NextDelayRange ==
  ASSUME NEW d \in BACKOFF_BASE_S..BACKOFF_CAP_S
  PROVE  NextDelay(d) \in BACKOFF_BASE_S..BACKOFF_CAP_S
BY DEF NextDelay, AtMost, BACKOFF_BASE_S, BACKOFF_CAP_S

\* The jitter adds at most a fifth and never makes a wait negative.
LEMMA JitterRange ==
  ASSUME NEW d \in BACKOFF_BASE_S..BACKOFF_CAP_S, NEW j \in Jitter
  PROVE  /\ d + (j * d) \div 5 \in Nat
         /\ 5 * (d + (j * d) \div 5) <= 6 * BACKOFF_CAP_S
<1>1. j = -1 \/ j = 0 \/ j = 1
  BY DEF Jitter
<1>2. CASE j = -1
  BY <1>2 DEF BACKOFF_BASE_S, BACKOFF_CAP_S
<1>3. CASE j = 0
  BY <1>3 DEF BACKOFF_BASE_S, BACKOFF_CAP_S
<1>4. CASE j = 1
  BY <1>4 DEF BACKOFF_BASE_S, BACKOFF_CAP_S
<1>. QED
  BY <1>1, <1>2, <1>3, <1>4

BackoffInv == BackoffTypeOK /\ NeverSilent

\* No serial rests at first.
LEMMA BackoffInitially == BackoffInit => BackoffInv
BY BackoffAssumption
DEF BackoffInit, BackoffInv, BackoffTypeOK, NeverSilent, BACKOFF_CAP_S

\* One step per action of Backoff.
LEMMA BackoffSteps == BackoffInv /\ [BackoffNext]_backoffVars => BackoffInv'
<1>. SUFFICES ASSUME BackoffInv, [BackoffNext]_backoffVars PROVE BackoffInv'
  OBVIOUS
<1>1. ASSUME NEW r \in RetryAfters \cup {0}, Fail(r) PROVE BackoffInv'
  <2>. DEFINE d == Stretched(IF delay = 0 THEN BACKOFF_BASE_S ELSE delay, r)
  <2>1. r \in Nat /\ asked \in Nat
    BY BackoffAssumption DEF BackoffInv, BackoffTypeOK
  <2>2. (IF delay = 0 THEN BACKOFF_BASE_S ELSE delay) \in BACKOFF_BASE_S..BACKOFF_CAP_S
    BY DEF BackoffInv, BackoffTypeOK, BACKOFF_BASE_S, BACKOFF_CAP_S
  <2>3. d \in BACKOFF_BASE_S..BACKOFF_CAP_S
    BY <2>1, <2>2, StretchedRange
  <2>4. PICK j \in Jitter : wait' = d + (j * d) \div 5
    BY <1>1 DEF Fail
  <2>5. wait' \in Nat /\ 5 * wait' <= 6 * BACKOFF_CAP_S
    BY <2>3, <2>4, JitterRange
  <2>6. delay' \in BACKOFF_BASE_S..BACKOFF_CAP_S
    BY <1>1, <2>3, NextDelayRange DEF Fail
  <2>7. failures' \in 0..MaxFailures /\ asked' \in RetryAfters \cup {0}
    BY <1>1, <2>1, BackoffAssumption DEF Fail, AtLeast, BackoffInv, BackoffTypeOK
  <2>. QED
    BY <2>5, <2>6, <2>7 DEF BackoffInv, BackoffTypeOK, NeverSilent
<1>2. CASE Miss \/ UNCHANGED backoffVars
  BY <1>2 DEF Miss, backoffVars, BackoffInv, BackoffTypeOK, NeverSilent
<1>3. CASE Succeed
  BY <1>3, BackoffAssumption
  DEF Succeed, Cleared, BackoffInv, BackoffTypeOK, NeverSilent
<1>4. CASE Expire
  BY <1>4 DEF Expire, BackoffInv, BackoffTypeOK, NeverSilent, BACKOFF_CAP_S
<1>5. CASE Forget
  BY <1>5, BackoffAssumption
  DEF Forget, BackoffInv, BackoffTypeOK, NeverSilent, BACKOFF_CAP_S
<1>. QED
  BY <1>1, <1>2, <1>3, <1>4, <1>5 DEF BackoffNext, Call

\* The type invariant of the pace: the delay is within the base and the cap.
THEOREM BackoffTyped == PacingSpec => []BackoffTypeOK
<1>1. BackoffInv => BackoffTypeOK
  BY DEF BackoffInv
<1>. QED
  BY <1>1, EachKeepsItsSpec, BackoffInitially, BackoffSteps, PTL DEF BackoffSpec

\* Both types together, for any Retry-After and any number of failures.
THEOREM PacingTyped == PacingSpec => []PacingTypeOK
BY DedupTyped, BackoffTyped, PTL DEF PacingTypeOK

(***************************************************************************)
(* No number of failures and no Retry-After silences a serial for longer   *)
(* than 36 s.                                                              *)
(***************************************************************************)
THEOREM RestIsBounded == PacingSpec => []NeverSilent
<1>1. BackoffInv => NeverSilent
  BY DEF BackoffInv
<1>. QED
  BY <1>1, EachKeepsItsSpec, BackoffInitially, BackoffSteps, PTL DEF BackoffSpec

-----------------------------------------------------------------------------
(* Doubling, which a recursive function states.                            *)

\* Every set of natural numbers that is not empty has a least element.
LEMMA LeastNumber ==
  ASSUME NEW T, T \subseteq Nat, T # {}
  PROVE  \E m \in T : \A n \in T : m <= n
<1>. DEFINE R == {p \in Nat \X Nat : p[1] < p[2]}
<1>1. IsWellFoundedOn(R, Nat)
  BY NatLessThanWellFounded DEF OpToRel
<1>2. PICK m \in T : \A n \in T : ~(<<n, m>> \in R)
  <2>. HIDE DEF R
  <2>. QED
    BY <1>1, WFMin
<1>3. ASSUME NEW n \in T PROVE m <= n
  <2>1. <<n, m>> \notin R
    BY <1>2
  <2>2. ~(n < m)
    BY <2>1
  <2>. QED
    BY <2>2
<1>. QED
  BY <1>2, <1>3

\* What doubling comes to: 1, 2, 4, 8 and 16 s, then the cap.
Schedule(n) ==
  IF n <= 1 THEN 5 ELSE IF n = 2 THEN 10 ELSE IF n = 3 THEN 20
  ELSE IF n = 4 THEN 40 ELSE IF n = 5 THEN 80 ELSE 150

\* The schedule satisfies the equation that defines Doubled.
LEMMA ScheduleDoubles ==
  ASSUME NEW n \in Nat
  PROVE  Schedule(n) = IF n <= 1 THEN BACKOFF_BASE_S
                       ELSE AtMost(2 * Schedule(n - 1), BACKOFF_CAP_S)
<1>1. CASE n <= 1
  BY <1>1 DEF Schedule, BACKOFF_BASE_S
<1>2. CASE n > 1
  BY <1>2 DEF Schedule, AtMost, BACKOFF_BASE_S, BACKOFF_CAP_S
<1>. QED
  BY <1>1, <1>2

\* The equation has a solution, so Doubled, which is one, satisfies it.
LEMMA DoubledEquation ==
  Doubled = [n \in Nat |-> IF n <= 1 THEN BACKOFF_BASE_S
                           ELSE AtMost(2 * Doubled[n - 1], BACKOFF_CAP_S)]
<1>. DEFINE F(f) == [n \in Nat |-> IF n <= 1 THEN BACKOFF_BASE_S
                                   ELSE AtMost(2 * f[n - 1], BACKOFF_CAP_S)]
            g == [n \in Nat |-> Schedule(n)]
<1>1. ASSUME NEW n \in Nat PROVE g[n] = F(g)[n]
  <2>1. CASE n <= 1
    BY <2>1, ScheduleDoubles
  <2>2. CASE n > 1
    <3>1. n - 1 \in Nat
      BY <2>2
    <3>2. g[n - 1] = Schedule(n - 1)
      BY <3>1
    <3>. QED
      BY <2>2, <3>2, ScheduleDoubles
  <2>. QED
    BY <2>1, <2>2
<1>2. g = F(g)
  BY <1>1
<1>3. Doubled = CHOOSE f : f = F(f)
  BY DEF Doubled
<1>. HIDE DEF F, g
<1>4. Doubled = F(Doubled)
  BY <1>2, <1>3
<1>. QED
  BY <1>4 DEF F

\* By induction: the least number at which the two differ is not at most 1,
\* and they agree at the number before it.
LEMMA DoubledIsSchedule ==
  ASSUME NEW n \in Nat
  PROVE  Doubled[n] = Schedule(n)
<1>. DEFINE T == {i \in Nat : Doubled[i] # Schedule(i)}
<1>. SUFFICES ASSUME T # {} PROVE FALSE
  OBVIOUS
<1>1. PICK m \in T : \A i \in T : m <= i
  BY LeastNumber
<1>2. Doubled[m] = IF m <= 1 THEN BACKOFF_BASE_S
                   ELSE AtMost(2 * Doubled[m - 1], BACKOFF_CAP_S)
  BY DoubledEquation
<1>3. CASE m <= 1
  BY <1>1, <1>2, <1>3, ScheduleDoubles
<1>4. CASE m > 1
  <2>1. m - 1 \in Nat /\ ~(m <= m - 1)
    BY <1>1, <1>4
  <2>2. Doubled[m - 1] = Schedule(m - 1)
    BY <1>1, <2>1
  <2>. QED
    BY <1>1, <1>2, <1>4, <2>2, ScheduleDoubles
<1>. QED
  BY <1>1, <1>3, <1>4

(***************************************************************************)
(* What Doubling needs of the delay: there is an entry exactly while Main  *)
(* fails, it is whole fifths, and it is at least the delay of the next     *)
(* failure in a row, and just that if Main never asked for more.           *)
(***************************************************************************)
PaceInv ==
  /\ delay = 0 <=> failures = 0
  /\ delay % 5 = 0
  /\ failures > 0 =>
       /\ delay >= Doubled[failures + 1]
       /\ asked = 0 => delay = Doubled[failures + 1]

\* Both together with the types are inductive.
DoublingInv == BackoffInv /\ PaceInv /\ Doubling

\* Nothing failed yet.
LEMMA DoublingInitially == BackoffInit => DoublingInv
<1>. SUFFICES ASSUME BackoffInit PROVE DoublingInv
  OBVIOUS
<1>1. BackoffInv
  BY BackoffInitially
<1>2. PaceInv /\ Doubling
  BY DEF BackoffInit, PaceInv, Doubling
<1>. QED
  BY <1>1, <1>2 DEF DoublingInv

\* A wait of whole fifths with its jitter is between 0.8 and 1.2 delays.
LEMMA JitterIsAFifth ==
  ASSUME NEW d \in Nat, d % 5 = 0, NEW j \in Jitter
  PROVE  /\ 5 * (d + (j * d) \div 5) >= 4 * d
         /\ 5 * (d + (j * d) \div 5) <= 6 * d
<1>1. j = -1 \/ j = 0 \/ j = 1
  BY DEF Jitter
<1>2. CASE j = -1
  BY <1>2
<1>3. CASE j = 0
  BY <1>3
<1>4. CASE j = 1
  BY <1>4
<1>. QED
  BY <1>1, <1>2, <1>3, <1>4

\* The delay before the jitter, seen from the schedule: at the (n + 1)-th
\* failure it is at least Doubled[n + 1], and so is the next one.
LEMMA StretchedKeepsPace ==
  ASSUME NEW n \in Nat, NEW r \in Nat, r % 5 = 0,
         NEW e \in BACKOFF_BASE_S..BACKOFF_CAP_S, e % 5 = 0,
         e >= Doubled[n + 1]
  PROVE  /\ Stretched(e, r) % 5 = 0
         /\ Stretched(e, r) >= Doubled[n + 1]
         /\ NextDelay(Stretched(e, r)) % 5 = 0
         /\ NextDelay(Stretched(e, r)) >= Doubled[n + 2]
         /\ r = 0 /\ e = Doubled[n + 1] =>
              /\ Stretched(e, r) = Doubled[n + 1]
              /\ NextDelay(Stretched(e, r)) = Doubled[n + 2]
<1>. DEFINE d == Stretched(e, r)
<1>1. /\ d \in BACKOFF_BASE_S..BACKOFF_CAP_S
      /\ d % 5 = 0 /\ d >= e
      /\ r = 0 => d = e
  BY DEF Stretched, AtMost, AtLeast, BACKOFF_BASE_S, BACKOFF_CAP_S
<1>2. Doubled[n + 2] = AtMost(2 * Doubled[n + 1], BACKOFF_CAP_S)
  <2>1. n + 2 \in Nat /\ ~(n + 2 <= 1) /\ (n + 2) - 1 = n + 1
    OBVIOUS
  <2>. QED
    BY <2>1, DoubledEquation
<1>3. Doubled[n + 1] \in Nat
  BY DoubledIsSchedule DEF Schedule
<1>. HIDE DEF d
<1>4. /\ NextDelay(d) % 5 = 0
      /\ NextDelay(d) >= Doubled[n + 2]
      /\ d = Doubled[n + 1] => NextDelay(d) = Doubled[n + 2]
  BY <1>1, <1>2, <1>3 DEF NextDelay, AtMost, BACKOFF_CAP_S, BACKOFF_BASE_S
<1>5. d >= Doubled[n + 1]
  BY <1>1, <1>3 DEF BACKOFF_BASE_S, BACKOFF_CAP_S
<1>. QED
  BY <1>1, <1>4, <1>5 DEF d

\* One step per action: only a failure makes the serial wait.
LEMMA DoublingSteps == DoublingInv /\ [BackoffNext]_backoffVars => DoublingInv'
<1>. SUFFICES ASSUME DoublingInv, [BackoffNext]_backoffVars PROVE DoublingInv'
  OBVIOUS
<1>0. BackoffInv'
  BY BackoffSteps DEF DoublingInv
<1>1. ASSUME NEW r \in RetryAfters \cup {0}, Fail(r) PROVE (PaceInv /\ Doubling)'
  <2>. DEFINE e == IF delay = 0 THEN BACKOFF_BASE_S ELSE delay
              d == Stretched(e, r)
  <2>1. r \in Nat /\ r % 5 = 0
    BY BackoffAssumption
  <2>2. failures \in Nat /\ asked \in Nat
    BY BackoffAssumption DEF DoublingInv, BackoffInv, BackoffTypeOK
  <2>3. e \in BACKOFF_BASE_S..BACKOFF_CAP_S /\ e % 5 = 0
    BY DEF DoublingInv, PaceInv, BackoffInv, BackoffTypeOK, BACKOFF_BASE_S, BACKOFF_CAP_S
  <2>4. e >= Doubled[failures + 1] /\ (asked = 0 => e = Doubled[failures + 1])
    <3>1. CASE failures = 0
      <4>1. Doubled[failures + 1] = BACKOFF_BASE_S
        BY <3>1, DoubledEquation
      <4>. QED
        BY <3>1, <4>1 DEF DoublingInv, PaceInv, BACKOFF_BASE_S
    <3>2. CASE failures > 0
      BY <3>2, <2>2 DEF DoublingInv, PaceInv
    <3>. QED
      BY <2>2, <3>1, <3>2
  <2>. HIDE DEF e
  <2>5. /\ d % 5 = 0
        /\ d >= Doubled[failures + 1]
        /\ NextDelay(d) % 5 = 0
        /\ NextDelay(d) >= Doubled[failures + 2]
        /\ r = 0 /\ e = Doubled[failures + 1] =>
             d = Doubled[failures + 1] /\ NextDelay(d) = Doubled[failures + 2]
    BY <2>1, <2>2, <2>3, <2>4, StretchedKeepsPace
  <2>6. d \in BACKOFF_BASE_S..BACKOFF_CAP_S
    BY <2>1, <2>3, StretchedRange
  <2>7. PICK j \in Jitter : wait' = d + (j * d) \div 5
    BY <1>1 DEF Fail, e
  <2>8. /\ delay' = NextDelay(d)
        /\ failures' = failures + 1
        /\ asked' = AtLeast(asked, r)
    BY <1>1 DEF Fail, e
  <2>9. asked' = 0 => r = 0 /\ asked = 0
    BY <2>1, <2>2, <2>8 DEF AtLeast
  <2>10. delay' \in BACKOFF_BASE_S..BACKOFF_CAP_S
    BY <2>6, <2>8, NextDelayRange
  <2>11. Doubled[failures + 1] \in Nat
    BY <2>2, DoubledIsSchedule DEF Schedule
  <2>12. d \in Nat /\ 5 * wait' >= 4 * d /\ 5 * wait' <= 6 * d /\ wait' \in Int
    <3>1. d \in Nat
      BY <2>6 DEF BACKOFF_BASE_S, BACKOFF_CAP_S
    <3>2. wait' \in Int
      BY <1>0 DEF BackoffInv, BackoffTypeOK
    <3>. QED
      BY <2>5, <2>7, <3>1, <3>2, JitterIsAFifth
  <2>. HIDE DEF d
  <2>13. PaceInv'
    <3>1. (failures + 1) + 1 = failures + 2 /\ failures' # 0
      BY <2>2, <2>8
    <3>2. delay' # 0
      BY <2>10 DEF BACKOFF_BASE_S, BACKOFF_CAP_S
    <3>. QED
      BY <2>4, <2>5, <2>8, <2>9, <3>1, <3>2 DEF PaceInv
  <2>14. 5 * wait' >= 4 * Doubled[failures']
    <3>. DEFINE D == Doubled[failures']
    <3>1. d >= D /\ D \in Nat
      BY <2>5, <2>8, <2>11
    <3>. HIDE DEF D
    <3>2. ASSUME NEW w \in Int, NEW x \in Nat, 5 * w >= 4 * x, x >= D
          PROVE  5 * w >= 4 * D
      BY <3>1, <3>2
    <3>3. 5 * wait' >= 4 * D
      BY <2>12, <3>1, <3>2
    <3>. QED
      BY <3>3 DEF D
  <2>15. asked' = 0 => 5 * wait' <= 6 * Doubled[failures']
    BY <2>4, <2>5, <2>8, <2>9, <2>11, <2>12
  <2>. QED
    BY <2>13, <2>14, <2>15 DEF Doubling
<1>2. CASE Miss \/ UNCHANGED backoffVars
  BY <1>0, <1>2 DEF Miss, backoffVars, DoublingInv, PaceInv, Doubling
<1>3. CASE Succeed
  BY <1>0, <1>3 DEF Succeed, Cleared, DoublingInv, PaceInv, Doubling
<1>4. CASE Expire
  BY <1>0, <1>4 DEF Expire, DoublingInv, PaceInv, Doubling
<1>5. CASE Forget
  BY <1>0, <1>5 DEF Forget, DoublingInv, PaceInv, Doubling
<1>. QED
  BY <1>0, <1>1, <1>2, <1>3, <1>4, <1>5 DEF BackoffNext, Call, DoublingInv

(***************************************************************************)
(* The n-th failure in a row waits for n - 1 doublings, less the jitter,   *)
(* whatever Main asks for and however often it fails: not only for the     *)
(* failures a run can count.                                               *)
(***************************************************************************)
THEOREM PaceDoubles == PacingSpec => []Doubling
<1>1. DoublingInv => Doubling
  BY DEF DoublingInv
<1>. QED
  BY <1>1, EachKeepsItsSpec, DoublingInitially, DoublingSteps, PTL DEF BackoffSpec
=============================================================================
