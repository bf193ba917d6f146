------------------------------ MODULE Backoff ------------------------------
(***************************************************************************)
(* The pace at which one serial is retried after 429 and 5xx answers:      *)
(* EdgeAgent._note_backoff and _clear_backoff (scheduler.py).  Telemetry   *)
(* knows only that a serial rests; here is for how long.  Time is counted  *)
(* in fifths of a second, so that the jitter of a fifth of a delay that is *)
(* a multiple of BACKOFF_BASE_S is a whole number.                         *)
(***************************************************************************)
EXTENDS Integers

CONSTANTS
  RetryAfters,   \* the Retry-After values Main sends; 0: none
  MaxFailures    \* bound: failures in a row

ASSUME BackoffAssumption ==
  /\ \A r \in RetryAfters : r \in Nat /\ r % 5 = 0   \* whole seconds
  /\ MaxFailures \in Nat \ {0}

BACKOFF_BASE_S == 5     \* 1 s
BACKOFF_CAP_S == 150    \* 30 s
Jitter == -1..1         \* fifths of the delay: BACKOFF_JITTER is 0.2

VARIABLES
  delay,     \* _backoff_delay; 0: no entry
  wait,      \* what is left to _backoff_until; 0: the serial may be sent
  failures,  \* history: 429 and 5xx answers since the last success
  asked      \* history: the longest Retry-After of these failures

backoffVars == <<delay, wait, failures, asked>>

AtMost(m, n) == IF m <= n THEN m ELSE n
AtLeast(m, n) == IF m >= n THEN m ELSE n

BackoffTypeOK ==
  /\ delay \in {0} \cup BACKOFF_BASE_S..BACKOFF_CAP_S
  /\ wait \in Nat
  /\ failures \in 0..MaxFailures
  /\ asked \in RetryAfters \cup {0}

BackoffInit == delay = 0 /\ wait = 0 /\ failures = 0 /\ asked = 0

\* Mutant: the next delay is not capped.
Uncapped(d) == 2 * d

\* What _backoff_delay becomes after a wait of d.
NextDelay(d) == AtMost(2 * d, BACKOFF_CAP_S)

\* Mutant: Retry-After replaces the delay.
ReplacedBy(d, r) == IF r > 0 THEN r ELSE d

\* The delay before the jitter.
Stretched(d, r) == AtMost(AtLeast(d, r), BACKOFF_CAP_S)

\* A 429, with a Retry-After or without, or a 5xx.
Fail(r) ==
  /\ wait = 0
  /\ failures < MaxFailures
  /\ LET d == Stretched(IF delay = 0 THEN BACKOFF_BASE_S ELSE delay, r) IN
       /\ \E j \in Jitter : wait' = d + (j * d) \div 5
       /\ delay' = NextDelay(d)
  /\ failures' = failures + 1
  /\ asked' = AtLeast(asked, r)

\* The call is lost, or answered with another status: the pace stays.
Miss ==
  /\ wait = 0
  /\ UNCHANGED backoffVars

\* Mutant: only _backoff_until is forgotten.
DelayKept == delay

\* _clear_backoff.
Cleared == 0

Succeed ==
  /\ wait = 0
  /\ failures > 0
  /\ delay' = Cleared
  /\ failures' = 0 /\ asked' = 0
  /\ UNCHANGED wait

\* Time passes _backoff_until.
Expire ==
  /\ wait > 0
  /\ wait' = 0
  /\ UNCHANGED <<delay, failures, asked>>

\* A new process has no entry for the serial.
Forget == delay' = 0 /\ wait' = 0 /\ failures' = 0 /\ asked' = 0

\* One call of _drain_serial for the serial.
Call == (\E r \in RetryAfters \cup {0} : Fail(r)) \/ Miss \/ Succeed

BackoffNext == Call \/ Expire \/ Forget

BackoffSpec == BackoffInit /\ [][BackoffNext]_backoffVars

-----------------------------------------------------------------------------
\* The delay of the n-th failure in a row when Main asks for nothing.
Doubled[n \in Nat] ==
  IF n <= 1 THEN BACKOFF_BASE_S ELSE AtMost(2 * Doubled[n - 1], BACKOFF_CAP_S)

(***************************************************************************)
(* However often Main fails, the n-th failure in a row waits at least as   *)
(* long as n - 1 doublings ask, less the jitter, up to the cap, and the    *)
(* pace grows by doubling only: a serial starts again at the base after a  *)
(* success (scheduler.py:212-216).                                         *)
(***************************************************************************)
Doubling ==
  wait > 0 =>
    /\ 5 * wait >= 4 * Doubled[failures]
    /\ asked = 0 => 5 * wait <= 6 * Doubled[failures]

(***************************************************************************)
(* No Retry-After of Main and no number of failures keeps a serial silent  *)
(* for longer than the cap and its jitter.                                 *)
(***************************************************************************)
NeverSilent == 5 * wait <= 6 * BACKOFF_CAP_S
=============================================================================
