------------------------------- MODULE Pacing -------------------------------
(***************************************************************************)
(* One channel from its readings to the calls that carry them: Dedup says  *)
(* which readings reach the outbox, Backoff how long the serial of the     *)
(* channel rests between calls.  The two meet in the process they live in: *)
(* _last_enqueued, _backoff_until and _backoff_delay are all in RAM, and a *)
(* restart forgets them together (scheduler.py, EdgeAgent.__init__).       *)
(***************************************************************************)
EXTENDS Dedup, Backoff

pacingVars == <<vars, backoffVars>>

PacingInit == Init /\ BackoffInit

\* A reading, a flush or an edit does not touch the pace.
CollectOnly == Collect /\ UNCHANGED backoffVars

\* _drain_serial calls Main for a serial that has something in the outbox;
\* change detection does not look at the answer.
CallOnly == kept # None /\ Call /\ UNCHANGED vars

\* A rest ends by the clock, whatever is collected meanwhile.
Rested == Expire /\ UNCHANGED vars

\* The process dies and starts again.
NewProcess == Restart /\ Forget

PacingNext == CollectOnly \/ CallOnly \/ Rested \/ NewProcess

PacingSpec == PacingInit /\ [][PacingNext]_pacingVars

-----------------------------------------------------------------------------
(* Both parts keep their types; the delay of a serial is 0 or between the  *)
(* base and the cap.                                                       *)
PacingTypeOK == TypeOK /\ BackoffTypeOK
=============================================================================
