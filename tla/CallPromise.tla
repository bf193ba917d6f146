----------------------------- MODULE CallPromise -----------------------------
(***************************************************************************)
(* What the caller may believe of anything the edge passes on for it: a    *)
(* command for a node (NodeCommand), a message for the broker (RawPublish),*)
(* a write to a point (SourceDriver).  The other side may carry a call out *)
(* at any time, early, late or more than once; the caller is told one      *)
(* thing, once.  "unknown" commits the edge to nothing; an outcome is one  *)
(* there has been; after "never", on which the caller may try again, there *)
(* is none, neither then nor later.                                        *)
(***************************************************************************)
CONSTANTS
  Calls,
  Outcomes   \* what may come of a call; "nothing", "never", "unknown" are none

VARIABLES
  done,      \* done[c]: the outcomes there have been of call c
  told       \* told[c]: what its caller was told; "nothing" until then

vars == <<done, told>>

Init ==
  /\ done = [c \in Calls |-> {}]
  /\ told = [c \in Calls |-> "nothing"]

\* The other side carries c out.
CarryOut(c) ==
  /\ told[c] # "never"
  /\ \E o \in Outcomes : done' = [done EXCEPT ![c] = @ \cup {o}]
  /\ UNCHANGED told

\* The caller of c is told.
Tell(c) ==
  /\ told[c] = "nothing"
  /\ \E a \in done[c] \cup {"never", "unknown"} :
       /\ a = "never" => done[c] = {}
       /\ told' = [told EXCEPT ![c] = a]
  /\ UNCHANGED done

Next == \E c \in Calls : CarryOut(c) \/ Tell(c)

Spec == Init /\ [][Next]_vars
=============================================================================
