------------------------------ MODULE MCPacing ------------------------------
(* Small instances of Pacing for TLC.                                      *)
EXTENDS Pacing

\* Main filters the channel; only its freshness threshold is edited.
Filtered == [every : {FALSE}, maxAge : {None, 6}]

\* None; 2 s; 10 s; 2 min, beyond the cap.
Asked == {0, 10, 50, 600}
=============================================================================
