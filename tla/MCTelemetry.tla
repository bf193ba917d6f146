---------------------------- MODULE MCTelemetry ----------------------------
(* Small instances of Telemetry for TLC.                                   *)
EXTENDS Telemetry, TLC

\* The serials are interchangeable in the runs that check safety only.
Symmetry == Permutations(Serials)
=============================================================================
