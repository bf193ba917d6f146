--------------------------- MODULE MCSettingsPage ---------------------------
(* Small instances of SettingsPage for TLC.                                *)
EXTENDS SettingsPage, TLC

\* The tabs are interchangeable.
Symmetry == Permutations(Tabs)
=============================================================================
