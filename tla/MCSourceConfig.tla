-------------------------- MODULE MCSourceConfig --------------------------
(* Small instances of SourceConfig for TLC; the two sources of the passing *)
(* run differ (one of them leaks), so there is no symmetry to use.         *)
EXTENDS SourceConfig
=============================================================================
