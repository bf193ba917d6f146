--------------------------- MODULE MCNodeCommand ---------------------------
(* Small instances of NodeCommand for TLC.                                 *)
EXTENDS NodeCommand
=============================================================================
