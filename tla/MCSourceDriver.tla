--------------------------- MODULE MCSourceDriver ---------------------------
(* Small instances of SourceDriver.                                        *)
EXTENDS SourceDriver

CONSTANTS c1, c2

\* Numbers at the edges of registers that count to four: negative ones, the
\* least that fits, and two that do not fit, of which one cannot be packed.
MCWants ==
  {[c \in Cmds |-> IF c = c1 THEN [dtype |-> "i32", value |-> -3]
                            ELSE [dtype |-> "u16", value |-> 5]],
   [c \in Cmds |-> IF c = c1 THEN [dtype |-> "i32", value |-> 8]
                            ELSE [dtype |-> "i16", value |-> -2]]}
=============================================================================
