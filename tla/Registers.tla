----------------------------- MODULE Registers -----------------------------
(***************************************************************************)
(* How the Modbus driver packs a number into registers and unpacks it      *)
(* (drivers/modbus.py: _decode, _encode_32 and the rounding in command).   *)
(* A register holds Word values, 2^16 in the field; the formats of one and *)
(* of two registers keep the names of the source.  f32 is left out.        *)
(***************************************************************************)
EXTENDS Integers, Sequences

CONSTANT Word   \* what one register counts up to: 2^16

ASSUME WordAssumption == Word \in Nat /\ Word >= 2 /\ Word % 2 = 0

Formats == {"i16", "u16", "i32", "u32"}

\* How many values a format tells apart.
Span(dtype) == IF dtype \in {"i16", "u16"} THEN Word ELSE Word * Word

\* The numbers a format is made for.
Fits(dtype, v) ==
  IF dtype \in {"i16", "i32"} THEN 2 * v >= -Span(dtype) /\ 2 * v < Span(dtype)
                              ELSE v >= 0 /\ v < Span(dtype)

\* struct.pack(">i") raises; the other formats take any integer and mask it.
Packs(dtype, v) == dtype = "i32" => Fits(dtype, v)

\* Mutant: nothing is masked.
Unmasked(dtype, v) == <<v>>

\* round(raw) & 0xFFFF, and _encode_32: the high register goes first.
Encode(dtype, v) ==
  LET bits == v % Span(dtype)
  IN  IF dtype \in {"i16", "u16"} THEN <<bits>> ELSE <<bits \div Word, bits % Word>>

\* _decode
Decode(dtype, regs) ==
  LET bits == IF dtype \in {"i16", "u16"} THEN regs[1] ELSE regs[1] * Word + regs[2]
  IN  IF dtype \in {"i16", "i32"} /\ 2 * bits >= Span(dtype) THEN bits - Span(dtype) ELSE bits
=============================================================================
