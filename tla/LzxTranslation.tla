----------------------------- MODULE LzxTranslation -----------------------------
(***************************************************************************)
(* The E8 translation of one call target: from an absolute address, as the *)
(* compressor left it, to one that is relative to the call (lzxd.c 850 to  *)
(* 857, lzx.py 293 to 296).                                                *)
(***************************************************************************)
EXTENDS Integers

CONSTANTS
  Base,  \* values of an operand: 2^32
  E8     \* the opcode

Signed(v) == IF 2 * v >= Base THEN v - Base ELSE v

Relative(abs, curpos, size) ==
  IF abs >= -curpos /\ abs < size
  THEN IF abs >= 0 THEN abs - curpos ELSE abs + size
  ELSE abs

(* The operand that is put in place of operand v.                          *)
Operand(v, curpos, size) == Relative(Signed(v), curpos, size) % Base

=============================================================================
