------------------------------- MODULE LzxOffsets -------------------------------
(***************************************************************************)
(* Match offsets of the LZX decoders: the tables of position slots that    *)
(* lzx.py and lzxd.c each build in their own way, and what they make of a  *)
(* slot and of the bits behind it. Of the bits it matters whether they are *)
(* all zero or all one.                                                    *)
(***************************************************************************)
EXTENDS Integers

Verbatim == 1
Aligned == 2
Stored == 3

Field(m, n) == IF m.ones THEN 2^n - 1 ELSE 0

-----------------------------------------------------------------------------
(* lzx.py                                                                  *)
PyExtraBitsUncapped(slot) == IF slot < 4 THEN 0 ELSE (slot \div 2) - 1
PyExtraBits(slot) ==
  IF slot < 4 THEN 0 ELSE IF slot < 36 THEN (slot \div 2) - 1 ELSE 17

PyPosBase[slot \in 0..49] ==
  IF slot = 0 THEN 0 ELSE PyPosBase[slot - 1] + 2^PyExtraBits(slot - 1)

(* Slots of a window of 2^bits bytes. *)
PySlots(bits) == {slot \in 0..49 : PyPosBase[slot] < 2^bits}

PyOffset(type, m) ==
  LET extra == PyExtraBits(m.slot)
  IN PyPosBase[m.slot] - 2
     + (IF type = Aligned /\ extra >= 3 THEN 8 * Field(m, extra - 3) + Field(m, 3)
        ELSE Field(m, extra))

-----------------------------------------------------------------------------
(* lzxd.c: j goes up by one for every pair of slots but the first, to 17.  *)
CPairBits[pair \in 0..24] ==
  IF pair = 0 THEN 0
  ELSE LET j == CPairBits[pair - 1] IN IF pair - 1 # 0 /\ j < 17 THEN j + 1 ELSE j

CExtraBits(slot) == IF slot = 50 THEN 17 ELSE CPairBits[slot \div 2]

CPositionBase[slot \in 0..50] ==
  IF slot = 0 THEN 0 ELSE CPositionBase[slot - 1] + 2^CExtraBits(slot - 1)

CPosnSlots(bits) == IF bits = 21 THEN 50 ELSE IF bits = 20 THEN 42 ELSE 2 * bits

CVerbatimOffset(m) ==
  IF m.slot = 3 THEN 1
  ELSE CPositionBase[m.slot] - 2 + Field(m, CExtraBits(m.slot))

CAlignedOffset(m) ==
  LET extra == CExtraBits(m.slot)
      base == CPositionBase[m.slot] - 2
  IN CASE extra > 3 -> base + 8 * Field(m, extra - 3) + Field(m, 3)
       [] extra = 3 -> base + Field(m, 3)
       [] extra \in {1, 2} -> base + Field(m, extra)
       [] OTHER -> 1

COffset(type, m) == IF type = Aligned THEN CAlignedOffset(m) ELSE CVerbatimOffset(m)

-----------------------------------------------------------------------------
(* R0, R1, R2 behind a match, and of which R0 is its offset.               *)
Requeue(reps, slot, far) ==
  CASE slot = 0 -> reps
    [] slot = 1 -> <<reps[2], reps[1], reps[3]>>
    [] slot = 2 -> <<reps[3], reps[2], reps[1]>>
    [] OTHER -> <<far, reps[1], reps[2]>>

=============================================================================
