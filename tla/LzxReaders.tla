------------------------------- MODULE LzxReaders -------------------------------
(***************************************************************************)
(* The two bit readers of the LZX decoders: _Bits (lzx.py) and the input   *)
(* macros of lzxd.c. Both load little-endian words of 16 bits, but at      *)
(* different times; what is left of a loaded word counts as read when the  *)
(* stream is aligned. Only positions are kept: which bits a read returns   *)
(* follows from the position it is made at (module BitReader).             *)
(***************************************************************************)
EXTENDS Integers

WordBits == 16
Least(a, b) == IF a < b THEN a ELSE b
CeilDiv(a, b) == (a + b - 1) \div b

-----------------------------------------------------------------------------
(* lzx.py: pos is the byte after the last word loaded.                     *)
PyReader(at) == [pos |-> at, avail |-> 0, ok |-> TRUE]

WordsLeft(r, size) == IF r.pos < size THEN (size - r.pos) \div 2 ELSE 0

PyRefill(r, size) ==
  LET words == Least(IF r.avail < 17 THEN CeilDiv(17 - r.avail, WordBits) ELSE 0,
                     WordsLeft(r, size))
  IN [r EXCEPT !.pos = @ + 2 * words, !.avail = @ + WordBits * words]

(* A peek the input has no bits for raises EOFError.                       *)
PyPeekQuiet(r, size, n) == IF r.avail >= n THEN r ELSE PyRefill(r, size)
PyPeek(r, size, n) ==
  IF r.avail >= n THEN r
  ELSE LET full == PyRefill(r, size) IN [full EXCEPT !.ok = @ /\ full.avail >= n]

PyDrop(r, n) == [r EXCEPT !.avail = @ - n]
PyRead(r, size, n) == IF n = 0 THEN r ELSE PyDrop(PyPeek(r, size, n), n)

(* _decode_slow: n reads of one bit.                                       *)
PyWalk(r, size, n) ==
  IF r.avail >= n THEN PyDrop(r, n)
  ELSE PyRead(PyDrop(r, r.avail), size, n - r.avail)

(* _HTree.decode of a code of n bits with a table of `table` bits: if the  *)
(* table wants more bits than there are, or the code is longer than the    *)
(* table, the walk begins where the peek left the reader.                  *)
PySymbol(r, size, code) ==
  LET seen == PyPeek(r, size, code.table)
  IN IF seen.ok /\ code.len <= code.table THEN PyDrop(seen, code.len)
     ELSE PyWalk([seen EXCEPT !.ok = r.ok], size, code.len)

(* align16: to the next byte, and one more if more than a byte is buffered.*)
PyAlign(r) ==
  [r EXCEPT !.pos = CeilDiv(8 * r.pos - r.avail, 8) + IF r.avail > 8 THEN 1 ELSE 0,
            !.avail = 0]

PyFrameAlignByte(r, size) ==
  IF r.avail > 0 THEN LET full == PyRefill(r, size) IN PyDrop(full, full.avail % 8) ELSE r
PyFrameAlign(r, size) ==
  IF r.avail > 0 THEN LET full == PyRefill(r, size) IN PyDrop(full, full.avail % WordBits)
  ELSE r

-----------------------------------------------------------------------------
(* lzxd.c: behind the input there are two more bytes, zeros that           *)
(* lzxd_read_input makes up once; the next load fails.                     *)
Faked == 2
CReader == [ptr |-> 0, left |-> 0, ok |-> TRUE]

CAdvance(r, size, n) == [r EXCEPT !.ptr = @ + n, !.ok = @ /\ r.ptr + n <= size + Faked]

CEnsure(r, size, n) ==
  LET words == IF r.left < n THEN CeilDiv(n - r.left, WordBits) ELSE 0
  IN [CAdvance(r, size, 2 * words) EXCEPT !.left = @ + WordBits * words]

CRemove(r, n) == [r EXCEPT !.left = @ - n]
CRead(r, size, n) == CRemove(CEnsure(r, size, n), n)
CSymbol(r, size, code) == CRemove(CEnsure(r, size, WordBits), code.len)

CAlign(r, size) ==
  LET full == CEnsure(r, size, WordBits)
  IN [full EXCEPT !.ptr = IF full.left > WordBits THEN @ - 2 ELSE @, !.left = 0]

CFrameAlign(r, size) ==
  LET full == IF r.left > 0 THEN CEnsure(r, size, WordBits) ELSE r
  IN CRemove(full, full.left % WordBits)

(* The stream position of a reader, in bits.                               *)
PyPosition(r) == 8 * r.pos - r.avail
CPosition(r) == 8 * r.ptr - r.left

=============================================================================
