------------------------------ MODULE LzxDecoders ------------------------------
(***************************************************************************)
(* One call of decompress in both LZX decoders, lzx.py and lzxd.c, on the  *)
(* same stream: the chain of frames, blocks and runs, the stored blocks    *)
(* with their alignment, matches and repeated offsets.                     *)
(*                                                                         *)
(* What the stream says next is chosen step by step; as long as the two    *)
(* stand at the same bit they read the same. A step that makes Python      *)
(* raise, or after which the two differ, is the last one. Code trees are   *)
(* complete; E8 translation and the bytes themselves are left out.         *)
(***************************************************************************)
EXTENDS LzxReaders, LzxOffsets

CONSTANTS
  StreamSizes,   \* compressed sizes, even, in bytes
  Totals,        \* uncomp_len; at most a window, as lit.py asks for
  Frame,         \* 32768 in the code
  Window,        \* window size
  BlockLengths,  \* block lengths in the stream
  Codes,         \* code words: length, and bits of the table they are in
  TreeReads,     \* widths of the fields that describe trees
  Matches,       \* matches: code, footer, slot, ones (LzxOffsets), len
  HeaderOffsets  \* the offsets a stored block may hold

ASSUME StreamAssumption ==
  /\ \A n \in StreamSizes : n \in Nat /\ n % 2 = 0
  /\ Frame \in Nat \ {0} /\ Window \in Nat \ {0}
  /\ Totals \subseteq 1..Window
  /\ BlockLengths \subseteq Nat
  /\ Codes \subseteq [len : 1..16, table : 1..12]
  /\ TreeReads \subseteq 1..16
  /\ Matches \subseteq
       [code : Codes, footer : BOOLEAN, slot : 0..49, ones : BOOLEAN, len : Nat \ {0}]

VARIABLES
  size, total,  \* the call's arguments
  phase,        \* "start", "next" (head of the loops), "trees", "run", "done"
  block,        \* type and length of the current block
  produced,     \* bytes of the frames that are finished
  goal,         \* frame_goal
  py,           \* lzx.py: its reader, uncompressed_pos, block_rem, run_left, len(out), R0-R2
  cd,           \* lzxd.c: its reader, block_remaining, this_run, bytes in the window, R0-R2
  opened,       \* history: bytes put out when the block was opened
  split         \* history: the first thing the decoders treat differently

vars == <<size, total, phase, block, produced, goal, py, cd, opened, split>>

FrameSize == Least(Frame, total - produced)
CGoal == produced + FrameSize

PyFail(p) == [p EXCEPT !.bits.ok = FALSE]
PyFailIf(cond, p) == IF cond THEN PyFail(p) ELSE p
CFailIf(cond, c) == IF cond THEN [c EXCEPT !.bits.ok = FALSE] ELSE c

PyOk == py.bits.ok
COk == cd.bits.ok

(* Where in the stream the decoders stand.                                 *)
PyAt == IF block.type = Stored THEN 8 * py.upos ELSE PyPosition(py.bits)
CAt == CPosition(cd.bits)

(* Python cuts what it returns to uncomp_len.                              *)
InStep ==
  /\ COk /\ PyAt = CAt
  /\ py.rem = cd.rem /\ py.run = cd.run
  /\ Least(py.out, CGoal) = cd.out
  /\ py.reps = cd.reps

Live == PyOk /\ InStep

PyInit ==
  [bits |-> PyReader(0), upos |-> 0, rem |-> 0, run |-> 0, out |-> 0, reps |-> <<1, 1, 1>>]

(* The extension makes a new stream for every call: init and reset only    *)
(* keep the window size.                                                   *)
CInit == [bits |-> CReader, rem |-> 0, run |-> 0, out |-> 0, reps |-> <<1, 1, 1>>]

Init ==
  /\ size \in StreamSizes /\ total \in Totals
  /\ phase = "start"
  /\ block = [type |-> 0, len |-> 0]
  /\ produced = 0 /\ goal = FrameSize
  /\ py = PyInit /\ cd = CInit
  /\ opened = 0 /\ split = "none"

-----------------------------------------------------------------------------
(* The E8 bit, and behind it the file size it translates to.               *)
PyFields(p, n, m, k) ==
  [p EXCEPT !.bits = PyRead(PyRead(PyRead(@, size, n), size, m), size, k)]
CFields(c, n, m, k) ==
  [c EXCEPT !.bits = CRead(CRead(CRead(@, size, n), size, m), size, k)]

Start(intel) ==
  LET n == IF intel THEN 16 ELSE 0
  IN /\ Live /\ phase = "start"
     /\ py' = PyFields(py, 1, n, n) /\ cd' = CFields(cd, 1, n, n)
     /\ phase' = "next"
     /\ UNCHANGED <<size, total, block, produced, goal, opened, split>>

(* An odd stored block is followed by a byte of padding.                   *)
PyLeaveEven(p) == IF block.type = Stored THEN [p EXCEPT !.bits = PyReader(p.upos)] ELSE p
PyLeave(p) ==
  IF block.type = Stored THEN [p EXCEPT !.bits = PyReader(p.upos + (block.len % 2))] ELSE p
CLeave(c) ==
  IF block.type = Stored /\ block.len % 2 = 1
  THEN [c EXCEPT !.bits = CAdvance(@, size, 1)] ELSE c

PyHeader(len) == [PyFields(PyLeave(py), 3, 16, 8) EXCEPT !.rem = len]
CHeader(len) == [CFields(CLeave(cd), 3, 16, 8) EXCEPT !.rem = len]

(* The three offsets follow at the next word.                              *)
PyStored(p) ==
  LET bits == PyAlign(p.bits)
  IN PyFailIf(bits.pos + 12 > size, [p EXCEPT !.bits = bits, !.upos = bits.pos + 12])
CStored(c) == [c EXCEPT !.bits = CAdvance(CAlign(@, size), size, 12)]

(* `while len(out) < frame_goal`                                           *)
FrameOverfull == py.out > goal
FrameFull == py.out >= goal

AtBlock == Live /\ phase = "next" /\ ~FrameFull /\ py.rem = 0

OpenBlock(type, len) ==
  /\ AtBlock
  /\ block' = [type |-> type, len |-> len]
  /\ opened' = py.out
  /\ UNCHANGED <<size, total, produced, goal>>

(* Python raises on a block of length zero, C goes on to the next block.   *)
OpenCompressed(type, len) ==
  /\ OpenBlock(type, len)
  /\ py' = PyFailIf(len = 0, PyHeader(len)) /\ cd' = CHeader(len)
  /\ phase' = "trees"
  /\ UNCHANGED split

(* The bits Python has buffered behind the header decide where align16     *)
(* goes; with none, or just one byte, it goes elsewhere than C.            *)
OpenStored(len, stored) ==
  LET p == PyHeader(len)
  IN /\ OpenBlock(Stored, len)
     /\ py' = PyFailIf(len = 0, [PyStored(p) EXCEPT !.reps = stored])
     /\ cd' = [CStored(CHeader(len)) EXCEPT !.reps = stored]
     /\ split' = IF p.bits.avail \in {0, 8} THEN "boundary" ELSE split
     /\ phase' = "next"

OpenInvalid(len) ==
  /\ OpenBlock(0, len)
  /\ py' = PyFail(PyHeader(len)) /\ cd' = CFailIf(TRUE, CHeader(len))
  /\ UNCHANGED <<phase, split>>

(* The aligned tree, the pretrees and the code lengths: fields of a fixed  *)
(* width and symbols of a pretree.                                         *)
Trees(p, c, next) ==
  /\ Live /\ phase = "trees"
  /\ py' = [py EXCEPT !.bits = p] /\ cd' = [cd EXCEPT !.bits = c] /\ phase' = next
  /\ UNCHANGED <<size, total, block, produced, goal, opened, split>>

TreeField(n) == Trees(PyRead(py.bits, size, n), CRead(cd.bits, size, n), "trees")
TreeSymbol(code) == Trees(PySymbol(py.bits, size, code), CSymbol(cd.bits, size, code), "trees")
TreesBuilt == Trees(py.bits, cd.bits, "next")

-----------------------------------------------------------------------------
PyRun(p) == Least(p.rem, goal - p.out)
CRun(c) == Least(c.rem, CGoal - c.out)

AtRun == Live /\ phase = "next" /\ ~FrameFull /\ py.rem > 0

PyBeginWhole(p) == [p EXCEPT !.run = PyRun(p)]
PyBegin(p) == [p EXCEPT !.run = PyRun(p), !.rem = @ - PyRun(p)]

BeginRun ==
  /\ AtRun /\ block.type # Stored
  /\ py' = PyBegin(py)
  /\ cd' = [cd EXCEPT !.run = CRun(cd), !.rem = @ - CRun(cd)]
  /\ phase' = IF PyRun(py) > 0 THEN "run" ELSE "next"
  /\ UNCHANGED <<size, total, block, produced, goal, opened, split>>

(* Up to two bytes that are missing at the end are taken as zeros. The     *)
(* chunk is then all that is missing, also when an earlier chunk was short.*)
PyCopy(p) ==
  LET end == p.upos + PyRun(p)
      missing == end - size
      chunk == IF missing <= 0 THEN PyRun(p)
               ELSE missing + IF p.upos < size THEN size - p.upos ELSE 0
  IN PyFailIf(missing > 2, [p EXCEPT !.upos = end, !.rem = @ - PyRun(p), !.out = @ + chunk])
CCopy(c) ==
  [c EXCEPT !.bits = CAdvance(@, size, CRun(c)), !.rem = @ - CRun(c), !.out = @ + CRun(c)]

CopyStored ==
  /\ AtRun /\ block.type = Stored
  /\ py' = PyCopy(py) /\ cd' = CCopy(cd)
  /\ split' = IF py.upos > size THEN "short" ELSE split
  /\ UNCHANGED <<size, total, phase, block, produced, goal, opened>>

-----------------------------------------------------------------------------
AtToken == Live /\ phase = "run"
AfterToken == phase' = IF py'.run > 0 THEN "run" ELSE "next"

Literal(code) ==
  /\ AtToken
  /\ py' = [py EXCEPT !.bits = PySymbol(@, size, code), !.out = @ + 1, !.run = @ - 1]
  /\ cd' = [cd EXCEPT !.bits = CSymbol(@, size, code), !.out = @ + 1, !.run = @ - 1]
  /\ AfterToken
  /\ UNCHANGED <<size, total, block, produced, goal, opened, split>>

(* The symbol, the length footer, then the offset's bits, the last three   *)
(* of which an aligned block has as a symbol.                              *)
PyOffsetBits(r, m) ==
  LET extra == PyExtraBits(m.slot)
  IN IF block.type = Aligned /\ extra >= 3
     THEN PySymbol(PyRead(r, size, extra - 3), size, m.code)
     ELSE PyRead(r, size, extra)
COffsetBits(r, m) ==
  LET extra == CExtraBits(m.slot)
  IN IF block.type = Aligned /\ extra >= 3
     THEN CSymbol(CRead(r, size, extra - 3), size, m.code)
     ELSE CRead(r, size, extra)

PyMatchBits(r, m) ==
  LET main == PySymbol(r, size, m.code)
  IN PyOffsetBits(IF m.footer THEN PySymbol(main, size, m.code) ELSE main, m)
CMatchBits(r, m) ==
  LET main == CSymbol(r, size, m.code)
  IN COffsetBits(IF m.footer THEN CSymbol(main, size, m.code) ELSE main, m)

(* Python checks the block and the frame before it copies.                 *)
PyMatch(p, m) ==
  LET overrun == m.len - p.run
  IN PyFailIf(overrun > p.rem \/ p.out + m.len > goal,
       [p EXCEPT !.bits = PyMatchBits(@, m), !.out = @ + m.len, !.run = @ - m.len,
                 !.rem = IF overrun > 0 THEN @ - overrun ELSE @,
                 !.reps = Requeue(@, m.slot, PyOffset(block.type, m))])

(* C checks the window before it copies, and the block after the run.      *)
CReps(m) == Requeue(cd.reps, m.slot, COffset(block.type, m))
TooFar(m) == CReps(m)[1] > cd.out + Window
CMatch(c, m) ==
  LET overrun == m.len - c.run
  IN CFailIf(c.out + m.len > Window \/ TooFar(m) \/ overrun > c.rem,
       [c EXCEPT !.bits = CMatchBits(@, m), !.out = @ + m.len, !.run = @ - m.len,
                 !.rem = IF overrun > 0 THEN @ - overrun ELSE @,
                 !.reps = CReps(m)])

Match(m) ==
  /\ AtToken
  /\ py' = PyMatch(py, m) /\ cd' = CMatch(cd, m)
  /\ split' = IF TooFar(m) THEN "reach" ELSE split
  /\ AfterToken
  /\ UNCHANGED <<size, total, block, produced, goal, opened>>

-----------------------------------------------------------------------------
(* Both align to a word at the end of a frame. C has one frame more, of    *)
(* length zero, if the length is a whole number of frames.                 *)
CFrames(r) ==
  IF produced + FrameSize = total /\ total % Frame = 0
  THEN CFrameAlign(CFrameAlign(r, size), size) ELSE CFrameAlign(r, size)

EndFrame ==
  /\ Live /\ phase = "next" /\ FrameFull
  /\ py' = [py EXCEPT !.bits = PyFrameAlign(@, size)]
  /\ cd' = [cd EXCEPT !.bits = CFrames(@)]
  /\ produced' = produced + FrameSize
  /\ goal' = py.out + Least(Frame, total - produced')
  /\ phase' = IF produced' = total THEN "done" ELSE "next"
  /\ UNCHANGED <<size, total, block, opened, split>>

Next ==
  \/ \E intel \in BOOLEAN : Start(intel)
  \/ \E type \in {Verbatim, Aligned}, len \in BlockLengths : OpenCompressed(type, len)
  \/ \E len \in BlockLengths, stored \in HeaderOffsets : OpenStored(len, stored)
  \/ \E len \in BlockLengths : OpenInvalid(len)
  \/ \E n \in TreeReads : TreeField(n)
  \/ \E code \in Codes : TreeSymbol(code)
  \/ TreesBuilt
  \/ BeginRun
  \/ CopyStored
  \/ \E code \in Codes : Literal(code)
  \/ \E m \in Matches : Match(m)
  \/ EndFrame

(* One thread decodes; it is never suspended for good.                     *)
Spec == Init /\ [][Next]_vars /\ WF_vars(Next)

-----------------------------------------------------------------------------
TypeOK ==
  /\ size \in StreamSizes /\ total \in Totals
  /\ phase \in {"start", "next", "trees", "run", "done"}
  /\ produced \in 0..total
  /\ PyOk => py.bits.avail \in 0..32 /\ py.rem \in Nat /\ py.run \in Nat
  /\ COk => cd.bits.left \in 0..32 /\ cd.rem \in Nat
  /\ split \in {"none", "boundary", "reach", "short"}

(* lzx.py stands in for the compiled decoder: as long as Python decodes, C *)
(* decodes too and both stand at the same bit of the stream, at the same   *)
(* place of block, run and frame, with the same three repeated offsets.    *)
(* Except behind a stored block whose header leaves Python's buffer empty  *)
(* or with one byte, where a match reaches back by more than a window, and *)
(* where a stored block goes on in the next frame with the input at its    *)
(* end already (decompress in both).                                       *)
Lockstep ==
  PyOk => /\ InStep \/ split # "none"
          /\ py.reps = cd.reps

(* What was put out is what the block and the run have given so far, and   *)
(* no run, chunk or match leaves the frame: the three lengths are counted  *)
(* down together. Only zeros for input that is missing may be too many     *)
(* (decompress, lines 353 to 441).                                         *)
BlockCounted ==
  PyOk /\ py.upos <= size =>
    /\ py.out = opened + block.len - py.rem - py.run
    /\ py.out <= goal

(* A stream that decodes was all there: nothing is made of bits behind its *)
(* end, but for up to two bytes of a stored block (peek, line 359).        *)
NothingBehindTheEnd ==
  PyOk => PyAt <= 8 * size \/ (block.type = Stored /\ PyAt <= 8 * (size + 2))

(* Every call returns or raises: each step takes input or puts out bytes.  *)
Ends == <>(phase = "done" \/ ~Live)

(* The slot tables that lzx.py and lzxd.c each make are the same: every    *)
(* slot from 3 on takes the same bits to the same offset in both kinds of  *)
(* block, and windows of 32 KB to 2 MB have as many slots as reach to their*)
(* last offset (_build_position_tables; lzxd_static_init).                 *)
SlotsAgree ==
  phase = "start" =>
    /\ \A slot \in 3..49, ones \in BOOLEAN, type \in {Verbatim, Aligned} :
         LET m == [slot |-> slot, ones |-> ones]
         IN PyExtraBits(slot) = CExtraBits(slot) /\ PyOffset(type, m) = COffset(type, m)
    /\ \A bits \in 15..21 :
         /\ PySlots(bits) = 0..(CPosnSlots(bits) - 1)
         /\ CPositionBase[CPosnSlots(bits)] = 2^bits

(* lzx.py:2: "drop-in for calibre's compiled lzx C extension": both take   *)
(* the data of a stored block from the same byte on.                       *)
AlignAgrees == PyOk /\ block.type = Stored => PyAt = CAt

=============================================================================
