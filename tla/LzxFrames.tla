-------------------------------- MODULE LzxFrames -------------------------------
(***************************************************************************)
(* The bytes of one LZX call: literals and matches fill the window, and at *)
(* the end of a frame the window's bytes are put out, the targets of E8    *)
(* calls translated. lzxd.c translates a copy of the window, lzx.py its    *)
(* output, which it keeps beside the window.                               *)
(*                                                                         *)
(* Both take the same tokens, those that stay within the frame (module     *)
(* LzxDecoders has the others). An operand is one byte of Base values; it  *)
(* has four of 256 in the code.                                            *)
(***************************************************************************)
EXTENDS LzxTranslation, Sequences

CONSTANTS
  FrameLength,  \* LZX_FRAME_SIZE
  WindowLength, \* window_size, some frames
  TailLength,   \* the end of a frame without translation: 10 bytes
  LastE8Frame,  \* 32768
  Bytes,        \* literals
  Lengths, Distances,   \* of matches
  FileSizes,    \* E8 file size field, as an unsigned number
  Totals        \* uncomp_len

ASSUME FramesAssumption ==
  /\ Base \in Nat \ {0} /\ Base % 2 = 0 /\ E8 \in Bytes /\ Bytes \subseteq 0..(Base - 1)
  /\ FrameLength \in Nat \ {0} /\ WindowLength \in Nat \ {0} /\ WindowLength % FrameLength = 0
  /\ TailLength \in Nat \ {0, 1} /\ LastE8Frame \in Nat
  /\ Lengths \subseteq Nat \ {0} /\ Distances \subseteq Nat \ {0}
  /\ Totals \subseteq Nat \ {0} /\ FileSizes \subseteq 0..(Base - 1)

VARIABLES
  total, filesize,   \* the call
  started,           \* intel_started
  cwin, posn,        \* lzxd.c: window, window_posn
  curpos,            \* intel_curpos
  written,           \* what went to write()
  pwin, out,         \* lzx.py: window (at wpos = posn), out
  frame,             \* frames put out
  plain,             \* history: the bytes as the tokens say
  early              \* history: a match reached before the first byte

framevars ==
  <<total, filesize, started, cwin, posn, curpos, written, pwin, out, frame, plain, early>>

Unset == -1   \* not initialised (C), or left by an earlier call (Python)
Produced == frame * FrameLength
FrameSize == IF total - Produced < FrameLength THEN total - Produced ELSE FrameLength
InFrame == Len(plain) - Produced

FramesInit ==
  /\ total \in Totals /\ filesize \in FileSizes
  /\ started \in BOOLEAN
  /\ cwin = [i \in 1..WindowLength |-> Unset] /\ pwin = [i \in 1..WindowLength |-> Unset]
  /\ posn = 0 /\ curpos = 0 /\ frame = 0
  /\ written = <<>> /\ out = <<>> /\ plain = <<>>
  /\ early = FALSE

(* The next block has a code for E8, or is stored. *)
StartE8 ==
  /\ ~started /\ frame * FrameLength < total
  /\ started' = TRUE
  /\ UNCHANGED <<total, filesize, cwin, posn, curpos, written, pwin, out, frame, plain, early>>

-----------------------------------------------------------------------------
Room == FrameSize - InFrame

Literal(b) ==
  /\ Room >= 1
  /\ cwin' = [cwin EXCEPT ![posn + 1] = b] /\ pwin' = [pwin EXCEPT ![posn + 1] = b]
  /\ out' = Append(out, b) /\ plain' = Append(plain, b)
  /\ posn' = posn + 1
  /\ UNCHANGED <<total, filesize, started, curpos, written, frame, early>>

(* C copies in one run or, over the window's edge, in two.                 *)
CSourceNoRestart(i, off) ==
  IF off > posn
  THEN LET j == off - posn IN IF i < j THEN WindowLength - j + i ELSE i
  ELSE posn - off + i
CSource(i, off) ==
  IF off > posn
  THEN LET j == off - posn IN IF i < j THEN WindowLength - j + i ELSE i - j
  ELSE posn - off + i

CCopy(len, off) ==
  LET copy[i \in 0..len] ==
        IF i = 0 THEN cwin
        ELSE [copy[i - 1] EXCEPT ![posn + i] = copy[i - 1][CSource(i - 1, off) + 1]]
  IN copy[len]

(* Python takes a slice if nothing wraps or overlaps.                      *)
PyCopy(len, off) ==
  LET src == (posn - off) % WindowLength
      copy[i \in 0..len] ==
        IF i = 0 THEN pwin
        ELSE [copy[i - 1] EXCEPT ![((posn + i - 1) % WindowLength) + 1] =
                                  copy[i - 1][((src + i - 1) % WindowLength) + 1]]
  IN IF off >= len /\ src + len <= WindowLength /\ posn + len <= WindowLength
     THEN SubSeq(pwin, 1, posn) \o SubSeq(pwin, src + 1, src + len)
            \o SubSeq(pwin, posn + len + 1, WindowLength)
     ELSE copy[len]

(* What a match means: each byte is the one off bytes before it.           *)
Extended(len, off) ==
  LET ext[i \in 0..len] ==
        IF i = 0 THEN plain
        ELSE Append(ext[i - 1], IF Len(ext[i - 1]) < off THEN Unset
                                ELSE ext[i - 1][Len(ext[i - 1]) + 1 - off])
  IN ext[len]

Match(len, off) ==
  /\ Room >= len /\ off <= WindowLength
  /\ cwin' = CCopy(len, off) /\ pwin' = PyCopy(len, off)
  /\ out' = out \o SubSeq(pwin', posn + 1, posn + len)
  /\ plain' = Extended(len, off)
  /\ posn' = posn + len
  /\ early' = (early \/ off > Len(plain))
  /\ UNCHANGED <<total, filesize, started, curpos, written, frame>>

-----------------------------------------------------------------------------
(* Operands are looked at as long as opcode and operand end in front of    *)
(* the tail; an operand is not searched for opcodes.                       *)
Translated(bytes, from, size) ==
  LET scan[i \in 0..(Len(bytes) - TailLength)] ==   \* the bytes behind i steps, and where they led
        IF i = 0 THEN [bytes |-> bytes, pos |-> 0]
        ELSE LET s == scan[i - 1]
                 operand == s.bytes[s.pos + 2]
             IN IF s.pos >= Len(bytes) - TailLength THEN s
                ELSE IF s.bytes[s.pos + 1] # E8 THEN [s EXCEPT !.pos = @ + 1]
                ELSE [bytes |-> [s.bytes EXCEPT ![s.pos + 2] =
                                   Operand(operand, from + s.pos, size)],
                      pos |-> s.pos + 2]
  IN scan[Len(bytes) - TailLength].bytes

CFrame == LET at == Produced % WindowLength IN SubSeq(cwin, at + 1, at + FrameSize)
CPut ==
  IF started /\ filesize # 0 /\ frame <= LastE8Frame /\ FrameSize > TailLength
  THEN Translated(CFrame, curpos, Signed(filesize)) ELSE CFrame

PyFrame == SubSeq(out, Produced + 1, Produced + FrameSize)
PyPut ==
  IF started /\ filesize # 0 /\ frame < LastE8Frame /\ FrameSize > TailLength
  THEN Translated(PyFrame, Produced, filesize) ELSE PyFrame

CountedStarted == IF started /\ filesize # 0 THEN curpos + FrameSize ELSE curpos
Counted == IF filesize # 0 THEN curpos + FrameSize ELSE curpos

PutFrame ==
  /\ Produced < total /\ Room = 0
  /\ written' = written \o CPut
  /\ out' = SubSeq(out, 1, Produced) \o PyPut
  /\ curpos' = Counted
  /\ frame' = frame + 1
  /\ posn' = IF posn = WindowLength THEN 0 ELSE posn
  /\ UNCHANGED <<total, filesize, started, cwin, pwin, plain, early>>

FramesNext ==
  \/ StartE8
  \/ \E b \in Bytes : Literal(b)
  \/ \E len \in Lengths, off \in Distances : Match(len, off)
  \/ PutFrame

FramesSpec == FramesInit /\ [][FramesNext]_framevars

-----------------------------------------------------------------------------
(* Matches copy from what the tokens said, never from translated output:   *)
(* both windows hold the plain bytes, however a match overlaps itself or   *)
(* the window's edge (lzxd.c 658 to 680, lzx.py 423 to 440).               *)
WindowsArePlain ==
  ~early => \A i \in 1..Len(plain) : i > Len(plain) - WindowLength =>
    LET at == ((i - 1) % WindowLength) + 1 IN cwin[at] = plain[i] /\ pwin[at] = plain[i]

(* Both decoders put out the same bytes, frame for frame, translated at    *)
(* the same places by the same amount, although one counts curpos and the  *)
(* other takes the place in the output. Except where a match reaches back  *)
(* before the first byte (neither window is cleared for a call),           *)
(* from frame 32768 on, and with a file size that is negative for C.       *)
SameBytes ==
  ~early /\ frame <= LastE8Frame /\ 2 * filesize < Base =>
    written = SubSeq(out, 1, Len(written))

=============================================================================
