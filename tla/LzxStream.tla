------------------------------- MODULE LzxStream -------------------------------
(***************************************************************************)
(* The life of an lzxd_stream (lzxd.c, lzxd.h): lzxd_init, any sequence of *)
(* lzxd_decompress calls for some bytes each, lzxd_free. A call decodes    *)
(* whole frames; what a frame has too much stays behind o_ptr, in the      *)
(* window or in e8_buf, for the next call.                                 *)
(*                                                                         *)
(* A byte is its place in the stream. Bits, codes and tokens are in module *)
(* LzxDecoders, the translation in LzxFrames. The stream is chosen while   *)
(* it is decoded, sound or not.                                            *)
(***************************************************************************)
EXTENDS Integers, Sequences

CONSTANTS
  Frame,         \* LZX_FRAME_SIZE
  Window,        \* window_size, some frames
  TailBytes,     \* 10
  E8Frames,      \* 32768
  Streams,       \* [total, interval, empty]: bytes in the input, reset_interval, and
                 \* for how many blocks of no bytes the input's bits last
  BlockLengths,  \* 24 bits of a block's header; 0 is not refused
  MaxSpill,      \* LZX_MAX_MATCH - 1
  Asks           \* out_bytes, may be negative

ASSUME StreamAssumption ==
  /\ Frame \in Nat \ {0} /\ Window \in Nat \ {0} /\ Window % Frame = 0
  /\ MaxSpill \in 0..(Frame - 1) /\ TailBytes \in Nat /\ E8Frames \in Nat
  /\ Streams \subseteq [total : Nat \ {0}, interval : Nat, empty : Nat]
  /\ BlockLengths \subseteq Nat /\ Asks \subseteq Int

VARIABLES
  heap,     \* what system->alloc gave and nobody freed
  handle,   \* the caller has a pointer to the stream, not NULL
  src,      \* the input: total, interval, and what is left of empty; decoded: bytes
            \* taken from it so far;
            \* history sound: well-formed, callbacks worked, no call for more than it has
  lzx,      \* struct lzxd_stream, without the buffers
  window,
  held,     \* o_ptr to o_end: buf ("window", "e8_buf"), first byte at, n; and e8_buf's bytes
  call,     \* locals of lzxd_decompress: pc, left (out_bytes), end (end_frame),
            \* size (frame_size), todo (bytes_todo), R (R0 to R2)
  room,     \* the output file: bytes it takes, or AnyRoom: it may fail at any time
  output,   \* bytes it took
  answer    \* of the last call that returned

vars == <<heap, handle, src, lzx, window, held, call, room, output, answer>>

Parts == {"state", "window", "inbuf"}
Junk == 0
AnyRoom == -1
Ones == "1, 1, 1"
Offsets == {Ones, "other"}

Smaller(a, b) == IF a < b THEN a ELSE b

NoStream == [total |-> 0, interval |-> 0, empty |-> 0, decoded |-> 0, sound |-> TRUE]
Fresh == [length |-> 0, offset |-> 0, frame |-> 0, frame_posn |-> 0, window_posn |-> 0,
          block |-> 0, stored |-> FALSE, filesize |-> FALSE, started |-> FALSE,
          header |-> FALSE, error |-> FALSE, R |-> Ones]
Nothing == [buf |-> "e8_buf", at |-> 0, n |-> 0, e8 |-> <<>>]
NoCall == [pc |-> "idle", left |-> 0, end |-> 0, size |-> 0, todo |-> 0, R |-> Ones]

Blank(n) == [i \in 1..n |-> Junk]

Init ==
  /\ heap = {} /\ handle = FALSE
  /\ src = NoStream /\ lzx = Fresh /\ window = Blank(Window)
  /\ held = Nothing /\ call = NoCall
  /\ room = AnyRoom /\ output = <<>>
  /\ answer = "none"

-----------------------------------------------------------------------------
FreedOnFailureNoInbuf == {"state", "window"}
FreedOnFailure == Parts

(* Refused arguments ask for no memory; without the state nothing else is  *)
(* asked for.                                                              *)
InitStream(valid, got, s, length, r) ==
  /\ ~handle
  /\ handle' = (valid /\ got = Parts)
  /\ heap' = IF ~valid \/ "state" \notin got THEN heap
             ELSE IF got = Parts THEN heap \cup Parts
             ELSE (heap \cup got) \ FreedOnFailure
  /\ IF handle'
     THEN /\ src' = [NoStream EXCEPT !.total = s.total, !.interval = s.interval, !.empty = s.empty]
          /\ lzx' = [Fresh EXCEPT !.length = length]
          /\ room' = r
          /\ answer' = "none"
     ELSE /\ answer' = "null"
          /\ UNCHANGED <<src, lzx, room>>
  /\ UNCHANGED <<window, held, call, output>>

SetOutputLength ==
  /\ handle /\ call.pc = "idle" /\ ~lzx.error /\ lzx.length = 0
  /\ lzx' = [lzx EXCEPT !.length = src.total]
  /\ UNCHANGED <<heap, handle, src, window, held, call, room, output, answer>>

Free ==
  /\ handle /\ call.pc = "idle"
  /\ heap' = heap \ Parts /\ handle' = FALSE
  /\ src' = NoStream /\ lzx' = Fresh /\ window' = Blank(Window)
  /\ held' = Nothing /\ call' = NoCall
  /\ room' = AnyRoom /\ output' = <<>>
  /\ UNCHANGED answer

-----------------------------------------------------------------------------
(* return lzx->error = ... *)
Error ==
  /\ lzx' = [lzx EXCEPT !.error = TRUE]
  /\ call' = NoCall
  /\ answer' = "failed"

(* How many of n bytes write() takes; -1 is its own error.                 *)
Takes(n) == IF room = AnyRoom THEN -1..n ELSE {Smaller(n, room - Len(output))}

HeldBytesFromFirst(n) == SubSeq(IF held.buf = "window" THEN window ELSE held.e8, 1, n)
HeldBytes(n) ==
  SubSeq(IF held.buf = "window" THEN window ELSE held.e8, held.at + 1, held.at + n)

Unsound(cond) == src' = [src EXCEPT !.sound = @ /\ ~cond]

EndFrameOf(offset) == (offset \div Frame) + 1

(* The entry of lzxd_decompress: refusals, and the bytes that are left     *)
(* from the last call, which may be all it needs.                          *)
Decompress(n) ==
  /\ handle /\ call.pc = "idle"
  /\ \/ /\ n < 0 /\ answer' = "args"
        /\ UNCHANGED <<src, lzx, held, call, output>>
     \/ /\ n >= 0 /\ lzx.error /\ answer' = "failed"
        /\ UNCHANGED <<src, lzx, held, call, output>>
     \/ /\ n >= 0 /\ ~lzx.error
        /\ LET i == Smaller(held.n, n)
               rest == n - i
           IN \E took \in IF i = 0 THEN {0} ELSE Takes(i) :
                /\ output' = output \o HeldBytes(took)
                /\ Unsound(took # i \/ lzx.offset + n > src.total)
                /\ \/ took # i /\ Error /\ UNCHANGED held
                   \/ /\ took = i
                      /\ held' = [held EXCEPT !.at = @ + i, !.n = @ - i]
                      /\ lzx' = [lzx EXCEPT !.offset = @ + i]
                      /\ answer' = IF rest = 0 THEN "ok" ELSE "none"
                      /\ call' = IF rest = 0 THEN NoCall
                                 ELSE [NoCall EXCEPT !.pc = "frame", !.left = rest, !.R = lzx.R,
                                         !.end = EndFrameOf(lzx.offset + i + rest)]
  /\ UNCHANGED <<heap, handle, window, room>>

-----------------------------------------------------------------------------
AtReset == src.interval # 0 /\ lzx.frame % src.interval = 0
NeedsHeader == AtReset \/ ~lzx.header
AtEnd == src.decoded >= src.total

(* lzxd_reset_state *)
Reset(m) == [m EXCEPT !.R = Ones, !.header = FALSE, !.block = 0, !.stored = FALSE]

(* The last frame is shorter, if the length is known.                      *)
FrameSizeWhole(m) == Frame
FrameSizeOf(m) ==
  IF m.length # 0 /\ m.length - m.offset < Frame THEN m.length - m.offset ELSE Frame

(* Behind the input's end the header is read from the two bytes faked.     *)
StartFrame ==
  /\ call.pc = "frame" /\ lzx.frame < call.end
  /\ \/ AtReset /\ lzx.block # 0 /\ Error
     \/ /\ AtReset => lzx.block = 0
        /\ \E filesize \in IF ~NeedsHeader THEN {lzx.filesize} ELSE {FALSE, ~AtEnd} :
             lzx' = [(IF AtReset THEN Reset(lzx) ELSE lzx) EXCEPT !.filesize = filesize, !.header = TRUE]
        /\ call' = [call EXCEPT !.pc = "blocks", !.size = FrameSizeOf(lzx),
                      !.todo = lzx.frame_posn + FrameSizeOf(lzx) - lzx.window_posn]
        /\ UNCHANGED answer
  /\ UNCHANGED <<heap, handle, src, window, held, room, output>>

InBlocks == call.pc = "blocks" /\ call.todo > 0

(* Blocks of a sound stream end where it ends, and none goes over a reset. *)
Fits(len) ==
  /\ src.decoded + len <= src.total
  /\ src.interval # 0 /\ len > 0 =>
       LET span == src.interval * Frame
       IN src.decoded \div span = (src.decoded + len - 1) \div span

(* A header takes more than 27 bits: those of the input come to an end.    *)
TakeHeader(len) ==
  /\ len = 0 => src.empty > 0
  /\ src' = [src EXCEPT !.sound = @ /\ Fits(len), !.empty = IF len = 0 THEN @ - 1 ELSE @]

(* stored: LZX_BLOCKTYPE_UNCOMPRESSED, which brings its own offsets; e8:   *)
(* the main tree has a code for 0xE8. Behind a block of no bytes the next  *)
(* header is read.                                                         *)
OpenBlock(len, stored, e8) ==
  /\ InBlocks /\ lzx.block = 0
  /\ \/ AtEnd /\ Error /\ UNCHANGED src
     \/ /\ ~AtEnd
        /\ TakeHeader(len)
        /\ lzx' = [lzx EXCEPT !.block = len, !.stored = stored, !.started = @ \/ stored \/ e8]
        /\ \E R \in IF stored THEN Offsets ELSE {call.R} : call' = [call EXCEPT !.R = R]
        /\ UNCHANGED answer
  /\ UNCHANGED <<heap, handle, window, held, room, output>>

(* One run: to the end of the block or of the frame, and `spill` bytes     *)
(* further if the last match goes on behind it.                            *)
Run(spill) ==
  LET run == Smaller(lzx.block, call.todo)
      n == run + spill
      inWindow == lzx.window_posn + n <= Window
      inBlock == n <= lzx.block
      inInput == src.decoded + n <= src.total
  IN
  /\ InBlocks /\ lzx.block > 0
  /\ lzx.stored => spill = 0
  /\ \/ /\ ~(inWindow /\ inBlock /\ inInput)
        /\ Error
        /\ Unsound(TRUE)
        /\ UNCHANGED window
     \/ /\ inWindow /\ inBlock /\ inInput
        /\ src' = [src EXCEPT !.decoded = @ + n]
        /\ window' = [i \in 1..Window |->
                        IF i - lzx.window_posn \in 1..n
                        THEN src.decoded + i - lzx.window_posn ELSE window[i]]
        /\ lzx' = [lzx EXCEPT !.window_posn = @ + n, !.block = @ - n]
        /\ \E R \in IF lzx.stored THEN {call.R} ELSE {call.R, "other"} :
             call' = [call EXCEPT !.todo = @ - run, !.R = R]
        /\ UNCHANGED answer
  /\ UNCHANGED <<heap, handle, held, room, output>>

-----------------------------------------------------------------------------
WrappedLate(posn) == IF posn > Window THEN 0 ELSE posn
Wrapped(posn) == IF posn = Window THEN 0 ELSE posn

(* Realigning wants 16 bits if any are left: too many where the header is  *)
(* all there was, and faked.                                               *)
HeaderOnly == AtReset /\ call.size = 0

NextFrameFull == IF call.size = 0 THEN lzx.frame ELSE lzx.frame + 1
NextFrame == lzx.frame + 1

HeldFrame ==
  LET bytes == SubSeq(window, lzx.frame_posn + 1, lzx.frame_posn + call.size)
  IN IF /\ lzx.started /\ lzx.filesize
        /\ lzx.frame <= E8Frames /\ call.size > TailBytes
     THEN [buf |-> "e8_buf", at |-> 0, n |-> call.size, e8 |-> bytes]
     ELSE [buf |-> "window", at |-> lzx.frame_posn, n |-> call.size, e8 |-> held.e8]

EndFrame ==
  /\ call.pc = "blocks" /\ call.todo <= 0
  /\ \/ /\ HeaderOnly \/ held.n # 0
        /\ Error
        /\ UNCHANGED <<src, held, output>>
     \/ /\ ~HeaderOnly /\ held.n = 0
        /\ LET i == Smaller(call.left, call.size)
               frame == SubSeq(window, lzx.frame_posn + 1, lzx.frame_posn + call.size)
           IN \E took \in Takes(i) :
                /\ output' = output \o SubSeq(frame, 1, took)
                /\ Unsound(took # i)
                /\ \/ took # i /\ Error /\ UNCHANGED held
                   \/ /\ took = i
                      /\ held' = [HeldFrame EXCEPT !.at = @ + i, !.n = @ - i]
                      /\ lzx' = [lzx EXCEPT !.offset = @ + i, !.frame = NextFrame,
                                   !.frame_posn = Wrapped(@ + call.size),
                                   !.window_posn = Wrapped(@)]
                      /\ call' = [call EXCEPT !.pc = "frame", !.left = @ - i]
                      /\ UNCHANGED answer
  /\ UNCHANGED <<heap, handle, window, room>>

FinishCall ==
  /\ call.pc = "frame" /\ lzx.frame >= call.end
  /\ \/ call.left # 0 /\ Error
     \/ /\ call.left = 0
        /\ lzx' = [lzx EXCEPT !.R = call.R]
        /\ call' = NoCall
        /\ answer' = "ok"
  /\ UNCHANGED <<heap, handle, src, window, held, room, output>>

(* Wherever it reads, a call may meet the end of the input, a read() that  *)
(* fails, or bits that mean nothing.                                       *)
BadInput ==
  /\ \/ call.pc = "frame" /\ lzx.frame < call.end /\ NeedsHeader
     \/ call.pc = "blocks"
  /\ Error
  /\ Unsound(TRUE)
  /\ UNCHANGED <<heap, handle, window, held, room, output>>

Blocks == \E len \in BlockLengths, stored, e8 \in BOOLEAN : OpenBlock(len, stored, e8)
Runs == \E spill \in 0..MaxSpill : Run(spill)

(* The steps of a call, once it has begun.                                 *)
Within == StartFrame \/ Blocks \/ Runs \/ EndFrame \/ FinishCall \/ BadInput

(* What a program may do with the functions of lzxd.h.                     *)
Library ==
  \/ \E valid \in BOOLEAN, got \in SUBSET Parts, s \in Streams :
       \E length \in {0, s.total} : InitStream(valid, got, s, length, AnyRoom)
  \/ SetOutputLength
  \/ \E n \in Asks : Decompress(n)
  \/ Free

Next == Library \/ Within

Spec == Init /\ [][Next]_vars /\ WF_vars(Within)

-----------------------------------------------------------------------------
TypeOK ==
  /\ heap \subseteq Parts /\ handle \in BOOLEAN
  /\ lzx.frame_posn \in {k \in 0..(Window - 1) : k % Frame = 0 \/ lzx.length # 0}
  /\ lzx.window_posn \in 0..Window /\ lzx.block \in Nat
  /\ held.n \in 0..Frame /\ held.at \in 0..Window
  /\ call.pc \in {"idle", "frame", "blocks"} /\ call.size \in 0..Frame
  /\ call.todo \in -MaxSpill..Frame /\ call.left \in Nat
  /\ answer \in {"none", "null", "args", "ok", "failed"}

(* However calls cut up the output and whatever buffer the bytes wait in,  *)
(* they come out in order, each once, and a call answers when its bytes    *)
(* are out (the loop of lzxd_decompress, 503 to 892).                      *)
Promise == INSTANCE ByteStream WITH
  Asks <- Asks \cap Nat,
  status <- IF ~handle THEN "closed" ELSE IF lzx.error THEN "failed" ELSE "open",
  delivered <- output,
  owed <- call.left
Delivers == Promise!Spec

(* Every way out of lzxd_init and lzxd_free leaves the allocations that a  *)
(* caller can still reach, and no others.                                  *)
NothingLeaks == heap = IF handle THEN Parts ELSE {}

(* A sound stream whose length is known is decoded, however it is cut up:  *)
(* with runs that end in the next frame, frames of a call before, a window *)
(* that wraps. Not where the end of the stream is a reset point: there the *)
(* frame behind the end wants a header that is not there.                  *)
EndsAtReset == src.interval # 0 /\ src.total % (src.interval * Frame) = 0
SoundAnswered == src.sound /\ lzx.length # 0 /\ ~EndsAtReset => ~lzx.error

(* "output_length ... is not otherwise used or adhered to" (lzxd.h): not   *)
(* setting it costs no more than some bytes of the E8 translation.         *)
LengthNotNeeded == src.sound /\ ~EndsAtReset => ~lzx.error

(* A frame at a reset point is begun with the state lzxd_reset_state sets. *)
ResetForgets ==
  [][AtReset /\ call.pc = "frame" /\ call'.pc = "blocks" => call'.R = Ones]_vars

=============================================================================
