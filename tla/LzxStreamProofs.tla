---------------------------- MODULE LzxStreamProofs ----------------------------
(* What a stream's caller can rely on, for every frame and window size,    *)
(* every input and every sequence of calls, with callbacks that may fail   *)
(* at any time: the bytes come out in order and once, and nothing leaks.   *)
EXTENDS LzxModule, LzxFrames, SequenceTheorems, Iteration, TLAPS

Sources == [total : Nat, interval : Nat, empty : Nat, decoded : Nat, sound : BOOLEAN]
Structs ==
  [length : Nat, offset : Nat, frame : Nat, frame_posn : Nat, window_posn : Nat, block : Nat,
   stored : BOOLEAN, filesize : BOOLEAN, started : BOOLEAN, header : BOOLEAN, error : BOOLEAN,
   R : Offsets]
Waiting == [buf : {"window", "e8_buf"}, at : Nat, n : Nat, e8 : Seq(Nat)]
Calls ==
  [pc : {"idle", "frame", "blocks"}, left : Nat, end : Int, size : Nat, todo : Int, R : Offsets]

StreamTypes ==
  /\ handle \in BOOLEAN
  /\ src \in Sources /\ lzx \in Structs /\ held \in Waiting /\ call \in Calls
  /\ window \in [1..Window -> Nat] /\ room \in Int /\ output \in Seq(Nat)

(* A stream that was freed, or was never made, left nothing behind.        *)
FreedIsEmpty == ~handle => output = <<>> /\ call.pc = "idle" /\ held = Nothing

CallInv ==
  /\ call.pc = "idle" => call = NoCall
  /\ call.pc # "idle" => handle /\ ~lzx.error /\ \E n \in Asks : n \in Nat

(* The bytes of the frames that are finished.                              *)
FrameStart == lzx.offset + held.n

Buffer == IF held.buf = "window" THEN window ELSE held.e8
HeldInOrder == \A j \in 1..held.n : Buffer[held.at + j] = lzx.offset + j

(* The window has, from frame_posn on, what was decoded of this frame, and *)
(* of the next one if the last match went on.                              *)
Ahead == (IF call.pc = "blocks" THEN call.size ELSE 0) + MaxSpill
Placed ==
  /\ lzx.frame_posn % Frame = 0
  /\ lzx.window_posn - lzx.frame_posn \in 0..Ahead
  /\ src.decoded = FrameStart + lzx.window_posn - lzx.frame_posn
  /\ \A j \in 1..(lzx.window_posn - lzx.frame_posn) :
       window[lzx.frame_posn + j] = FrameStart + j

(* Behind a short frame, the last one, the two positions may part; every   *)
(* further frame is empty.                                                 *)
Ended == lzx.length # 0 /\ FrameStart = lzx.length

InsideFrame ==
  call.pc = "blocks" =>
    /\ call.size = FrameSizeOf(lzx)
    /\ IF call.todo > 0 THEN call.todo = lzx.frame_posn + call.size - lzx.window_posn
       ELSE lzx.window_posn >= lzx.frame_posn + call.size

(* While a frame is decoded with bytes still held, which EndFrame refuses, *)
(* these may be overwritten.                                               *)
BytesInv ==
  handle /\ ~lzx.error =>
    /\ lzx.offset = Len(output)
    /\ call.pc # "blocks" => HeldInOrder
    /\ Placed \/ Ended
    /\ lzx.length # 0 => FrameStart <= lzx.length
    /\ lzx.window_posn <= Window
    /\ InsideFrame

InOrder == \A i \in 1..Len(output) : output[i] = i

IInv ==
  /\ StreamTypes
  /\ NothingLeaks
  /\ FreedIsEmpty
  /\ src.decoded <= src.total
  /\ CallInv
  /\ InOrder
  /\ BytesInv

-----------------------------------------------------------------------------
LEMMA Sizes ==
  /\ Frame \in Nat /\ Frame > 0 /\ Window \in Nat /\ Window > 0 /\ Window % Frame = 0
  /\ MaxSpill \in Nat /\ MaxSpill < Frame
  /\ \A s \in Streams : s.total \in Nat /\ s.interval \in Nat
  /\ \A n \in Asks : n \in Int
BY StreamAssumption

LEMMA Numbers ==
  ASSUME StreamTypes
  PROVE  /\ src.total \in Nat /\ src.interval \in Nat /\ src.decoded \in Nat /\ src.sound \in BOOLEAN
         /\ lzx.length \in Nat /\ lzx.offset \in Nat /\ lzx.frame \in Nat /\ lzx.block \in Nat
         /\ lzx.frame_posn \in Nat /\ lzx.window_posn \in Nat
         /\ held.at \in Nat /\ held.n \in Nat
         /\ call.left \in Nat /\ call.end \in Int /\ call.size \in Nat /\ call.todo \in Int
         /\ FrameStart \in Nat /\ Ahead \in Nat
         /\ Len(output) \in Nat
<1>1. src.total \in Nat /\ src.interval \in Nat /\ src.decoded \in Nat /\ src.sound \in BOOLEAN
  BY DEF StreamTypes, Sources
<1>2. /\ lzx.length \in Nat /\ lzx.offset \in Nat /\ lzx.frame \in Nat /\ lzx.block \in Nat
      /\ lzx.frame_posn \in Nat /\ lzx.window_posn \in Nat
  BY DEF StreamTypes, Structs
<1>3. held.at \in Nat /\ held.n \in Nat
  BY DEF StreamTypes, Waiting
<1>4. call.left \in Nat /\ call.end \in Int /\ call.size \in Nat /\ call.todo \in Int
  BY DEF StreamTypes, Calls
<1>5. FrameStart \in Nat /\ Ahead \in Nat
  BY <1>2, <1>3, <1>4, Sizes DEF FrameStart, Ahead
<1>6. Len(output) \in Nat
  BY LenProperties DEF StreamTypes
<1>7. QED  BY <1>1, <1>2, <1>3, <1>4, <1>5, <1>6

(* Frames fill the window evenly.                                          *)
LEMMA FramesFit ==
  ASSUME NEW p \in Nat, p % Frame = 0
  PROVE  /\ (p + Frame) % Frame = 0 /\ 0 % Frame = 0
         /\ p < Window => p + Frame <= Window
<1>1. /\ p = Frame * (p \div Frame) /\ p \div Frame \in Int
      /\ Window = Frame * (Window \div Frame) /\ Window \div Frame \in Int
  BY Sizes
<1>2. \A q \in Int : (Frame * q) % Frame = 0
  BY Sizes
<1>3. p + Frame = Frame * ((p \div Frame) + 1) /\ 0 = Frame * 0
  BY <1>1, Sizes
<1>4. ASSUME p < Window PROVE p + Frame <= Window
  <2>1. p \div Frame < Window \div Frame
    BY <1>1, <1>4, Sizes
  <2>2. (p \div Frame) + 1 <= Window \div Frame
    BY <1>1, <2>1
  <2>3. Frame * ((p \div Frame) + 1) <= Frame * (Window \div Frame)
    BY <1>1, <2>2, Sizes
  <2>4. QED  BY <1>1, <1>3, <2>3
<1>5. QED  BY <1>1, <1>2, <1>3, <1>4

(* What was put out stays in order when the next bytes follow.             *)
LEMMA ConcatInOrder ==
  ASSUME InOrder, output \in Seq(Nat), NEW t \in Seq(Nat),
         \A j \in 1..Len(t) : t[j] = Len(output) + j, output' = output \o t
  PROVE  /\ InOrder' /\ output' \in Seq(Nat) /\ Len(output') = Len(output) + Len(t)
         /\ t = [j \in 1..Len(t) |-> Len(output) + j]
<1>1. /\ output' \in Seq(Nat) /\ Len(output') = Len(output) + Len(t)
      /\ \A i \in 1..(Len(output) + Len(t)) :
           output'[i] = IF i <= Len(output) THEN output[i] ELSE t[i - Len(output)]
  BY ConcatProperties
<1>2. Len(output) \in Nat /\ Len(t) \in Nat
  BY LenProperties
<1>3. ASSUME NEW i \in 1..Len(output') PROVE output'[i] = i
  <2>1. CASE i <= Len(output)
    BY <1>1, <1>2, <2>1 DEF InOrder
  <2>2. CASE i > Len(output)
    <3>1. i - Len(output) \in 1..Len(t)
      BY <1>1, <1>2, <2>2
    <3>2. t[i - Len(output)] = Len(output) + (i - Len(output))
      BY <3>1
    <3>3. QED  BY <1>1, <1>2, <2>2, <3>2
  <2>3. QED  BY <1>1, <1>2, <2>1, <2>2
<1>4. DOMAIN t = 1..Len(t) /\ t = [j \in DOMAIN t |-> t[j]]
  BY LenProperties
<1>5. QED  BY <1>1, <1>3, <1>4 DEF InOrder

LEMMA TakesFacts ==
  ASSUME NEW n \in Nat, room \in Int, output \in Seq(Nat), NEW took \in Takes(n)
  PROVE  took \in Int /\ took <= n
BY LenProperties DEF Takes, Smaller

-----------------------------------------------------------------------------
LEMMA InitInv == Init => IInv
<1> SUFFICES ASSUME Init PROVE IInv
  OBVIOUS
<1>1. NoStream \in Sources /\ Fresh \in Structs /\ NoCall \in Calls /\ Nothing \in Waiting
  BY EmptySeq DEF NoStream, Sources, Fresh, Structs, NoCall, Calls, Nothing, Waiting, Offsets
<1>2. Blank(Window) \in [1..Window -> Nat]
  BY DEF Blank, Junk
<1>3. StreamTypes
  <2>1. room \in Int
    BY DEF Init, AnyRoom
  <2>2. output \in Seq(Nat)
    BY EmptySeq DEF Init
  <2>3. QED  BY <1>1, <1>2, <2>1, <2>2 DEF Init, StreamTypes
<1>4. src.decoded <= src.total
  BY DEF Init, NoStream
<1>5. InOrder
  BY EmptySeq DEF Init, InOrder
<1>6. QED
  BY <1>3, <1>4, <1>5 DEF Init, IInv, NothingLeaks, FreedIsEmpty, CallInv, BytesInv, NoCall

(* A call that fails: nothing more is claimed of the bytes behind it.      *)
LEMMA FailedInv ==
  ASSUME IInv, handle, Error, UNCHANGED <<heap, handle, room, window>>,
         src' \in Sources, src'.decoded <= src'.total,
         held' \in Waiting, output' \in Seq(Nat), InOrder'
  PROVE  IInv'
<1>1. lzx' \in Structs /\ lzx'.error
  BY DEF IInv, StreamTypes, Error, Structs
<1>2. call' = NoCall /\ NoCall \in Calls
  BY DEF Error, NoCall, Calls, Offsets
<1>3. StreamTypes'
  BY <1>1, <1>2 DEF IInv, StreamTypes
<1>4. NothingLeaks' /\ FreedIsEmpty' /\ CallInv' /\ BytesInv'
  BY <1>1, <1>2 DEF IInv, NothingLeaks, FreedIsEmpty, CallInv, BytesInv, NoCall
<1>5. QED  BY <1>3, <1>4 DEF IInv

LEMMA InitStreamInv ==
  ASSUME IInv, NEW valid \in BOOLEAN, NEW got \in SUBSET Parts, NEW s \in Streams,
         NEW length \in Nat, NEW r \in Int, InitStream(valid, got, s, length, r)
  PROVE  IInv'
<1>1. ~handle /\ heap = {} /\ handle' = (valid /\ got = Parts)
  BY DEF IInv, NothingLeaks, InitStream
<1>2. UNCHANGED <<window, held, call, output>> /\ output = <<>> /\ call.pc = "idle" /\ held = Nothing
  BY <1>1 DEF InitStream, IInv, FreedIsEmpty
<1>3. CASE handle'
  <2>1. /\ valid /\ got = Parts
        /\ src' = [NoStream EXCEPT !.total = s.total, !.interval = s.interval, !.empty = s.empty]
        /\ lzx' = [Fresh EXCEPT !.length = length] /\ room' = r
    BY <1>1, <1>3 DEF InitStream
  <2>2. heap' = Parts
    BY <1>1, <2>1 DEF InitStream, Parts
  <2>3. src' \in Sources /\ src'.decoded = 0 /\ src'.decoded <= src'.total
    <3>1. s.total \in Nat /\ s.interval \in Nat /\ s.empty \in Nat
      BY StreamAssumption
    <3>2. src' = [total |-> s.total, interval |-> s.interval, empty |-> s.empty,
                  decoded |-> 0, sound |-> TRUE]
      BY <2>1 DEF NoStream
    <3>3. QED  BY <3>1, <3>2 DEF Sources
  <2>4. /\ lzx' \in Structs /\ lzx'.offset = 0 /\ lzx'.frame_posn = 0 /\ lzx'.window_posn = 0
        /\ ~lzx'.error
    BY <2>1 DEF Fresh, Structs, Offsets
  <2>5. StreamTypes'
    BY <1>2, <1>3, <2>1, <2>3, <2>4 DEF IInv, StreamTypes
  <2>6. CallInv' /\ InOrder'
    BY <1>2 DEF IInv, CallInv, InOrder
  <2>7. BytesInv'
    <3>1. held'.n = 0 /\ Len(output') = 0 /\ call'.pc = "idle"
      BY <1>2, EmptySeq DEF Nothing
    <3>2. HeldInOrder'
      BY <3>1 DEF HeldInOrder
    <3>3. Placed'
      BY <2>3, <2>4, <3>1, Sizes DEF Placed, Ahead, FrameStart
    <3>4. QED
      BY <2>4, <3>1, <3>2, <3>3, Sizes, <2>5 DEF BytesInv, InsideFrame, FrameStart, StreamTypes, Structs
  <2>8. QED  BY <1>3, <2>2, <2>3, <2>5, <2>6, <2>7 DEF IInv, NothingLeaks, FreedIsEmpty
<1>4. CASE ~handle'
  <2>1. UNCHANGED <<src, lzx, room>>
    BY <1>4 DEF InitStream
  <2>2. heap' = {}
    BY <1>1, <1>4 DEF InitStream, FreedOnFailure
  <2>3. QED
    BY <1>1, <1>2, <1>4, <2>1, <2>2
    DEF IInv, StreamTypes, NothingLeaks, FreedIsEmpty, CallInv, InOrder, BytesInv
<1>5. QED  BY <1>3, <1>4

LEMMA FreeInv ==
  ASSUME IInv, Free PROVE IInv'
<1>1. heap' = {} /\ handle' = FALSE
  BY DEF IInv, NothingLeaks, Free
<1>2. /\ src' = NoStream /\ lzx' = Fresh /\ window' = Blank(Window)
      /\ held' = Nothing /\ call' = NoCall /\ room' = AnyRoom /\ output' = <<>>
  BY DEF Free
<1>3. NoStream \in Sources /\ Fresh \in Structs /\ NoCall \in Calls /\ Nothing \in Waiting
  BY EmptySeq DEF NoStream, Sources, Fresh, Structs, NoCall, Calls, Nothing, Waiting, Offsets
<1>4. Blank(Window) \in [1..Window -> Nat]
  BY DEF Blank, Junk
<1>5. StreamTypes'
  <2>1. room' \in Int
    BY <1>2 DEF AnyRoom
  <2>2. output' \in Seq(Nat)
    BY <1>2, EmptySeq
  <2>3. QED  BY <1>1, <1>2, <1>3, <1>4, <2>1, <2>2 DEF StreamTypes
<1>6. src'.decoded <= src'.total
  BY <1>2 DEF NoStream
<1>7. InOrder'
  BY <1>2, EmptySeq DEF InOrder
<1>8. QED
  BY <1>1, <1>2, <1>5, <1>6, <1>7
  DEF IInv, NothingLeaks, FreedIsEmpty, CallInv, BytesInv, NoCall

LEMMA SetOutputLengthInv ==
  ASSUME IInv, SetOutputLength PROVE IInv'
<1>1. /\ handle /\ call.pc = "idle" /\ ~lzx.error /\ lzx.length = 0
      /\ lzx' = [lzx EXCEPT !.length = src.total]
      /\ UNCHANGED <<heap, handle, src, window, held, call, room, output>>
  BY DEF SetOutputLength
<1>2. /\ lzx' \in Structs /\ lzx'.length = src.total /\ ~lzx'.error
      /\ lzx'.offset = lzx.offset
      /\ lzx'.frame_posn = lzx.frame_posn /\ lzx'.window_posn = lzx.window_posn
  BY <1>1 DEF IInv, StreamTypes, Structs, Sources
<1>3. StreamTypes' /\ NothingLeaks' /\ FreedIsEmpty' /\ CallInv' /\ InOrder'
  BY <1>1, <1>2 DEF IInv, StreamTypes, NothingLeaks, FreedIsEmpty, CallInv, InOrder
<1>4. Placed /\ Placed'
  <2>1. Placed
    BY <1>1 DEF IInv, BytesInv, Ended
  <2>2. QED  BY <1>1, <1>2, <2>1 DEF Placed, Ahead, FrameStart
<1>5. FrameStart' <= lzx'.length
  <2>1. FrameStart' = FrameStart
    BY <1>1, <1>2 DEF FrameStart
  <2>2. src.decoded <= src.total /\ StreamTypes
    BY DEF IInv
  <2>3. FrameStart <= src.decoded
    BY <1>4, <2>2, Numbers DEF Placed
  <2>4. QED  BY <1>2, <2>1, <2>2, <2>3, Numbers
<1>6. HeldInOrder'
  BY <1>1, <1>2 DEF IInv, BytesInv, HeldInOrder, Buffer
<1>7. BytesInv'
  BY <1>1, <1>2, <1>4, <1>5, <1>6 DEF IInv, BytesInv, InsideFrame
<1>8. QED  BY <1>1, <1>3, <1>7 DEF IInv

-----------------------------------------------------------------------------
LEMMA UnchangedInv ==
  ASSUME IInv, UNCHANGED <<heap, handle, src, lzx, window, held, call, room, output>>
  PROVE  IInv'
<1>1. StreamTypes' /\ NothingLeaks' /\ FreedIsEmpty' /\ CallInv' /\ InOrder'
  BY DEF IInv, StreamTypes, NothingLeaks, FreedIsEmpty, CallInv, InOrder
<1>2. BytesInv'
  BY DEF IInv, BytesInv, HeldInOrder, Buffer, Placed, Ahead, Ended, FrameStart, InsideFrame, FrameSizeOf
<1>3. src'.decoded <= src'.total
  BY DEF IInv
<1>4. QED  BY <1>1, <1>2, <1>3 DEF IInv

(* Bytes of the stream that follow those already out are put out.          *)
PutBytes(k) ==
  /\ output' \in Seq(Nat) /\ InOrder'
  /\ Len(output') = Len(output) + k
  /\ output' = output \o [j \in 1..k |-> Len(output) + j]

NotBelow0(k) == IF k < 0 THEN 0 ELSE k

LEMMA PutInOrder ==
  ASSUME IInv, lzx.offset = Len(output), NEW s, NEW a \in Nat, NEW k \in Int,
         \A j \in 1..k : s[a + j] = lzx.offset + j,
         output' = output \o SubSeq(s, a + 1, a + k)
  PROVE  PutBytes(NotBelow0(k))
<1> DEFINE t == SubSeq(s, a + 1, a + k)
<1>1. lzx.offset \in Nat /\ output \in Seq(Nat) /\ InOrder
  BY Numbers DEF IInv, StreamTypes
<1>2. /\ t \in Seq(Nat) /\ Len(t) = IF k < 0 THEN 0 ELSE k
      /\ \A j \in 1..k : t[j] = lzx.offset + j
  <2>1. a + 1 \in Int /\ a + k \in Int
    OBVIOUS
  <2>2. \A i \in (a + 1)..(a + k) : s[i] \in Nat
    <3>1. TAKE i \in (a + 1)..(a + k)
    <3>2. i - a \in 1..k /\ i = a + (i - a)
      OBVIOUS
    <3>3. s[i] = lzx.offset + (i - a)
      BY <3>2
    <3>4. QED  BY <1>1, <3>2, <3>3
  <2>3. /\ t \in Seq(Nat)
        /\ Len(t) = IF a + 1 <= a + k THEN a + k - (a + 1) + 1 ELSE 0
        /\ \A i \in 1..(a + k - (a + 1) + 1) : t[i] = s[a + 1 + i - 1]
    BY <2>1, <2>2, SubSeqProperties
  <2> HIDE DEF t
  <2>4. ASSUME NEW j \in 1..k PROVE t[j] = lzx.offset + j
    <3>1. t[j] = s[a + 1 + j - 1] /\ a + 1 + j - 1 = a + j
      BY <2>3
    <3>2. s[a + j] = lzx.offset + j
      OBVIOUS
    <3>3. QED  BY <3>1, <3>2
  <2>5. QED  BY <2>3, <2>4
<1>3. \A j \in 1..Len(t) : t[j] = Len(output) + j
  BY <1>2
<1> HIDE DEF t
<1>4. /\ InOrder' /\ output' \in Seq(Nat) /\ Len(output') = Len(output) + Len(t)
      /\ t = [j \in 1..Len(t) |-> Len(output) + j]
  <2>1. output' = output \o t
    BY DEF t
  <2>2. QED  BY <1>1, <1>2, <1>3, <2>1, ConcatInOrder
<1>5. QED  BY <1>2, <1>4 DEF PutBytes, NotBelow0, t

(* The bytes held are put out, at the entry of a call.                     *)
LEMMA HeldPutOut ==
  ASSUME IInv, handle, ~lzx.error, call.pc # "blocks", NEW k \in Int, k <= held.n,
         output' = output \o HeldBytes(k)
  PROVE  PutBytes(NotBelow0(k))
<1>1. held.at \in Nat /\ held.n \in Nat
  BY Numbers DEF IInv
<1>2. lzx.offset = Len(output) /\ HeldInOrder
  BY DEF IInv, BytesInv
<1>3. \A j \in 1..k : Buffer[held.at + j] = lzx.offset + j
  BY <1>1, <1>2 DEF HeldInOrder
<1>4. output' = output \o SubSeq(Buffer, held.at + 1, held.at + k)
  BY DEF HeldBytes, Buffer
<1>5. QED  BY <1>1, <1>2, <1>3, <1>4, PutInOrder

LEMMA DecompressInv ==
  ASSUME IInv, NEW n \in Asks, Decompress(n)
  PROVE  IInv'
<1>1. /\ handle /\ call.pc = "idle" /\ call = NoCall /\ n \in Int
      /\ UNCHANGED <<heap, handle, window, room>> /\ StreamTypes
  BY Sizes DEF Decompress, IInv, CallInv
<1>2. CASE UNCHANGED <<src, lzx, held, call, output>>
  BY <1>1, <1>2, UnchangedInv
<1> DEFINE i == Smaller(held.n, n)
           rest == n - i
<1>3. ASSUME n >= 0, ~lzx.error, NEW took \in IF i = 0 THEN {0} ELSE Takes(i),
             output' = output \o HeldBytes(took),
             Unsound(took # i \/ lzx.offset + n > src.total),
             \/ took # i /\ Error /\ UNCHANGED held
             \/ /\ took = i
                /\ held' = [held EXCEPT !.at = @ + i, !.n = @ - i]
                /\ lzx' = [lzx EXCEPT !.offset = @ + i]
                /\ call' = IF rest = 0 THEN NoCall
                           ELSE [NoCall EXCEPT !.pc = "frame", !.left = rest, !.R = lzx.R,
                                   !.end = EndFrameOf(lzx.offset + i + rest)]
      PROVE  IInv'
  <2>0. held.n \in Nat /\ held.at \in Nat /\ lzx.offset \in Nat /\ FrameStart \in Nat
    BY <1>1, Numbers
  <2>1. i \in Nat /\ i <= held.n /\ i <= n /\ rest \in Nat
    BY <1>1, <1>3, <2>0 DEF Smaller
  <2>2. took \in Int /\ took <= i
    BY <1>1, <1>3, <2>1, TakesFacts DEF StreamTypes
  <2>3. /\ output' \in Seq(Nat) /\ InOrder'
        /\ Len(output') = Len(output) + NotBelow0(took)
    <3>1. took <= held.n
      BY <2>0, <2>1, <2>2
    <3>2. PutBytes(NotBelow0(took))
      BY <1>1, <1>3, <2>2, <3>1, HeldPutOut
    <3>3. QED  BY <3>2 DEF PutBytes
  <2> HIDE DEF i
  <2>4. /\ src' \in Sources /\ src'.total = src.total /\ src'.decoded = src.decoded
        /\ src'.decoded <= src'.total
    BY <1>1, <1>3 DEF Unsound, StreamTypes, Sources, IInv
  <2>5. CASE took # i
    BY <1>1, <1>3, <2>3, <2>4, <2>5, FailedInv DEF StreamTypes
  <2>6. CASE took = i
    <3>0. call' = IF rest = 0 THEN NoCall
                  ELSE [NoCall EXCEPT !.pc = "frame", !.left = rest, !.R = lzx.R,
                          !.end = EndFrameOf(lzx.offset + i + rest)]
      BY <1>3, <2>6
    <3>1. /\ held' \in Waiting /\ held'.at = held.at + i /\ held'.n = held.n - i
          /\ held'.buf = held.buf /\ held'.e8 = held.e8
      <4>1. held \in Waiting
        BY <1>1 DEF StreamTypes
      <4>2. held' = [held EXCEPT !.at = @ + i, !.n = @ - i]
        BY <1>3, <2>6
      <4>3. held.at + i \in Nat /\ held.n - i \in Nat
        BY <2>0, <2>1
      <4>4. QED  BY <4>1, <4>2, <4>3 DEF Waiting
    <3>2. /\ lzx' \in Structs /\ lzx'.offset = lzx.offset + i /\ lzx'.error = lzx.error
          /\ lzx'.frame_posn = lzx.frame_posn /\ lzx'.window_posn = lzx.window_posn
          /\ lzx'.length = lzx.length
      <4>1. lzx \in Structs
        BY <1>1 DEF StreamTypes
      <4>2. lzx' = [lzx EXCEPT !.offset = @ + i]
        BY <1>3, <2>6
      <4>3. lzx.offset + i \in Nat
        BY <2>0, <2>1
      <4>4. QED  BY <4>1, <4>2, <4>3 DEF Structs
    <3>3. /\ call' \in Calls /\ call'.pc \in {"idle", "frame"}
          /\ call'.pc = "idle" => call' = NoCall
      <4>1. lzx.R \in Offsets /\ EndFrameOf(lzx.offset + i + rest) \in Int
        BY <1>1, <2>0, <2>1, Sizes DEF StreamTypes, Structs, EndFrameOf
      <4>2. NoCall \in Calls
        BY DEF NoCall, Calls, Offsets
      <4>3. QED
        BY <2>1, <3>0, <4>1, <4>2 DEF NoCall, Calls
    <3>4. StreamTypes' /\ NothingLeaks' /\ FreedIsEmpty'
      BY <1>1, <2>3, <2>4, <3>1, <3>2, <3>3 DEF IInv, StreamTypes, NothingLeaks, FreedIsEmpty
    <3>5. CallInv'
      BY <1>1, <1>3, <3>2, <3>3 DEF CallInv
    <3>6. FrameStart' = FrameStart /\ Ahead' = Ahead
      BY <1>1, <2>0, <2>1, <3>1, <3>2, <3>3 DEF FrameStart, Ahead
    <3>7. lzx'.offset = Len(output')
      <4>1. lzx.offset = Len(output)
        BY <1>1, <1>3 DEF IInv, BytesInv
      <4>2. QED  BY <2>1, <2>3, <2>6, <3>2, <4>1 DEF NotBelow0
    <3>8. HeldInOrder'
      <4>1. HeldInOrder /\ Buffer' = Buffer
        BY <1>1, <1>3, <3>1 DEF IInv, BytesInv, Buffer
      <4>2. ASSUME NEW j \in 1..held'.n PROVE Buffer[held'.at + j] = lzx'.offset + j
        <5>1. i + j \in 1..held.n
          BY <2>0, <2>1, <3>1
        <5>2. Buffer[held.at + (i + j)] = lzx.offset + (i + j)
          BY <4>1, <5>1 DEF HeldInOrder
        <5>3. QED  BY <2>0, <2>1, <3>1, <3>2, <5>2
      <4>3. QED  BY <4>1, <4>2 DEF HeldInOrder
    <3>9. (Placed => Placed') /\ (Ended => Ended')
      BY <1>1, <2>4, <3>2, <3>6 DEF Placed, Ended
    <3>10. BytesInv'
      BY <1>1, <1>3, <3>2, <3>3, <3>6, <3>7, <3>8, <3>9 DEF IInv, BytesInv, InsideFrame
    <3>11. QED  BY <2>3, <2>4, <3>4, <3>5, <3>10 DEF IInv
  <2>7. QED  BY <2>5, <2>6
<1>4. QED  BY <1>1, <1>2, <1>3 DEF Decompress

-----------------------------------------------------------------------------
(* A step of a call that failed at reading.                                *)
LEMMA ReadFailedInv ==
  ASSUME IInv, call.pc # "idle", Error, UNCHANGED <<heap, handle, room, window, held, output>>,
         src' \in Sources, src'.decoded <= src'.total
  PROVE  IInv'
BY FailedInv DEF IInv, StreamTypes, CallInv, InOrder

LEMMA UnsoundFacts ==
  ASSUME src \in Sources, NEW c \in BOOLEAN, Unsound(c)
  PROVE  src' \in Sources /\ src'.decoded = src.decoded /\ src'.total = src.total
BY DEF Unsound, Sources

LEMMA TakeHeaderFacts ==
  ASSUME src \in Sources, NEW len \in Nat, TakeHeader(len)
  PROVE  /\ src' \in Sources /\ src'.decoded = src.decoded
         /\ src'.total = src.total /\ src'.interval = src.interval
         /\ src'.sound => src.sound /\ Fits(len)
<1> DEFINE fits == Fits(len)
           left == IF len = 0 THEN src.empty - 1 ELSE src.empty
<1>1. left \in Nat
  BY DEF TakeHeader, Sources
<1>2. src' = [src EXCEPT !.sound = @ /\ fits, !.empty = left]
  BY DEF TakeHeader
<1>3. fits \in BOOLEAN
  BY DEF Fits
<1> HIDE DEF fits, left
<1>4. src' = [total |-> src.total, interval |-> src.interval, empty |-> left,
              decoded |-> src.decoded, sound |-> src.sound /\ fits]
  BY <1>2 DEF Sources
<1>5. /\ src' \in Sources /\ src'.decoded = src.decoded
      /\ src'.total = src.total /\ src'.interval = src.interval
      /\ src'.sound => src.sound /\ fits
  BY <1>1, <1>3, <1>4 DEF Sources
<1>6. QED  BY <1>5 DEF fits

LEMMA BadInputInv ==
  ASSUME IInv, BadInput PROVE IInv'
<1>1. /\ call.pc # "idle" /\ Error /\ Unsound(TRUE)
      /\ UNCHANGED <<heap, handle, window, held, room, output>>
  BY DEF BadInput
<1>2. src \in Sources /\ src.decoded <= src.total
  BY DEF IInv, StreamTypes
<1>3. src' \in Sources /\ src'.decoded <= src'.total
  BY <1>1, <1>2, UnsoundFacts
<1>4. QED  BY <1>1, <1>3, ReadFailedInv

(* The frame to come is no longer than what is left of a known length.     *)
LEMMA FrameSizeFacts ==
  ASSUME IInv, handle, ~lzx.error
  PROVE  /\ FrameSizeOf(lzx) \in Nat /\ FrameSizeOf(lzx) <= Frame
         /\ lzx.length # 0 => FrameSizeOf(lzx) <= lzx.length - lzx.offset
         /\ FrameSizeOf(lzx) < Frame => lzx.length # 0 /\ FrameSizeOf(lzx) = lzx.length - lzx.offset
<1>1. lzx.length \in Nat /\ lzx.offset \in Nat /\ held.n \in Nat
  BY Numbers DEF IInv
<1>2. lzx.length # 0 => lzx.offset <= lzx.length
  BY <1>1 DEF IInv, BytesInv, FrameStart
<1>3. QED  BY <1>1, <1>2, Sizes DEF FrameSizeOf

LEMMA StartFrameInv ==
  ASSUME IInv, StartFrame PROVE IInv'
<1>1. /\ call.pc = "frame" /\ handle /\ ~lzx.error
      /\ UNCHANGED <<heap, handle, src, window, held, room, output>>
  BY DEF StartFrame, IInv, CallInv
<1>2. CASE Error
  BY <1>1, <1>2, ReadFailedInv DEF IInv, StreamTypes
<1>3. ASSUME NEW given \in IF ~NeedsHeader THEN {lzx.filesize} ELSE {FALSE, ~AtEnd},
             lzx' = [(IF AtReset THEN Reset(lzx) ELSE lzx)
                       EXCEPT !.filesize = given, !.header = TRUE],
             call' = [call EXCEPT !.pc = "blocks", !.size = FrameSizeOf(lzx),
                        !.todo = lzx.frame_posn + FrameSizeOf(lzx) - lzx.window_posn]
      PROVE  IInv'
  <2>1. /\ lzx' \in Structs /\ lzx'.offset = lzx.offset /\ lzx'.error = lzx.error
        /\ lzx'.frame_posn = lzx.frame_posn /\ lzx'.window_posn = lzx.window_posn
        /\ lzx'.length = lzx.length
    <3>1. lzx \in Structs
      BY DEF IInv, StreamTypes
    <3>2. given \in BOOLEAN
      BY <1>3, <3>1 DEF Structs
    <3>3. /\ Reset(lzx) \in Structs /\ Reset(lzx).offset = lzx.offset
          /\ Reset(lzx).error = lzx.error /\ Reset(lzx).frame_posn = lzx.frame_posn
          /\ Reset(lzx).window_posn = lzx.window_posn /\ Reset(lzx).length = lzx.length
      BY <3>1 DEF Reset, Structs, Offsets
    <3>4. CASE AtReset
      BY <1>3, <3>2, <3>3, <3>4 DEF Structs
    <3>5. CASE ~AtReset
      BY <1>3, <3>1, <3>2, <3>5 DEF Structs
    <3>6. QED  BY <3>4, <3>5
  <2>2. /\ lzx.frame_posn \in Nat /\ lzx.window_posn \in Nat /\ Ahead \in Nat
        /\ FrameSizeOf(lzx) \in Nat
    BY <1>1, Numbers, FrameSizeFacts DEF IInv
  <2>3. /\ call' \in Calls /\ call'.pc = "blocks" /\ call'.size = FrameSizeOf(lzx)
        /\ call'.todo = lzx.frame_posn + FrameSizeOf(lzx) - lzx.window_posn
    <3>1. call \in Calls /\ lzx.frame_posn + FrameSizeOf(lzx) - lzx.window_posn \in Int
      BY <2>2 DEF IInv, StreamTypes
    <3>2. QED  BY <1>3, <2>2, <3>1 DEF Calls
  <2>4. StreamTypes' /\ NothingLeaks' /\ FreedIsEmpty' /\ CallInv' /\ InOrder'
    BY <1>1, <2>1, <2>3 DEF IInv, StreamTypes, NothingLeaks, FreedIsEmpty, CallInv, InOrder
  <2>5. FrameStart' = FrameStart /\ Ahead' \in Nat /\ Ahead <= Ahead'
    BY <1>1, <2>1, <2>2, <2>3, Sizes DEF FrameStart, Ahead
  <2>6. (Placed => Placed') /\ (Ended => Ended')
    BY <1>1, <2>1, <2>2, <2>5 DEF Placed, Ended
  <2>7. FrameSizeOf(lzx)' = FrameSizeOf(lzx)
    BY <2>1 DEF FrameSizeOf
  <2>8. InsideFrame'
    BY <2>1, <2>2, <2>3, <2>7 DEF InsideFrame
  <2>9. BytesInv'
    BY <1>1, <2>1, <2>3, <2>5, <2>6, <2>8 DEF IInv, BytesInv
  <2>10. QED  BY <1>1, <2>4, <2>9 DEF IInv
<1>4. QED  BY <1>2, <1>3 DEF StartFrame

LEMMA OpenBlockInv ==
  ASSUME IInv, NEW len \in BlockLengths, NEW stored \in BOOLEAN, NEW e8 \in BOOLEAN,
         OpenBlock(len, stored, e8)
  PROVE  IInv'
<1>1. /\ call.pc = "blocks" /\ handle /\ ~lzx.error
      /\ UNCHANGED <<heap, handle, window, held, room, output>>
      /\ src \in Sources /\ lzx \in Structs /\ call \in Calls /\ src.decoded <= src.total
  BY DEF OpenBlock, InBlocks, IInv, CallInv, StreamTypes
<1>2. CASE Error /\ UNCHANGED src
  BY <1>1, <1>2, ReadFailedInv
<1>3. ASSUME TakeHeader(len),
             lzx' = [lzx EXCEPT !.block = len, !.stored = stored, !.started = @ \/ stored \/ e8],
             NEW R \in IF stored THEN Offsets ELSE {call.R}, call' = [call EXCEPT !.R = R]
      PROVE  IInv'
  <2>0. len \in Nat
    BY StreamAssumption
  <2>1. src' \in Sources /\ src'.decoded = src.decoded /\ src'.total = src.total
    BY <1>1, <1>3, <2>0, TakeHeaderFacts
  <2>2. /\ lzx' \in Structs /\ lzx'.offset = lzx.offset /\ lzx'.error = lzx.error
        /\ lzx'.frame_posn = lzx.frame_posn /\ lzx'.window_posn = lzx.window_posn
        /\ lzx'.length = lzx.length
    BY <1>1, <1>3, StreamAssumption DEF Structs
  <2>3. /\ call' \in Calls /\ call'.pc = "blocks" /\ call'.size = call.size
        /\ call'.todo = call.todo
    BY <1>1, <1>3 DEF Calls
  <2>4. StreamTypes' /\ NothingLeaks' /\ FreedIsEmpty' /\ CallInv' /\ InOrder'
    BY <1>1, <2>1, <2>2, <2>3 DEF IInv, StreamTypes, NothingLeaks, FreedIsEmpty, CallInv, InOrder
  <2>5. FrameStart' = FrameStart /\ Ahead' = Ahead /\ FrameSizeOf(lzx)' = FrameSizeOf(lzx)
    BY <1>1, <2>2, <2>3 DEF FrameStart, Ahead, FrameSizeOf
  <2>6. (Placed => Placed') /\ (Ended => Ended') /\ (InsideFrame => InsideFrame')
    BY <1>1, <2>1, <2>2, <2>3, <2>5 DEF Placed, Ended, InsideFrame
  <2>7. BytesInv'
    BY <1>1, <2>2, <2>3, <2>5, <2>6 DEF IInv, BytesInv
  <2>8. QED  BY <1>1, <2>1, <2>4, <2>7 DEF IInv
<1>4. QED  BY <1>2, <1>3 DEF OpenBlock

LEMMA FinishCallInv ==
  ASSUME IInv, FinishCall PROVE IInv'
<1>1. /\ call.pc = "frame" /\ handle /\ ~lzx.error
      /\ UNCHANGED <<heap, handle, src, window, held, room, output>>
      /\ src \in Sources /\ lzx \in Structs /\ call \in Calls /\ src.decoded <= src.total
  BY DEF FinishCall, IInv, CallInv, StreamTypes
<1>2. CASE Error
  BY <1>1, <1>2, ReadFailedInv
<1>3. CASE lzx' = [lzx EXCEPT !.R = call.R] /\ call' = NoCall
  <2>1. /\ lzx' \in Structs /\ lzx'.offset = lzx.offset /\ lzx'.error = lzx.error
        /\ lzx'.frame_posn = lzx.frame_posn /\ lzx'.window_posn = lzx.window_posn
        /\ lzx'.length = lzx.length
    BY <1>1, <1>3 DEF Structs, Calls
  <2>2. call' \in Calls /\ call'.pc = "idle"
    BY <1>3 DEF NoCall, Calls, Offsets
  <2>3. StreamTypes' /\ NothingLeaks' /\ FreedIsEmpty' /\ CallInv' /\ InOrder'
    BY <1>1, <1>3, <2>1, <2>2
    DEF IInv, StreamTypes, NothingLeaks, FreedIsEmpty, CallInv, InOrder
  <2>4. FrameStart' = FrameStart /\ Ahead' = Ahead
    BY <1>1, <2>1, <2>2 DEF FrameStart, Ahead
  <2>5. (Placed => Placed') /\ (Ended => Ended') /\ (HeldInOrder => HeldInOrder')
    BY <1>1, <2>1, <2>4 DEF Placed, Ended, HeldInOrder, Buffer
  <2>6. BytesInv'
    BY <1>1, <2>1, <2>2, <2>4, <2>5 DEF IInv, BytesInv, InsideFrame
  <2>7. QED  BY <1>1, <2>3, <2>6 DEF IInv
<1>4. QED  BY <1>2, <1>3 DEF FinishCall

-----------------------------------------------------------------------------
(* A run fills the window behind what is there; only the last run of a     *)
(* frame goes on behind it.                                                *)
LEMMA RunInv ==
  ASSUME IInv, NEW spill \in 0..MaxSpill, Run(spill) PROVE IInv'
<1> DEFINE run == Smaller(lzx.block, call.todo)
           n == run + spill
<1>1. /\ call.pc = "blocks" /\ call.todo > 0 /\ lzx.block > 0 /\ handle /\ ~lzx.error
      /\ UNCHANGED <<heap, handle, held, room, output>>
      /\ src \in Sources /\ lzx \in Structs /\ call \in Calls /\ src.decoded <= src.total
      /\ window \in [1..Window -> Nat] /\ StreamTypes
  BY DEF Run, InBlocks, IInv, CallInv, StreamTypes
<1>2. CASE Error /\ Unsound(TRUE) /\ UNCHANGED window
  <2>1. src' \in Sources /\ src'.decoded <= src'.total
    BY <1>1, <1>2, UnsoundFacts
  <2>2. QED  BY <1>1, <1>2, <2>1, ReadFailedInv
<1>3. ASSUME lzx.window_posn + n <= Window, n <= lzx.block, src.decoded + n <= src.total,
             src' = [src EXCEPT !.decoded = @ + n],
             window' = [i \in 1..Window |->
                          IF i - lzx.window_posn \in 1..n
                          THEN src.decoded + i - lzx.window_posn ELSE window[i]],
             lzx' = [lzx EXCEPT !.window_posn = @ + n, !.block = @ - n],
             NEW R \in IF lzx.stored THEN {call.R} ELSE {call.R, "other"},
             call' = [call EXCEPT !.todo = @ - run, !.R = R]
      PROVE  IInv'
  <2>1. /\ lzx.window_posn \in Nat /\ lzx.frame_posn \in Nat /\ lzx.block \in Nat
        /\ src.decoded \in Nat /\ call.size \in Nat /\ call.todo \in Int
        /\ FrameStart \in Nat /\ Ahead \in Nat /\ spill \in Nat /\ spill <= MaxSpill
    BY <1>1, Numbers, Sizes
  <2>2. /\ run \in Nat /\ n \in Nat /\ n = run + spill /\ run <= call.todo
        /\ n <= lzx.block /\ lzx.window_posn + n <= Window /\ src.decoded + n <= src.total
        /\ run < call.todo => spill = 0
    BY <1>1, <1>3, <2>1 DEF Smaller
  <2> HIDE DEF run, n
  <2>3. src' \in Sources /\ src'.decoded = src.decoded + n /\ src'.total = src.total
    <3>1. src' = [src EXCEPT !.decoded = @ + n]
      BY <1>3
    <3>2. src.decoded + n \in Nat
      BY <2>1, <2>2
    <3>3. QED  BY <1>1, <3>1, <3>2 DEF Sources
  <2>4. /\ lzx' \in Structs /\ lzx'.offset = lzx.offset /\ lzx'.error = lzx.error
        /\ lzx'.frame_posn = lzx.frame_posn /\ lzx'.window_posn = lzx.window_posn + n
        /\ lzx'.length = lzx.length
    <3>1. lzx' = [lzx EXCEPT !.window_posn = @ + n, !.block = @ - n]
      BY <1>3
    <3>2. lzx.window_posn + n \in Nat /\ lzx.block - n \in Nat
      BY <2>1, <2>2
    <3>3. QED  BY <1>1, <3>1, <3>2 DEF Structs
  <2>5. /\ call' \in Calls /\ call'.pc = call.pc /\ call'.size = call.size
        /\ call'.todo = call.todo - run
    <3>1. call' = [call EXCEPT !.todo = @ - run, !.R = R]
      BY <1>3
    <3>2. R \in Offsets
      BY <1>1, <1>3 DEF Calls, Offsets
    <3>3. call.todo - run \in Int
      BY <2>1, <2>2
    <3>4. QED  BY <1>1, <3>1, <3>2, <3>3 DEF Calls
  <2>6. window' \in [1..Window -> Nat]
    <3>1. ASSUME NEW i \in 1..Window
          PROVE  (IF i - lzx.window_posn \in 1..n
                  THEN src.decoded + i - lzx.window_posn ELSE window[i]) \in Nat
      <4>1. window[i] \in Nat
        BY <1>1
      <4>2. i - lzx.window_posn \in 1..n => src.decoded + i - lzx.window_posn \in Nat
        <5>1. i \in Int
          BY Sizes
        <5>2. QED  BY ONLY <2>1, <2>2, <5>1
      <4>3. QED  BY <4>1, <4>2
    <3>2. QED  BY <1>3, <3>1
  <2>7. StreamTypes' /\ NothingLeaks' /\ FreedIsEmpty' /\ CallInv' /\ InOrder'
    BY <1>1, <2>3, <2>4, <2>5, <2>6
    DEF IInv, StreamTypes, NothingLeaks, FreedIsEmpty, CallInv, InOrder
  <2>8. /\ FrameStart' = FrameStart /\ Ahead' = Ahead /\ Ahead = call.size + MaxSpill
        /\ FrameSizeOf(lzx)' = FrameSizeOf(lzx)
    BY <1>1, <2>4, <2>5 DEF FrameStart, Ahead, FrameSizeOf
  <2>9. /\ InsideFrame /\ call.todo = lzx.frame_posn + call.size - lzx.window_posn
        /\ call.size = FrameSizeOf(lzx)
    BY <1>1 DEF IInv, BytesInv, InsideFrame
  <2>10. InsideFrame'
    BY <2>1, <2>2, <2>4, <2>5, <2>8, <2>9, Sizes DEF InsideFrame
  <2>11. ASSUME Placed PROVE Placed'
    <3>1. lzx'.window_posn - lzx'.frame_posn \in 0..Ahead'
      BY <2>1, <2>2, <2>4, <2>8, <2>9, <2>11, Sizes DEF Placed
    <3>2. src'.decoded = FrameStart' + lzx'.window_posn - lzx'.frame_posn
      BY <2>1, <2>2, <2>3, <2>4, <2>8, <2>11 DEF Placed
    <3>3. ASSUME NEW j \in 1..(lzx'.window_posn - lzx'.frame_posn)
          PROVE  window'[lzx'.frame_posn + j] = FrameStart' + j
      <4> DEFINE i == lzx.frame_posn + j
      <4>1. i \in 1..Window /\ j \in Nat /\ j > 0
        BY <2>1, <2>2, <2>4, Sizes
      <4>2. window'[i] = IF i - lzx.window_posn \in 1..n
                         THEN src.decoded + i - lzx.window_posn ELSE window[i]
        BY <1>3, <4>1
      <4>3. CASE i > lzx.window_posn
        <5>1. i - lzx.window_posn \in 1..n
          BY <2>1, <2>2, <2>4, <4>1, <4>3
        <5>2. src.decoded + i - lzx.window_posn = FrameStart + j
          BY <2>1, <2>11, <4>1 DEF Placed
        <5>3. QED  BY <2>4, <2>8, <4>2, <5>1, <5>2
      <4>4. CASE i <= lzx.window_posn
        <5>1. i - lzx.window_posn \notin 1..n
          BY <2>1, <4>1, <4>4
        <5>2. j \in 1..(lzx.window_posn - lzx.frame_posn)
          BY <2>1, <4>1, <4>4
        <5>3. window[i] = FrameStart + j
          BY <2>11, <5>2 DEF Placed
        <5>4. QED  BY <2>4, <2>8, <4>2, <5>1, <5>3
      <4>5. QED  BY <2>1, <4>1, <4>3, <4>4
    <3>4. QED  BY <2>4, <2>11, <3>1, <3>2, <3>3 DEF Placed
  <2>12. Ended => Ended'
    BY <2>4, <2>8 DEF Ended
  <2>13. BytesInv'
    BY <1>1, <2>2, <2>4, <2>5, <2>8, <2>10, <2>11, <2>12 DEF IInv, BytesInv
  <2>14. QED  BY <1>1, <2>2, <2>3, <2>7, <2>13 DEF IInv
<1>4. QED  BY <1>2, <1>3 DEF Run

-----------------------------------------------------------------------------
(* What is left of a frame starts the next one, at most MaxSpill bytes.    *)
LEMMA WrapPlaced ==
  ASSUME IInv, handle, ~lzx.error, Placed, call.pc = "blocks", call.size = Frame,
         lzx.window_posn >= lzx.frame_posn + Frame,
         call'.pc = "frame", UNCHANGED window, src'.decoded = src.decoded,
         lzx'.frame_posn = Wrapped(lzx.frame_posn + Frame),
         lzx'.window_posn = Wrapped(lzx.window_posn),
         FrameStart' = FrameStart + Frame
  PROVE  Placed'
<1> DEFINE fp == lzx.frame_posn
           wp == lzx.window_posn
<1>1. /\ fp \in Nat /\ wp \in Nat /\ FrameStart \in Nat /\ src.decoded \in Nat
      /\ Ahead = Frame + MaxSpill /\ Ahead' = MaxSpill
  BY Numbers, Sizes DEF IInv, Ahead
<1>2. /\ fp % Frame = 0 /\ wp - fp <= Frame + MaxSpill /\ wp <= Window
      /\ src.decoded = FrameStart + wp - fp
      /\ \A j \in 1..(wp - fp) : window[fp + j] = FrameStart + j
  BY <1>1, Sizes DEF Placed, IInv, BytesInv
<1>3. (fp + Frame) % Frame = 0 /\ 0 % Frame = 0 /\ fp + Frame <= Window
  <2>1. fp + Frame <= Window
    BY <1>1, <1>2, Sizes
  <2>2. QED  BY <1>1, <1>2, <2>1, FramesFit
<1>4. CASE fp + Frame = Window
  <2>1. wp = Window
    BY <1>1, <1>2, <1>4, Sizes
  <2>2. lzx'.frame_posn = 0 /\ lzx'.window_posn = 0
    BY <1>4, <2>1 DEF Wrapped
  <2>3. src'.decoded = FrameStart' + 0 - 0
    BY <1>1, <1>2, <1>4, <2>1, Sizes
  <2>4. lzx'.window_posn - lzx'.frame_posn = 0 /\ 0 \in 0..Ahead'
    BY <1>1, <2>2, Sizes
  <2>5. src'.decoded = FrameStart' + lzx'.window_posn - lzx'.frame_posn
    BY <2>2, <2>3
  <2>6. \A j \in 1..(lzx'.window_posn - lzx'.frame_posn) :
          window'[lzx'.frame_posn + j] = FrameStart' + j
    BY <2>4
  <2>7. QED  BY <1>3, <2>2, <2>4, <2>5, <2>6 DEF Placed
<1>5. CASE fp + Frame < Window
  <2>1. fp + Frame + Frame <= Window
    <3>1. fp + Frame \in Nat
      BY <1>1, Sizes
    <3>2. QED  BY <1>3, <1>5, <3>1, FramesFit
  <2>2. wp < Window
    BY <1>1, <1>2, <2>1, Sizes
  <2>3. lzx'.frame_posn = fp + Frame /\ lzx'.window_posn = wp
    BY <1>1, <1>5, <2>2, Sizes DEF Wrapped
  <2>4. wp - (fp + Frame) \in 0..MaxSpill
    BY <1>1, <1>2, Sizes
  <2>5. ASSUME NEW j \in 1..(wp - (fp + Frame))
        PROVE  window'[fp + Frame + j] = FrameStart' + j
    <3>1. Frame + j \in 1..(wp - fp)
      BY <1>1, Sizes
    <3>2. window[fp + (Frame + j)] = FrameStart + (Frame + j)
      BY <1>2, <3>1
    <3>3. QED  BY <1>1, <3>2, Sizes
  <2>6. src'.decoded = FrameStart' + wp - (fp + Frame)
    BY <1>1, <1>2, Sizes
  <2>7. QED  BY <1>1, <1>3, <2>3, <2>4, <2>5, <2>6 DEF Placed
<1>6. QED  BY <1>1, <1>2, <1>3, <1>4, <1>5, Sizes

(* The bytes of a frame that is put out are in the window.                 *)
FrameBytes == SubSeq(window, lzx.frame_posn + 1, lzx.frame_posn + call.size)

LEMMA FrameInWindow ==
  ASSUME IInv, call.pc = "blocks", call.todo <= 0, held.n = 0
  PROVE  /\ handle /\ ~lzx.error
         /\ FrameBytes \in Seq(Nat)
         /\ \A j \in 1..call.size : window[lzx.frame_posn + j] = lzx.offset + j
         /\ \A j \in 1..call.size : FrameBytes[j] = lzx.offset + j
         /\ lzx.window_posn >= lzx.frame_posn + call.size
         /\ call.size = FrameSizeOf(lzx) /\ FrameStart = lzx.offset
         /\ Placed \/ (Ended /\ call.size = 0)
<1> DEFINE fp == lzx.frame_posn
           wp == lzx.window_posn
           lo == fp + 1
           hi == fp + call.size
<1>1. /\ handle /\ ~lzx.error /\ StreamTypes /\ BytesInv
      /\ window \in [1..Window -> Nat]
  BY DEF IInv, CallInv, StreamTypes
<1>2. /\ fp \in Nat /\ wp \in Nat /\ lzx.offset \in Nat /\ call.size \in Nat /\ Ahead \in Nat
      /\ FrameStart = lzx.offset /\ call.todo \in Int
  BY <1>1, Numbers DEF FrameStart
<1>3. /\ wp >= fp + call.size /\ wp <= Window /\ call.size = FrameSizeOf(lzx)
      /\ Placed \/ Ended
  BY <1>1, <1>2 DEF BytesInv, InsideFrame
<1>4. Ended => call.size = 0
  BY <1>1, <1>2, <1>3, FrameSizeFacts DEF Ended
<1>5. ASSUME NEW j \in 1..call.size PROVE window[fp + j] = lzx.offset + j
  <2>1. Placed
    BY <1>2, <1>3, <1>4
  <2>2. j \in 1..(wp - fp)
    BY <1>2, <1>3
  <2>3. QED  BY <1>2, <2>1, <2>2 DEF Placed
<1>6. lo \in Int /\ hi \in Int
  BY <1>2
<1>7. \A i \in lo..hi : window[i] \in Nat
  BY <1>1, <1>2, <1>3, Sizes
<1> HIDE DEF lo, hi
<1>8. FrameBytes \in Seq(Nat) /\ \A i \in 1..(hi - lo + 1) : FrameBytes[i] = window[lo + i - 1]
  <2>1. FrameBytes = SubSeq(window, lo, hi)
    BY DEF FrameBytes, lo, hi
  <2>2. QED  BY <1>6, <1>7, <2>1, SubSeqProperties
<1>9. ASSUME NEW j \in 1..call.size PROVE FrameBytes[j] = lzx.offset + j
  <2>1. j \in 1..(hi - lo + 1) /\ lo + j - 1 = fp + j
    BY <1>2 DEF lo, hi
  <2>2. FrameBytes[j] = window[lo + j - 1]
    BY <1>8, <2>1
  <2>3. QED  BY <1>5, <2>1, <2>2
<1>10. QED  BY <1>1, <1>2, <1>3, <1>4, <1>5, <1>8, <1>9

(* A frame goes out, as far as it is asked for, and the rest is held.      *)
LEMMA EndFrameInv ==
  ASSUME IInv, EndFrame PROVE IInv'
<1>1. /\ call.pc = "blocks" /\ call.todo <= 0 /\ StreamTypes
      /\ UNCHANGED <<heap, handle, window, room>>
      /\ src \in Sources /\ lzx \in Structs /\ call \in Calls /\ held \in Waiting
      /\ src.decoded <= src.total
  BY DEF EndFrame, IInv, StreamTypes
<1>2. CASE Error /\ UNCHANGED <<src, held, output>>
  BY <1>1, <1>2, ReadFailedInv
<1> DEFINE i == Smaller(call.left, call.size)
<1>3. ASSUME held.n = 0, NEW took \in Takes(i),
             output' = output \o SubSeq(FrameBytes, 1, took),
             Unsound(took # i),
             \/ took # i /\ Error /\ UNCHANGED held
             \/ /\ took = i
                /\ held' = [HeldFrame EXCEPT !.at = @ + i, !.n = @ - i]
                /\ lzx' = [lzx EXCEPT !.offset = @ + i, !.frame = NextFrame,
                             !.frame_posn = Wrapped(@ + call.size),
                             !.window_posn = Wrapped(@)]
                /\ call' = [call EXCEPT !.pc = "frame", !.left = @ - i]
      PROVE  IInv'
  <2>1. /\ lzx.window_posn \in Nat /\ lzx.frame_posn \in Nat /\ lzx.offset \in Nat
        /\ lzx.frame \in Nat /\ lzx.length \in Nat
        /\ call.size \in Nat /\ call.left \in Nat
    BY <1>1, Numbers
  <2>2. i \in Nat /\ i <= call.size /\ i <= call.left
    BY <2>1 DEF Smaller
  <2>3. took \in Int /\ took <= i
    BY <1>1, <1>3, <2>2, TakesFacts DEF StreamTypes
  <2> HIDE DEF i
  <2>4. /\ handle /\ ~lzx.error /\ FrameBytes \in Seq(Nat)
        /\ \A j \in 1..call.size : window[lzx.frame_posn + j] = lzx.offset + j
        /\ \A j \in 1..call.size : FrameBytes[j] = lzx.offset + j
        /\ lzx.window_posn >= lzx.frame_posn + call.size
        /\ call.size = FrameSizeOf(lzx) /\ FrameStart = lzx.offset
        /\ Placed \/ (Ended /\ call.size = 0)
    BY <1>1, <1>3, FrameInWindow
  <2>5. lzx.offset = Len(output)
    BY <2>4 DEF IInv, BytesInv
  <2>6. PutBytes(NotBelow0(took))
    <3>1. \A j \in 1..took : FrameBytes[0 + j] = lzx.offset + j
      BY <2>1, <2>2, <2>3, <2>4
    <3>2. output' = output \o SubSeq(FrameBytes, 0 + 1, 0 + took)
      BY <1>3, <2>3
    <3>3. QED  BY <2>3, <2>5, <3>1, <3>2, PutInOrder
  <2>7. src' \in Sources /\ src'.decoded = src.decoded /\ src'.total = src.total
    BY <1>1, <1>3, UnsoundFacts
  <2>8. CASE took # i
    BY <1>1, <1>3, <2>4, <2>6, <2>7, <2>8, FailedInv DEF PutBytes
  <2>9. CASE took = i
    <3>1. /\ HeldFrame \in Waiting /\ HeldFrame.n = call.size
          /\ \/ HeldFrame.buf = "e8_buf" /\ HeldFrame.at = 0 /\ HeldFrame.e8 = FrameBytes
             \/ HeldFrame.buf = "window" /\ HeldFrame.at = lzx.frame_posn
      BY <1>1, <2>1, <2>4 DEF HeldFrame, FrameBytes, Waiting
    <3>2. /\ held' \in Waiting /\ held'.n = call.size - i /\ held'.at = HeldFrame.at + i
          /\ held'.buf = HeldFrame.buf /\ held'.e8 = HeldFrame.e8
      <4>1. held' = [HeldFrame EXCEPT !.at = @ + i, !.n = @ - i]
        BY <1>3, <2>9
      <4>2. HeldFrame.at \in Nat
        BY <3>1 DEF Waiting
      <4>3. HeldFrame.at + i \in Nat /\ HeldFrame.n - i \in Nat
        BY <2>1, <2>2, <3>1, <4>2
      <4>4. QED  BY <3>1, <4>1, <4>3 DEF Waiting
    <3>3. /\ lzx' \in Structs /\ lzx'.offset = lzx.offset + i /\ lzx'.error = lzx.error
          /\ lzx'.frame_posn = Wrapped(lzx.frame_posn + call.size)
          /\ lzx'.window_posn = Wrapped(lzx.window_posn) /\ lzx'.length = lzx.length
      <4>1. lzx' = [lzx EXCEPT !.offset = @ + i, !.frame = NextFrame,
                      !.frame_posn = Wrapped(@ + call.size), !.window_posn = Wrapped(@)]
        BY <1>3, <2>9
      <4>2. /\ lzx.offset + i \in Nat /\ NextFrame \in Nat
            /\ Wrapped(lzx.frame_posn + call.size) \in Nat /\ Wrapped(lzx.window_posn) \in Nat
        BY <2>1, <2>2 DEF NextFrame, Wrapped
      <4>3. QED  BY <1>1, <4>1, <4>2 DEF Structs
    <3>4. call' \in Calls /\ call'.pc = "frame"
      <4>1. call' = [call EXCEPT !.pc = "frame", !.left = @ - i]
        BY <1>3, <2>9
      <4>2. call.left - i \in Nat
        BY <2>1, <2>2
      <4>3. QED  BY <1>1, <4>1, <4>2 DEF Calls
    <3>5. /\ StreamTypes' /\ NothingLeaks' /\ FreedIsEmpty' /\ CallInv' /\ InOrder'
      BY <1>1, <2>4, <2>6, <2>7, <3>2, <3>3, <3>4
      DEF IInv, StreamTypes, NothingLeaks, FreedIsEmpty, CallInv, InOrder, PutBytes
    <3>6. lzx'.offset = Len(output')
      BY <2>2, <2>5, <2>6, <2>9, <3>3 DEF PutBytes, NotBelow0
    <3>7. HeldInOrder'
      <4>1. ASSUME NEW j \in 1..held'.n PROVE Buffer'[held'.at + j] = lzx'.offset + j
        <5>1. i + j \in 1..call.size
          BY <2>1, <2>2, <3>2
        <5>2. lzx.offset + (i + j) = lzx'.offset + j
          BY <2>1, <2>2, <3>3
        <5>3. CASE HeldFrame.buf = "e8_buf" /\ HeldFrame.at = 0 /\ HeldFrame.e8 = FrameBytes
          <6>1. Buffer' = FrameBytes /\ held'.at + j = i + j
            BY <2>2, <3>2, <5>3 DEF Buffer
          <6>2. QED  BY <2>4, <5>1, <5>2, <6>1
        <5>4. CASE HeldFrame.buf = "window" /\ HeldFrame.at = lzx.frame_posn
          <6>1. Buffer' = window /\ held'.at + j = lzx.frame_posn + (i + j)
            BY <1>1, <2>1, <2>2, <3>2, <5>4 DEF Buffer
          <6>2. window[lzx.frame_posn + (i + j)] = lzx.offset + (i + j)
            BY <2>4, <5>1
          <6>3. QED  BY <5>2, <6>1, <6>2
        <5>5. QED  BY <3>1, <5>3, <5>4
      <4>2. QED  BY <4>1 DEF HeldInOrder
    <3>8. FrameStart' = FrameStart + call.size
      BY <2>1, <2>2, <2>4, <3>2, <3>3 DEF FrameStart
    <3>9. Placed' \/ Ended'
      <4>1. CASE Placed /\ call.size = Frame
        BY <1>1, <2>4, <2>7, <3>3, <3>4, <3>8, <4>1, WrapPlaced
      <4>2. CASE Ended /\ call.size = 0
        BY <2>1, <2>4, <3>3, <3>8, <4>2 DEF Ended
      <4>3. CASE call.size # Frame
        <5>1. lzx.length # 0 /\ call.size = lzx.length - lzx.offset
          BY <2>1, <2>4, <4>3, FrameSizeFacts, Sizes
        <5>2. QED  BY <2>1, <2>4, <3>3, <3>8, <5>1 DEF Ended
      <4>4. Placed \/ (Ended /\ call.size = 0)
        BY <2>4
      <4>5. QED  BY <4>1, <4>2, <4>3, <4>4
    <3>10. lzx'.length # 0 => FrameStart' <= lzx'.length
      BY <2>1, <2>4, <3>3, <3>8, FrameSizeFacts
    <3>11. lzx'.window_posn <= Window
      BY <2>1, <2>4, <3>3, Sizes DEF Wrapped, IInv, BytesInv
    <3>12. BytesInv'
      BY <2>4, <3>3, <3>4, <3>6, <3>7, <3>9, <3>10, <3>11 DEF BytesInv, InsideFrame
    <3>13. QED
      BY <1>1, <2>7, <3>5, <3>12 DEF IInv
  <2>10. QED  BY <2>8, <2>9
<1>4. QED  BY <1>1, <1>2, <1>3 DEF EndFrame, FrameBytes

-----------------------------------------------------------------------------
(* A step of the stream, whoever its caller is.                            *)
AnyStream ==
  \E valid \in BOOLEAN, got \in SUBSET Parts, s \in Streams, length \in Nat, r \in Int :
    InitStream(valid, got, s, length, r)
Asked == \E n \in Asks : Decompress(n)
StreamStep == AnyStream \/ SetOutputLength \/ Asked \/ Free \/ Within \/ UNCHANGED vars

LEMMA StepInv ==
  ASSUME IInv, StreamStep PROVE IInv'
<1>1. CASE AnyStream
  BY <1>1, InitStreamInv DEF AnyStream
<1>2. CASE SetOutputLength
  BY <1>2, SetOutputLengthInv
<1>3. CASE Asked
  BY <1>3, DecompressInv DEF Asked
<1>4. CASE Free
  BY <1>4, FreeInv
<1>5. CASE Within
  <2>1. CASE StartFrame
    BY <2>1, StartFrameInv
  <2>2. CASE Blocks
    BY <2>2, OpenBlockInv DEF Blocks
  <2>3. CASE Runs
    BY <2>3, RunInv DEF Runs
  <2>4. CASE EndFrame
    BY <2>4, EndFrameInv
  <2>5. CASE FinishCall
    BY <2>5, FinishCallInv
  <2>6. CASE BadInput
    BY <2>6, BadInputInv
  <2>7. QED  BY <1>5, <2>1, <2>2, <2>3, <2>4, <2>5, <2>6 DEF Within
<1>6. CASE UNCHANGED vars
  BY <1>6, UnchangedInv DEF vars
<1>7. QED  BY <1>1, <1>2, <1>3, <1>4, <1>5, <1>6 DEF StreamStep

LEMMA LibrarySteps == Library => StreamStep
<1> SUFFICES ASSUME Library PROVE StreamStep
  OBVIOUS
<1>1. ASSUME NEW valid \in BOOLEAN, NEW got \in SUBSET Parts, NEW s \in Streams,
             NEW length \in {0, s.total}, InitStream(valid, got, s, length, AnyRoom)
      PROVE  AnyStream
  <2>1. length \in Nat
    BY Sizes
  <2>2. AnyRoom \in Int
    BY DEF AnyRoom
  <2>3. QED  BY <1>1, <2>1, <2>2 DEF AnyStream
<1>2. QED  BY <1>1 DEF Library, StreamStep, Asked

LEMMA NextSteps == [Next]_vars => StreamStep
BY LibrarySteps DEF Next, StreamStep

(* Every state of a stream under the calls of lzxd.h.                      *)
THEOREM StreamInvariant == Spec => []IInv
<1>1. IInv /\ [Next]_vars => IInv'
  BY NextSteps, StepInv
<1>2. QED  BY InitInv, <1>1, PTL DEF Spec

(* Every way out of lzxd_init and lzxd_free leaves the allocations that a  *)
(* caller can still reach, and no others.                                  *)
THEOREM StreamLeaksNothing == Spec => []NothingLeaks
<1>1. IInv => NothingLeaks
  BY DEF IInv
<1>2. QED  BY StreamInvariant, <1>1, PTL

-----------------------------------------------------------------------------
(* The refinement: a step of the stream is one of the promise's, or none.  *)
PromiseStep == [Promise!Next]_(Promise!vars)

LEMMA PromisedInit == Init => Promise!Init
BY DEF Init, Promise!Init, NoCall

LEMMA PromisedStutter ==
  ASSUME UNCHANGED <<handle, output>>, handle => lzx'.error = lzx.error, call'.left = call.left
  PROVE  PromiseStep
BY DEF PromiseStep, Promise!vars

(* What a call puts out, of what it owes or is asked for.                  *)
LEMMA PromisedPut ==
  ASSUME handle, handle', ~lzx.error, NEW due \in Nat, NEW k \in 0..due, PutBytes(k),
         call'.left = IF lzx'.error THEN 0 ELSE due - k,
         \/ call.left = 0 /\ due \in Asks
         \/ call.left > 0 /\ due = call.left
  PROVE  PromiseStep
<1>1. Promise!Put(k, due)
  <2>1. output' = output \o Promise!Following(k)
    BY DEF PutBytes, Promise!Following
  <2>2. k <= due
    OBVIOUS
  <2>3. CASE lzx'.error
    BY <2>1, <2>2, <2>3 DEF Promise!Put
  <2>4. CASE ~lzx'.error
    BY <2>1, <2>2, <2>4 DEF Promise!Put
  <2>5. QED  BY <2>3, <2>4
<1>2. CASE call.left = 0 /\ due \in Asks
  <2>1. due \in Asks \cap Nat /\ Promise!Ask(due)
    BY <1>1, <1>2 DEF Promise!Ask
  <2>2. QED  BY <2>1 DEF PromiseStep, Promise!Next
<1>3. CASE call.left > 0 /\ due = call.left
  <2>1. Promise!Deliver
    BY <1>1, <1>3 DEF Promise!Deliver
  <2>2. QED  BY <2>1 DEF PromiseStep, Promise!Next
<1>4. QED  BY <1>2, <1>3

(* A call that fails, with k bytes of what it owes put out.                *)
LEMMA PromisedFailure ==
  ASSUME IInv, call.pc # "idle", UNCHANGED handle, Error,
         NEW k \in 0..call.left, PutBytes(k)
  PROVE  PromiseStep
<1>1. handle /\ ~lzx.error /\ call.left \in Nat /\ \E n \in Asks : n \in Nat
  BY Numbers DEF IInv, CallInv
<1>2. lzx'.error /\ call'.left = 0
  BY DEF Error, NoCall, IInv, StreamTypes, Structs
<1>3. CASE call.left > 0
  BY <1>1, <1>2, <1>3, PromisedPut
<1>4. CASE call.left = 0
  <2>1. PICK n \in Asks : n \in Nat
    BY <1>1
  <2>2. k \in 0..n
    BY <1>4, <2>1
  <2>3. QED  BY <1>1, <1>2, <1>4, <2>1, <2>2, PromisedPut
<1>5. QED  BY <1>1, <1>3, <1>4

LEMMA NothingPut ==
  ASSUME IInv, UNCHANGED output PROVE PutBytes(0)
<1>1. output \in Seq(Nat) /\ InOrder
  BY DEF IInv, StreamTypes
<1>2. [j \in 1..0 |-> Len(output) + j] = <<>>
  OBVIOUS
<1>3. output \o <<>> = output
  BY <1>1, ConcatEmptySeq
<1>4. InOrder' /\ output' \in Seq(Nat) /\ Len(output') = Len(output) + 0
  BY <1>1, LenProperties DEF InOrder
<1>5. QED  BY <1>2, <1>3, <1>4 DEF PutBytes

LEMMA PromisedSilentFailure ==
  ASSUME IInv, call.pc # "idle", UNCHANGED <<handle, output>>, Error PROVE PromiseStep
<1>1. PutBytes(0) /\ call.left \in Nat
  BY NothingPut, Numbers DEF IInv
<1>2. QED  BY <1>1, PromisedFailure

LEMMA PromisedDecompress ==
  ASSUME IInv, NEW n \in Asks, Decompress(n) PROVE PromiseStep
<1>1. /\ handle /\ handle' /\ call.pc = "idle" /\ call.left = 0 /\ n \in Int /\ StreamTypes
  BY Sizes DEF Decompress, IInv, CallInv, NoCall
<1>2. CASE UNCHANGED <<src, lzx, held, call, output>>
  BY <1>1, <1>2, PromisedStutter
<1> DEFINE i == Smaller(held.n, n)
           rest == n - i
<1>3. ASSUME n >= 0, ~lzx.error, NEW took \in IF i = 0 THEN {0} ELSE Takes(i),
             output' = output \o HeldBytes(took),
             \/ took # i /\ Error
             \/ /\ took = i
                /\ lzx' = [lzx EXCEPT !.offset = @ + i]
                /\ call' = IF rest = 0 THEN NoCall
                           ELSE [NoCall EXCEPT !.pc = "frame", !.left = rest, !.R = lzx.R,
                                   !.end = EndFrameOf(lzx.offset + i + rest)]
      PROVE  PromiseStep
  <2>1. held.n \in Nat /\ lzx \in Structs /\ output \in Seq(Nat) /\ room \in Int
    BY <1>1, Numbers DEF StreamTypes
  <2>2. i \in Nat /\ i <= held.n /\ i <= n /\ rest = n - i
    BY <1>1, <1>3, <2>1 DEF Smaller
  <2>3. took \in Int /\ took <= i
    BY <1>3, <2>1, <2>2, TakesFacts
  <2> HIDE DEF i, rest
  <2>4. PutBytes(NotBelow0(took))
    <3>1. took <= held.n
      BY <2>1, <2>2, <2>3
    <3>2. QED  BY <1>1, <1>3, <2>3, <3>1, HeldPutOut
  <2>5. n \in Nat /\ NotBelow0(took) \in 0..n
    BY <1>1, <1>3, <2>2, <2>3 DEF NotBelow0
  <2>6. CASE took # i
    <3>1. Error
      BY <1>3, <2>6
    <3>2. lzx'.error /\ call'.left = 0
      BY <2>1, <3>1 DEF Error, NoCall, Structs
    <3>3. QED  BY <1>1, <1>3, <2>4, <2>5, <3>2, PromisedPut
  <2>7. CASE took = i
    <3>1. lzx' = [lzx EXCEPT !.offset = @ + i]
      BY <1>3, <2>7
    <3>2. ~lzx'.error
      BY <1>3, <2>1, <3>1 DEF Structs
    <3>3. call'.left = rest
      <4>1. call' = IF rest = 0 THEN NoCall
                    ELSE [NoCall EXCEPT !.pc = "frame", !.left = rest, !.R = lzx.R,
                            !.end = EndFrameOf(lzx.offset + i + rest)]
        BY <1>3, <2>7
      <4>2. QED  BY <4>1 DEF NoCall
    <3>4. call'.left = n - NotBelow0(took)
      BY <2>2, <2>7, <3>3 DEF NotBelow0
    <3>5. QED  BY <1>1, <1>3, <2>4, <2>5, <3>2, <3>4, PromisedPut
  <2>8. QED  BY <2>6, <2>7
<1>4. QED  BY <1>1, <1>2, <1>3 DEF Decompress

LEMMA PromisedEndFrame ==
  ASSUME IInv, EndFrame PROVE PromiseStep
<1>1. /\ call.pc = "blocks" /\ call.todo <= 0 /\ StreamTypes /\ UNCHANGED handle
      /\ handle /\ ~lzx.error
  BY DEF EndFrame, IInv, CallInv
<1>2. CASE Error /\ UNCHANGED <<src, held, output>>
  BY <1>1, <1>2, PromisedSilentFailure
<1> DEFINE i == Smaller(call.left, call.size)
<1>3. ASSUME held.n = 0, NEW took \in Takes(i),
             output' = output \o SubSeq(FrameBytes, 1, took),
             \/ took # i /\ Error
             \/ /\ took = i
                /\ lzx' = [lzx EXCEPT !.offset = @ + i, !.frame = NextFrame,
                             !.frame_posn = Wrapped(@ + call.size),
                             !.window_posn = Wrapped(@)]
                /\ call' = [call EXCEPT !.pc = "frame", !.left = @ - i]
      PROVE  PromiseStep
  <2>1. /\ call.size \in Nat /\ call.left \in Nat /\ lzx \in Structs /\ call \in Calls
        /\ output \in Seq(Nat) /\ room \in Int
    BY <1>1, Numbers DEF StreamTypes
  <2>2. i \in Nat /\ i <= call.size /\ i <= call.left
    BY <2>1 DEF Smaller
  <2>3. took \in Int /\ took <= i
    BY <1>3, <2>1, <2>2, TakesFacts
  <2> HIDE DEF i
  <2>4. PutBytes(NotBelow0(took))
    <3>1. \A j \in 1..call.size : FrameBytes[j] = lzx.offset + j
      BY <1>1, <1>3, FrameInWindow
    <3>2. \A j \in 1..took : FrameBytes[0 + j] = lzx.offset + j
      BY <2>1, <2>2, <2>3, <3>1
    <3>3. output' = output \o SubSeq(FrameBytes, 0 + 1, 0 + took)
      BY <1>3, <2>3
    <3>4. lzx.offset = Len(output)
      BY <1>1 DEF IInv, BytesInv
    <3>5. QED  BY <2>3, <3>2, <3>3, <3>4, PutInOrder
  <2>5. NotBelow0(took) \in 0..call.left
    BY <2>1, <2>2, <2>3 DEF NotBelow0
  <2>6. CASE took # i
    BY <1>1, <1>3, <2>4, <2>5, <2>6, PromisedFailure
  <2>7. CASE took = i
    <3>1. ~lzx'.error /\ lzx'.error = lzx.error
      <4>1. lzx' = [lzx EXCEPT !.offset = @ + i, !.frame = NextFrame,
                      !.frame_posn = Wrapped(@ + call.size), !.window_posn = Wrapped(@)]
        BY <1>3, <2>7
      <4>2. QED  BY <1>1, <2>1, <4>1 DEF Structs
    <3>2. call'.left = call.left - NotBelow0(took)
      <4>1. call' = [call EXCEPT !.pc = "frame", !.left = @ - i]
        BY <1>3, <2>7
      <4>2. QED  BY <2>1, <2>2, <2>7, <4>1 DEF Calls, NotBelow0
    <3>3. CASE call.left > 0
      BY <1>1, <2>1, <2>4, <2>5, <3>1, <3>2, <3>3, PromisedPut
    <3>4. CASE call.left = 0
      <4>1. NotBelow0(took) = 0 /\ call'.left = call.left
        BY <2>5, <3>2, <3>4
      <4>2. output' = output
        <5>1. output' = output \o [j \in 1..0 |-> Len(output) + j]
          BY <2>4, <4>1 DEF PutBytes
        <5>2. [j \in 1..0 |-> Len(output) + j] = <<>>
          OBVIOUS
        <5>3. QED  BY <2>1, <5>1, <5>2, ConcatEmptySeq
      <4>3. QED  BY <1>1, <3>1, <4>1, <4>2, PromisedStutter
    <3>5. QED  BY <2>1, <3>3, <3>4
  <2>8. QED  BY <2>6, <2>7
<1>4. QED  BY <1>1, <1>2, <1>3 DEF EndFrame, FrameBytes

LEMMA PromisedWithin ==
  ASSUME IInv, Within PROVE PromiseStep
<1>1. lzx \in Structs /\ call \in Calls
  BY DEF IInv, StreamTypes
<1>2. CASE StartFrame
  <2>1. call.pc # "idle" /\ UNCHANGED <<handle, output>>
    BY <1>2 DEF StartFrame
  <2>2. CASE Error
    BY <2>1, <2>2, PromisedSilentFailure
  <2>3. ASSUME NEW given,
               lzx' = [(IF AtReset THEN Reset(lzx) ELSE lzx)
                         EXCEPT !.filesize = given, !.header = TRUE],
               call' = [call EXCEPT !.pc = "blocks", !.size = FrameSizeOf(lzx),
                          !.todo = lzx.frame_posn + FrameSizeOf(lzx) - lzx.window_posn]
        PROVE  PromiseStep
    <3>1. lzx'.error = lzx.error
      BY <1>1, <2>3 DEF Reset, Structs
    <3>2. call'.left = call.left
      BY <1>1, <2>3 DEF Calls
    <3>3. QED  BY <2>1, <3>1, <3>2, PromisedStutter
  <2>4. QED  BY <1>2, <2>2, <2>3 DEF StartFrame
<1>3. ASSUME NEW len \in BlockLengths, NEW stored \in BOOLEAN, NEW e8 \in BOOLEAN,
             OpenBlock(len, stored, e8)
      PROVE  PromiseStep
  <2>1. call.pc # "idle" /\ UNCHANGED <<handle, output>>
    BY <1>3 DEF OpenBlock, InBlocks
  <2>2. CASE Error
    BY <2>1, <2>2, PromisedSilentFailure
  <2>3. ASSUME lzx' = [lzx EXCEPT !.block = len, !.stored = stored, !.started = @ \/ stored \/ e8],
               NEW R, call' = [call EXCEPT !.R = R]
        PROVE  PromiseStep
    <3>1. lzx'.error = lzx.error /\ call'.left = call.left
      BY <1>1, <2>3 DEF Structs, Calls
    <3>2. QED  BY <2>1, <3>1, PromisedStutter
  <2>4. QED  BY <1>3, <2>2, <2>3 DEF OpenBlock
<1>4. ASSUME NEW spill \in 0..MaxSpill, Run(spill) PROVE PromiseStep
  <2>1. call.pc # "idle" /\ UNCHANGED <<handle, output>>
    BY <1>4 DEF Run, InBlocks
  <2>2. CASE Error
    BY <2>1, <2>2, PromisedSilentFailure
  <2> DEFINE run == Smaller(lzx.block, call.todo)
             n == run + spill
  <2>3. ASSUME lzx' = [lzx EXCEPT !.window_posn = @ + n, !.block = @ - n],
               NEW R, call' = [call EXCEPT !.todo = @ - run, !.R = R]
        PROVE  PromiseStep
    <3>1. lzx'.error = lzx.error /\ call'.left = call.left
      BY <1>1, <2>3 DEF Structs, Calls
    <3>2. QED  BY <2>1, <3>1, PromisedStutter
  <2>4. QED  BY <1>4, <2>2, <2>3 DEF Run
<1>5. CASE EndFrame
  BY <1>5, PromisedEndFrame
<1>6. CASE FinishCall
  <2>1. call.pc # "idle" /\ UNCHANGED <<handle, output>>
    BY <1>6 DEF FinishCall
  <2>2. CASE Error
    BY <2>1, <2>2, PromisedSilentFailure
  <2>3. CASE call.left = 0 /\ lzx' = [lzx EXCEPT !.R = call.R] /\ call' = NoCall
    <3>1. lzx'.error = lzx.error /\ call'.left = call.left
      BY <1>1, <2>3 DEF Structs, NoCall
    <3>2. QED  BY <2>1, <3>1, PromisedStutter
  <2>4. QED  BY <1>6, <2>2, <2>3 DEF FinishCall
<1>7. CASE BadInput
  <2>1. call.pc # "idle" /\ UNCHANGED <<handle, output>> /\ Error
    BY <1>7 DEF BadInput
  <2>2. QED  BY <2>1, PromisedSilentFailure
<1>8. QED  BY <1>2, <1>3, <1>4, <1>5, <1>6, <1>7 DEF Within, Blocks, Runs

LEMMA PromisedStep ==
  ASSUME IInv, StreamStep PROVE PromiseStep
<1>1. ASSUME NEW valid \in BOOLEAN, NEW got \in SUBSET Parts, NEW s \in Streams,
             NEW length \in Nat, NEW r \in Int, InitStream(valid, got, s, length, r)
      PROVE  PromiseStep
  <2>1. /\ ~handle /\ UNCHANGED <<call, output>> /\ call.left = 0 /\ output = <<>>
    BY <1>1 DEF InitStream, IInv, FreedIsEmpty, CallInv, NoCall
  <2>2. CASE handle'
    <3>1. lzx' = [Fresh EXCEPT !.length = length]
      BY <1>1, <2>2 DEF InitStream
    <3>2. ~lzx'.error
      BY <3>1 DEF Fresh
    <3>3. Promise!Open
      BY <2>1, <2>2, <3>2 DEF Promise!Open
    <3>4. QED  BY <3>3 DEF PromiseStep, Promise!Next
  <2>3. CASE ~handle'
    BY <2>1, <2>3 DEF PromiseStep, Promise!vars
  <2>4. QED  BY <2>2, <2>3
<1>2. CASE SetOutputLength
  <2>1. lzx'.error = lzx.error
    BY <1>2 DEF SetOutputLength, IInv, StreamTypes, Structs
  <2>2. UNCHANGED <<handle, call, output>>
    BY <1>2 DEF SetOutputLength
  <2>3. QED  BY <2>1, <2>2, PromisedStutter
<1>3. CASE Free
  <2>1. /\ handle /\ ~handle' /\ call.left = 0 /\ call'.left = 0 /\ output' = <<>>
    BY <1>3 DEF Free, IInv, CallInv, NoCall
  <2>2. Promise!Close
    BY <2>1 DEF Promise!Close
  <2>3. QED  BY <2>2 DEF PromiseStep, Promise!Next
<1>4. CASE UNCHANGED vars
  BY <1>4, PromisedStutter DEF vars
<1>5. QED
  BY <1>1, <1>2, <1>3, <1>4, PromisedDecompress, PromisedWithin
  DEF StreamStep, AnyStream, Asked

(* However calls cut up the output, whatever buffer the bytes wait in and  *)
(* whatever fails: they come out in order, each once, and a call answers   *)
(* when its bytes are out.                                                 *)
THEOREM StreamKeepsPromise == Spec => Delivers
<1>1. IInv /\ [Next]_vars => PromiseStep
  BY NextSteps, PromisedStep
<1>2. QED
  BY StreamInvariant, PromisedInit, <1>1, PTL DEF Spec, Delivers, Promise!Spec, PromiseStep

-----------------------------------------------------------------------------
(* The extension module: who may call, and what a call of decompress has   *)
(* come to at each of its steps.                                           *)
Results == [i \in 1..outlen |-> i]

CallerInv ==
  /\ caller \in {"program", "extension"} /\ LZXwindow \in BOOLEAN /\ outlen \in Nat /\ err \in BOOLEAN
  /\ step \in {"out", "init", "call", "calling", "free", "return"}
  /\ exception \in {"none", "MemoryError", "LZXError"}
  /\ caller = "program" => step = "out"
  /\ caller = "extension" /\ step # "calling" => call.pc = "idle"
  /\ step \in {"init", "call", "calling"} => outlen \in OutLengths

ResultInv ==
  /\ step \in {"out", "init", "call", "calling"} => exception = "none"
  /\ step = "out" => retval = NULL
  /\ step = "call" => ~lzx.error /\ lzx.offset = 0
  /\ step = "calling" =>
       /\ handle
       /\ call.pc # "idle" => lzx.offset + call.left = outlen
       /\ call.pc = "idle" /\ answer = "ok" => ~lzx.error /\ lzx.offset = outlen
  /\ step = "free" /\ ~err => retval = Results /\ exception = "none"
  /\ ResultIsWhole

ModuleInv == IInv /\ CallerInv /\ ResultInv

LEMMA ModuleInitInv == ModuleInit => ModuleInv
<1> SUFFICES ASSUME ModuleInit PROVE ModuleInv
  OBVIOUS
<1>1. IInv
  BY InitInv DEF ModuleInit
<1>2. CallerInv
  BY DEF ModuleInit, Init, NoCall, CallerInv
<1>3. ResultInv
  BY DEF ModuleInit, ResultInv, ResultIsWhole
<1>4. QED  BY <1>1, <1>2, <1>3 DEF ModuleInv

LEMMA ModuleSteps ==
  ASSUME CallerInv, [ModuleNext]_allvars PROVE StreamStep
<1>1. CASE caller = "program" /\ Library
  BY <1>1, LibrarySteps
<1>2. CASE Made
  <2>1. PICK got \in SUBSET Parts, s \in Streams : MakeStream(got, s)
    BY <1>2 DEF Made
  <2>2. outlen \in Nat /\ outlen \in Int /\ LZXwindow \in BOOLEAN
    BY DEF CallerInv
  <2>3. QED  BY <2>1, <2>2 DEF MakeStream, StreamStep, AnyStream
<1>3. CASE Start
  <2>1. outlen \in Asks /\ Decompress(outlen)
    BY <1>3, ModuleAssumption DEF Start, CallerInv
  <2>2. QED  BY <2>1 DEF StreamStep, Asked
<1>4. CASE Dispose
  BY <1>4 DEF Dispose, StreamStep
<1>5. CASE Within
  BY <1>5 DEF StreamStep
<1>6. CASE UNCHANGED vars
  BY <1>6 DEF StreamStep
<1>7. QED
  BY <1>1, <1>2, <1>3, <1>4, <1>5, <1>6
  DEF ModuleNext, Inside, allvars, SetWindow, Enter, Answered, Return

(* A step of a call moves bytes from what is left to what is out, and the  *)
(* call answers when all are out.                                          *)
LEMMA CallProgress ==
  ASSUME IInv, Within
  PROVE  /\ call.pc # "idle" /\ handle'
         /\ call'.pc # "idle" => lzx'.offset + call'.left = lzx.offset + call.left
         /\ call'.pc = "idle" /\ answer' = "ok" => ~lzx'.error /\ lzx'.offset = lzx.offset + call.left
<1>1. /\ call.pc # "idle" /\ UNCHANGED handle
  BY DEF Within, StartFrame, Blocks, OpenBlock, InBlocks, Runs, Run, EndFrame, FinishCall, BadInput
<1>2. /\ lzx \in Structs /\ call \in Calls /\ handle /\ ~lzx.error
      /\ lzx.offset \in Nat /\ call.left \in Nat
  BY <1>1, Numbers DEF IInv, StreamTypes, CallInv
<1>3. CASE Error
  BY <1>1, <1>2, <1>3 DEF Error, NoCall
<1>4. ASSUME NEW given,
             lzx' = [(IF AtReset THEN Reset(lzx) ELSE lzx)
                       EXCEPT !.filesize = given, !.header = TRUE],
             call' = [call EXCEPT !.pc = "blocks", !.size = FrameSizeOf(lzx),
                        !.todo = lzx.frame_posn + FrameSizeOf(lzx) - lzx.window_posn]
      PROVE  call'.pc # "idle" /\ lzx'.offset + call'.left = lzx.offset + call.left
  <2>1. lzx'.offset = lzx.offset
    BY <1>2, <1>4 DEF Reset, Structs
  <2>2. call'.pc = "blocks" /\ call'.left = call.left
    BY <1>2, <1>4 DEF Calls
  <2>3. QED  BY <2>1, <2>2
<1>5. CASE StartFrame
  <2>1. Error \/ (call'.pc # "idle" /\ lzx'.offset + call'.left = lzx.offset + call.left)
    BY <1>4, <1>5 DEF StartFrame
  <2>2. QED  BY <1>1, <1>2, <1>3, <2>1
<1>6. ASSUME NEW len \in BlockLengths, NEW stored \in BOOLEAN, NEW e8 \in BOOLEAN,
             OpenBlock(len, stored, e8), ~Error
      PROVE  call'.pc # "idle" /\ lzx'.offset + call'.left = lzx.offset + call.left
  <2>1. lzx' = [lzx EXCEPT !.block = len, !.stored = stored, !.started = @ \/ stored \/ e8]
    BY <1>6 DEF OpenBlock
  <2>2. PICK R : call' = [call EXCEPT !.R = R]
    BY <1>6 DEF OpenBlock
  <2>3. lzx'.offset = lzx.offset /\ call'.pc = call.pc /\ call'.left = call.left
    BY <1>2, <2>1, <2>2 DEF Structs, Calls
  <2>4. QED  BY <1>1, <2>3
<1>7. ASSUME NEW spill \in 0..MaxSpill, Run(spill), ~Error
      PROVE  call'.pc # "idle" /\ lzx'.offset + call'.left = lzx.offset + call.left
  <2> DEFINE run == Smaller(lzx.block, call.todo)
             n == run + spill
  <2>1. lzx' = [lzx EXCEPT !.window_posn = @ + n, !.block = @ - n]
    BY <1>7 DEF Run
  <2>2. PICK R : call' = [call EXCEPT !.todo = @ - run, !.R = R]
    BY <1>7 DEF Run
  <2>3. lzx'.offset = lzx.offset /\ call'.pc = call.pc /\ call'.left = call.left
    BY <1>2, <2>1, <2>2 DEF Structs, Calls
  <2>4. QED  BY <1>1, <2>3
<1>8. ASSUME EndFrame, ~Error
      PROVE  call'.pc # "idle" /\ lzx'.offset + call'.left = lzx.offset + call.left
  <2> DEFINE i == Smaller(call.left, call.size)
  <2>1. /\ lzx' = [lzx EXCEPT !.offset = @ + i, !.frame = NextFrame,
                     !.frame_posn = Wrapped(@ + call.size), !.window_posn = Wrapped(@)]
        /\ call' = [call EXCEPT !.pc = "frame", !.left = @ - i]
    BY <1>8 DEF EndFrame
  <2>2. i \in Int
    BY <1>2 DEF Smaller, Calls
  <2> HIDE DEF i
  <2>3. lzx'.offset = lzx.offset + i
    BY <1>2, <2>1 DEF Structs
  <2>4. call'.pc = "frame" /\ call'.left = call.left - i
    BY <1>2, <2>1 DEF Calls
  <2>5. QED  BY <1>2, <2>2, <2>3, <2>4
<1>9. ASSUME FinishCall, ~Error
      PROVE  ~lzx'.error /\ call'.pc = "idle" /\ lzx'.offset = lzx.offset + call.left
  <2>1. call.left = 0 /\ lzx' = [lzx EXCEPT !.R = call.R] /\ call' = NoCall
    BY <1>9 DEF FinishCall
  <2>2. lzx'.error = lzx.error /\ lzx'.offset = lzx.offset
    BY <1>2, <2>1 DEF Structs
  <2>3. QED  BY <1>2, <2>1, <2>2 DEF NoCall
<1>10. BadInput => Error
  BY DEF BadInput
<1>11. CASE ~Error /\ (Blocks \/ Runs \/ EndFrame)
  <2>1. call'.pc # "idle" /\ lzx'.offset + call'.left = lzx.offset + call.left
    BY <1>6, <1>7, <1>8, <1>11 DEF Blocks, Runs
  <2>2. QED  BY <1>1, <1>2, <2>1
<1>12. CASE ~Error /\ FinishCall
  BY <1>1, <1>2, <1>9, <1>12
<1>13. QED
  BY <1>3, <1>5, <1>10, <1>11, <1>12 DEF Within

LEMMA StartInv ==
  ASSUME ModuleInv, Start PROVE CallerInv' /\ ResultInv'
<1>1. /\ step = "call" /\ step' = "calling" /\ Decompress(outlen)
      /\ UNCHANGED <<caller, LZXwindow, outlen, retval, err, exception>>
      /\ outlen \in OutLengths /\ outlen \in Nat /\ exception = "none"
      /\ ~lzx.error /\ lzx.offset = 0 /\ lzx \in Structs /\ StreamTypes
  BY DEF Start, ModuleInv, CallerInv, ResultInv, IInv, StreamTypes
<1>2. CallerInv'
  BY <1>1 DEF ModuleInv, CallerInv
<1>3. /\ handle'
      /\ call'.pc # "idle" => lzx'.offset + call'.left = outlen
      /\ call'.pc = "idle" /\ answer' = "ok" => ~lzx'.error /\ lzx'.offset = outlen
  <2> DEFINE i == Smaller(held.n, outlen)
             rest == outlen - i
  <2>1. handle' /\ i \in Nat /\ rest \in Int
    <3>1. held.n \in Nat /\ outlen \in Nat
      BY <1>1, Numbers
    <3>2. i \in Nat /\ rest \in Int
      BY ONLY <3>1 DEF Smaller
    <3> HIDE DEF i, rest
    <3>3. handle'
      BY <1>1 DEF Decompress
    <3>4. QED  BY <3>2, <3>3
  <2>2. CASE Error
    BY <2>1, <2>2 DEF Error, NoCall
  <2>3. ASSUME lzx' = [lzx EXCEPT !.offset = @ + i], answer' = IF rest = 0 THEN "ok" ELSE "none",
               call' = IF rest = 0 THEN NoCall
                       ELSE [NoCall EXCEPT !.pc = "frame", !.left = rest, !.R = lzx.R,
                               !.end = EndFrameOf(lzx.offset + i + rest)]
        PROVE  /\ call'.pc # "idle" => lzx'.offset + call'.left = outlen
               /\ call'.pc = "idle" /\ answer' = "ok" => ~lzx'.error /\ lzx'.offset = outlen
    <3> HIDE DEF rest, i
    <3>1. lzx'.offset = lzx.offset + i /\ lzx'.error = lzx.error
      BY <1>1, <2>3 DEF Structs
    <3>2. rest # 0 => call'.pc = "frame" /\ call'.left = rest
      BY <2>3 DEF NoCall
    <3>3. rest = 0 => call'.pc = "idle" /\ i = outlen
      BY <1>1, <2>1, <2>3 DEF NoCall, rest
    <3>4. rest = outlen - i
      BY DEF rest
    <3>5. QED  BY <1>1, <2>1, <3>1, <3>2, <3>3, <3>4
  <2>4. QED  BY <1>1, <2>1, <2>2, <2>3 DEF Decompress
<1>4. QED  BY <1>1, <1>2, <1>3 DEF ResultInv, ResultIsWhole

(* The answer "ok" means that every byte of the object was written.        *)
LEMMA AnsweredInv ==
  ASSUME ModuleInv, Answered PROVE CallerInv' /\ ResultInv'
<1>1. /\ step = "calling" /\ step' = "free" /\ call.pc = "idle"
      /\ UNCHANGED <<vars, caller, LZXwindow, outlen, exception>>
      /\ err' = (answer # "ok") /\ retval' = Object
      /\ outlen \in Nat /\ exception = "none"
  BY DEF Answered, ModuleInv, CallerInv, ResultInv
<1>2. CallerInv'
  BY <1>1 DEF ModuleInv, CallerInv, vars
<1>3. ASSUME answer = "ok" PROVE Object = Results
  <2>1. Len(output) = outlen /\ InOrder
    BY <1>1, <1>3 DEF ModuleInv, ResultInv, IInv, BytesInv
  <2>2. \A i \in 1..outlen : i <= Len(output) /\ output[i] = i
    BY <1>1, <2>1 DEF InOrder
  <2>3. QED  BY <2>2 DEF Object, Results
<1>4. ~err' => retval' = Results' /\ exception' = "none"
  BY <1>1, <1>3 DEF Results
<1>5. QED  BY <1>1, <1>2, <1>4 DEF ResultInv, ResultIsWhole

LEMMA DisposeInv ==
  ASSUME ModuleInv, Dispose PROVE CallerInv' /\ ResultInv'
<1>1. /\ step = "free" /\ step' = "return" /\ caller = "extension"
      /\ UNCHANGED <<caller, LZXwindow, outlen, err>> /\ err \in BOOLEAN
      /\ retval' = (IF err THEN NULL ELSE retval)
      /\ exception' = (IF err THEN "LZXError" ELSE exception)
  BY DEF Dispose, SetsException, ModuleInv, CallerInv
<1>2. call'.pc = "idle"
  BY <1>1 DEF Dispose, Free, vars, NoCall, ModuleInv, CallerInv
<1>3. CallerInv'
  BY <1>1, <1>2 DEF ModuleInv, CallerInv
<1>4. ResultIsWhole'
  BY <1>1 DEF ModuleInv, ResultInv, ResultIsWhole, Results
<1>5. QED  BY <1>1, <1>3, <1>4 DEF ResultInv

LEMMA MakeStreamInv ==
  ASSUME ModuleInv, NEW got \in SUBSET Parts, NEW s \in Streams, MakeStream(got, s)
  PROVE  CallerInv' /\ ResultInv'
<1>1. /\ step = "init" /\ InitStream(LZXwindow, got, s, outlen, outlen) /\ err' = ~handle'
      /\ exception' = (IF LZXwindow /\ got # Parts THEN "MemoryError" ELSE exception)
      /\ step' = (IF handle' THEN "call" ELSE "free")
      /\ UNCHANGED <<caller, LZXwindow, outlen, retval>>
      /\ exception = "none" /\ UNCHANGED call /\ outlen \in OutLengths
  BY DEF MakeStream, InitStream, ModuleInv, CallerInv, ResultInv
<1>2. CallerInv'
  BY <1>1 DEF ModuleInv, CallerInv
<1>3. CASE handle'
  <2>1. lzx' = [Fresh EXCEPT !.length = outlen] /\ got = Parts
    BY <1>1, <1>3 DEF InitStream
  <2>2. ~lzx'.error /\ lzx'.offset = 0
    BY <2>1 DEF Fresh
  <2>3. QED  BY <1>1, <1>2, <1>3, <2>1, <2>2 DEF ResultInv, ResultIsWhole
<1>4. CASE ~handle'
  BY <1>1, <1>2, <1>4 DEF ResultInv, ResultIsWhole
<1>5. QED  BY <1>3, <1>4

LEMMA ModuleStepInv ==
  ASSUME ModuleInv, [ModuleNext]_allvars PROVE ModuleInv'
<1>1. IInv'
  BY ModuleSteps, StepInv DEF ModuleInv
<1>2. CASE caller = "program" /\ Library /\ UNCHANGED modvars
  BY <1>1, <1>2 DEF ModuleInv, CallerInv, ResultInv, ResultIsWhole, modvars, Results
<1>3. CASE UNCHANGED allvars
  BY <1>1, <1>3 DEF ModuleInv, CallerInv, ResultInv, ResultIsWhole, Results, allvars, vars, modvars
<1>4. ASSUME NEW valid \in BOOLEAN, SetWindow(valid) PROVE CallerInv' /\ ResultInv'
  BY <1>4 DEF SetWindow, vars, ModuleInv, CallerInv, ResultInv, ResultIsWhole
<1>5. ASSUME NEW n \in OutLengths, NEW memory \in BOOLEAN, Enter(n, memory)
      PROVE  CallerInv' /\ ResultInv'
  <2>1. n \in Nat
    BY ModuleAssumption
  <2>2. QED
    BY <1>5, <2>1 DEF Enter, vars, ModuleInv, CallerInv, ResultInv, ResultIsWhole
<1>6. CASE Within /\ UNCHANGED modvars
  <2>1. /\ call.pc # "idle" /\ handle'
        /\ call'.pc # "idle" => lzx'.offset + call'.left = lzx.offset + call.left
        /\ call'.pc = "idle" /\ answer' = "ok" => ~lzx'.error /\ lzx'.offset = lzx.offset + call.left
    BY <1>6, CallProgress DEF ModuleInv
  <2>2. step \in {"out", "calling"}
    BY <2>1 DEF ModuleInv, CallerInv
  <2>3. CallerInv'
    BY <1>6, <2>1, <2>2 DEF ModuleInv, CallerInv, modvars
  <2>4. ResultInv'
    BY <1>6, <2>1, <2>2 DEF ModuleInv, ResultInv, ResultIsWhole, modvars
  <2>5. QED  BY <1>1, <2>3, <2>4 DEF ModuleInv
<1>7. CASE Return
  BY <1>1, <1>7 DEF Return, vars, ModuleInv, CallerInv, ResultInv, ResultIsWhole
<1>8. QED
  BY <1>1, <1>2, <1>3, <1>4, <1>5, <1>6, <1>7, StartInv, AnsweredInv, DisposeInv, MakeStreamInv
  DEF ModuleNext, Inside, Made, ModuleInv

THEOREM ModuleInvariant == ModuleSpec => []ModuleInv
BY ModuleInitInv, ModuleStepInv, PTL DEF ModuleSpec

(* decompress returns all of what was asked for or nothing: an object of   *)
(* which every byte was written, in order, or NULL and an exception.       *)
THEOREM ModuleResultIsWhole == ModuleSpec => []ResultIsWhole
<1>1. ModuleInv => ResultIsWhole
  BY DEF ModuleInv, ResultInv
<1>2. QED  BY ModuleInvariant, <1>1, PTL

(* Behind the extension module the allocations are the stream's, too.      *)
THEOREM ModuleLeaksNothing == ModuleSpec => []NothingLeaks
<1>1. ModuleInv => NothingLeaks
  BY DEF ModuleInv, IInv
<1>2. QED  BY ModuleInvariant, <1>1, PTL

(* The stream keeps its promise to the extension module as to a program.   *)
THEOREM ModuleKeepsPromise == ModuleSpec => Delivers
<1>1. ModuleInit => Promise!Init
  BY PromisedInit DEF ModuleInit
<1>2. ModuleInv /\ [ModuleNext]_allvars => PromiseStep
  BY ModuleSteps, PromisedStep DEF ModuleInv
<1>3. QED
  BY ModuleInvariant, <1>1, <1>2, PTL DEF ModuleSpec, Delivers, Promise!Spec, PromiseStep

-----------------------------------------------------------------------------
(***************************************************************************)
(* A sound stream of known length is decoded to its end. The invariant     *)
(* ties the number of the frame to the bytes that are out and held, to the *)
(* frame a call ends at, and to the block that may not go over a reset.    *)
(***************************************************************************)
FramesCounted ==
  /\ \/ FrameStart = lzx.frame * Frame
     \/ lzx.length # 0 /\ FrameStart = lzx.length /\ lzx.length <= lzx.frame * Frame
  /\ FrameStart = lzx.frame * Frame => Placed

CallFits ==
  call.pc # "idle" =>
    /\ call.end = EndFrameOf(lzx.offset + call.left)
    /\ call.left > 0 => held.n = 0
    /\ lzx.length # 0 => lzx.offset + call.left <= lzx.length /\ lzx.length <= src.total
    /\ call.pc = "blocks" => lzx.frame < call.end

(* The frame that is decoded, or was the last.                             *)
ThisFrame == IF call.pc = "blocks" THEN lzx.frame ELSE lzx.frame - 1

ResetBehind(f) == (src.interval * Frame) * ((f \div src.interval) + 1)

BlockFits ==
  lzx.block > 0 /\ src.interval # 0 => src.decoded + lzx.block <= ResetBehind(ThisFrame)

LengthKnown == handle => lzx.length \in {0, src.total} \/ src.interval = 0

SoundInv ==
  /\ LengthKnown
  /\ handle /\ ~lzx.error /\ src.sound => FramesCounted /\ CallFits /\ BlockFits
  /\ SoundAnswered

-----------------------------------------------------------------------------
(* A call goes on up to the frame that holds its last byte, or the one     *)
(* behind it.                                                              *)
LEMMA EndFrameFacts ==
  ASSUME NEW f \in Nat, NEW o \in Nat
  PROVE  /\ f < EndFrameOf(o) <=> f * Frame <= o
         /\ f * Frame \in Nat /\ (f + 1) * Frame = f * Frame + Frame
<1> DEFINE q == o \div Frame
<1>1. Frame \in Nat /\ Frame > 0
  BY Sizes
<1>2. q \in Int /\ q * Frame <= o /\ o < q * Frame + Frame
  BY <1>1
<1>3. EndFrameOf(o) = q + 1
  BY DEF EndFrameOf
<1> HIDE DEF q
<1>4. CASE f <= q
  <2>1. f * Frame <= q * Frame
    BY <1>1, <1>2, <1>4
  <2>2. QED  BY <1>1, <1>2, <1>3, <1>4, <2>1
<1>5. CASE f > q
  <2>1. f >= q + 1
    BY <1>2, <1>5
  <2>2. f * Frame >= (q + 1) * Frame
    BY <1>1, <1>2, <2>1
  <2>3. QED  BY <1>1, <1>2, <1>3, <1>5, <2>2
<1>6. QED  BY <1>2, <1>4, <1>5

(* A number is in one interval of s numbers.                               *)
LEMMA OneQuotient ==
  ASSUME NEW s \in Nat, s > 0, NEW x \in Int, NEW q \in Int, s * q <= x, x < s * (q + 1)
  PROVE  x \div s = q
<1> DEFINE p == x \div s
<1>1. p \in Int /\ s * p <= x /\ x < s * (p + 1)
  BY DEF p
<1> HIDE DEF p
<1>2. ASSUME p < q PROVE FALSE
  <2>1. p + 1 <= q
    BY <1>1, <1>2
  <2>2. s * (p + 1) <= s * q
    BY <1>1, <2>1
  <2>3. QED  BY <1>1, <2>2
<1>3. ASSUME q < p PROVE FALSE
  <2>1. q + 1 <= p
    BY <1>1, <1>3
  <2>2. s * (q + 1) <= s * p
    BY <1>1, <2>1
  <2>3. QED  BY <1>1, <2>2
<1>4. QED  BY <1>1, <1>2, <1>3 DEF p

(* Where frame f of a stream with reset points ends, its resets are.       *)
LEMMA ResetFacts ==
  ASSUME src.interval \in Nat, src.interval > 0, NEW f \in Nat
  PROVE  /\ f % src.interval = 0 =>
              /\ ResetBehind(f - 1) = f * Frame
              /\ (f * Frame) % (src.interval * Frame) = 0
         /\ f % src.interval # 0 => ResetBehind(f - 1) = ResetBehind(f)
         /\ \A d \in Nat, len \in Nat :
              /\ len > 0 /\ f * Frame <= d /\ d < f * Frame + Frame
              /\ d \div (src.interval * Frame) = (d + len - 1) \div (src.interval * Frame)
              => d + len <= ResetBehind(f)
<1> DEFINE i == src.interval
           q == f \div i
           s == i * Frame
<1>1. Frame \in Nat /\ Frame > 0 /\ i \in Nat /\ i > 0
  BY Sizes
<1>2. q \in Int /\ f = i * q + (f % i) /\ f % i \in 0..(i - 1)
  <2> HIDE DEF i
  <2>1. QED  BY <1>1
<1>3. s \in Nat /\ s > 0
  BY <1>1
<1>4. \A g \in Int : ResetBehind(g) = s * ((g \div i) + 1)
  BY DEF ResetBehind
<1> HIDE DEF i, q
<1>5. ASSUME f % i = 0
      PROVE  ResetBehind(f - 1) = f * Frame /\ (f * Frame) % s = 0
  <2>1. i * (q - 1) <= f - 1 /\ f - 1 < i * ((q - 1) + 1)
    BY <1>1, <1>2, <1>5
  <2>2. (f - 1) \div i = q - 1
    BY <1>1, <1>2, <2>1, OneQuotient
  <2>3. ResetBehind(f - 1) = s * q
    BY <1>2, <1>4, <2>2
  <2>4. s * q = f * Frame
    BY <1>1, <1>2, <1>5
  <2>5. (s * q) % s = 0
    <3> HIDE DEF s
    <3>1. QED  BY <1>2, <1>3
  <2>6. QED  BY <2>3, <2>4, <2>5
<1>6. ASSUME f % i # 0 PROVE ResetBehind(f - 1) = ResetBehind(f)
  <2>1. i * q <= f - 1 /\ f - 1 < i * (q + 1)
    BY <1>1, <1>2, <1>6
  <2>2. (f - 1) \div i = q
    BY <1>1, <1>2, <2>1, OneQuotient
  <2>3. QED  BY <1>4, <2>2 DEF q
<1>7. ASSUME NEW d \in Nat, NEW len \in Nat, len > 0,
             f * Frame <= d, d < f * Frame + Frame, d \div s = (d + len - 1) \div s
      PROVE  d + len <= ResetBehind(f)
  <2>1. s * q <= d /\ d < s * (q + 1)
    <3>1. i * q <= f /\ f + 1 <= i * (q + 1)
      BY <1>1, <1>2
    <3>2. (i * q) * Frame <= f * Frame /\ (f + 1) * Frame <= (i * (q + 1)) * Frame
      BY <1>1, <1>2, <3>1
    <3>3. (i * q) * Frame = s * q /\ (i * (q + 1)) * Frame = s * (q + 1)
      BY <1>1, <1>2
    <3>4. (f + 1) * Frame = f * Frame + Frame
      BY <1>1
    <3> HIDE DEF s
    <3>5. QED  BY <1>1, <1>2, <1>3, <1>7, <3>2, <3>3, <3>4
  <2> HIDE DEF s
  <2>2. d \div s = q
    BY <1>2, <1>3, <2>1, OneQuotient
  <2>3. (d + len - 1) \div s = q
    BY <1>7, <2>2
  <2>4. d + len - 1 < s * (q + 1)
    BY <1>2, <1>3, <1>7, <2>3
  <2>5. ResetBehind(f) = s * (q + 1)
    BY <1>4 DEF q
  <2>6. QED  BY <1>2, <1>3, <2>4, <2>5
<1>8. QED  BY <1>5, <1>6, <1>7 DEF i

-----------------------------------------------------------------------------
LEMMA SoundInitInv == Init => SoundInv
BY DEF Init, SoundInv, LengthKnown, SoundAnswered, Fresh

LEMMA SoundUnchanged ==
  ASSUME SoundInv, UNCHANGED <<handle, src, lzx, window, held, call>> PROVE SoundInv'
<1>1. FrameStart' = FrameStart /\ Ahead' = Ahead /\ ThisFrame' = ThisFrame
  BY DEF FrameStart, Ahead, ThisFrame
<1>2. Placed' = Placed
  BY <1>1 DEF Placed
<1>3. \A f : ResetBehind(f)' = ResetBehind(f)
  BY DEF ResetBehind
<1>4. (FramesCounted => FramesCounted') /\ (CallFits => CallFits') /\ (BlockFits => BlockFits')
  BY <1>1, <1>2, <1>3 DEF FramesCounted, CallFits, BlockFits
<1>5. QED
  BY <1>4 DEF SoundInv, LengthKnown, SoundAnswered, EndsAtReset

(* A call that fails says that the stream was not sound, or of the kind    *)
(* that is left out.                                                       *)
LEMMA SoundFailed ==
  ASSUME IInv, SoundInv, Error, UNCHANGED handle,
         src'.total = src.total, src'.interval = src.interval,
         src'.sound => lzx.length = 0 \/ EndsAtReset
  PROVE  SoundInv'
<1>1. lzx' = [lzx EXCEPT !.error = TRUE] /\ lzx \in Structs
  BY DEF Error, IInv, StreamTypes
<1>2. lzx'.error /\ lzx'.length = lzx.length
  BY <1>1 DEF Structs
<1>3. LengthKnown' /\ EndsAtReset' = EndsAtReset
  BY <1>2 DEF SoundInv, LengthKnown, EndsAtReset
<1>4. QED  BY <1>2, <1>3 DEF SoundInv, SoundAnswered

LEMMA SoundInitStream ==
  ASSUME IInv, SoundInv, NEW valid \in BOOLEAN, NEW got \in SUBSET Parts, NEW s \in Streams,
         NEW length \in Nat, NEW r \in Int, InitStream(valid, got, s, length, r),
         s.interval = 0 \/ length \in {0, s.total}
  PROVE  SoundInv'
<1>1. CASE handle'
  <2>1. /\ src' = [NoStream EXCEPT !.total = s.total, !.interval = s.interval, !.empty = s.empty]
        /\ lzx' = [Fresh EXCEPT !.length = length] /\ UNCHANGED <<held, call>> /\ ~handle
    BY <1>1 DEF InitStream
  <2>2. /\ src'.total = s.total /\ src'.interval = s.interval
        /\ lzx'.length = length /\ lzx'.offset = 0 /\ lzx'.frame = 0 /\ lzx'.block = 0 /\ ~lzx'.error
        /\ held'.n = 0 /\ call'.pc = "idle"
    BY <2>1 DEF NoStream, Fresh, Nothing, IInv, FreedIsEmpty
  <2>3. IInv'
    BY InitStreamInv
  <2>4. FrameStart' = 0 /\ lzx'.frame * Frame = 0
    BY <2>2, Sizes DEF FrameStart
  <2>5. Placed'
    BY <1>1, <2>2, <2>3, <2>4 DEF IInv, BytesInv, Ended
  <2>6. FramesCounted' /\ CallFits' /\ BlockFits'
    BY <2>2, <2>4, <2>5 DEF FramesCounted, CallFits, BlockFits
  <2>7. QED  BY <2>2, <2>6 DEF SoundInv, LengthKnown, SoundAnswered
<1>2. CASE ~handle'
  BY <1>2 DEF InitStream, SoundInv, LengthKnown, SoundAnswered, EndsAtReset
<1>3. QED  BY <1>1, <1>2

LEMMA SoundFree ==
  ASSUME SoundInv, Free PROVE SoundInv'
BY DEF Free, SoundInv, LengthKnown, SoundAnswered, Fresh

LEMMA SoundSetOutputLength ==
  ASSUME IInv, SoundInv, SetOutputLength PROVE SoundInv'
<1>1. /\ handle /\ call.pc = "idle" /\ ~lzx.error /\ lzx.length = 0 /\ lzx \in Structs
      /\ lzx' = [lzx EXCEPT !.length = src.total]
      /\ UNCHANGED <<handle, src, window, held, call>>
  BY DEF SetOutputLength, IInv, StreamTypes
<1>2. /\ lzx'.length = src.total /\ ~lzx'.error
      /\ lzx'.offset = lzx.offset /\ lzx'.frame = lzx.frame /\ lzx'.block = lzx.block
      /\ lzx'.frame_posn = lzx.frame_posn /\ lzx'.window_posn = lzx.window_posn
  BY <1>1 DEF Structs
<1>3. FrameStart' = FrameStart /\ Ahead' = Ahead /\ ThisFrame' = ThisFrame
  BY <1>1, <1>2 DEF FrameStart, Ahead, ThisFrame
<1>4. Placed' = Placed
  BY <1>1, <1>2, <1>3 DEF Placed
<1>5. ASSUME src'.sound PROVE FramesCounted' /\ CallFits' /\ BlockFits'
  <2>1. FramesCounted /\ BlockFits
    BY <1>1, <1>5 DEF SoundInv
  <2>2. FramesCounted'
    BY <1>1, <1>2, <1>3, <1>4, <2>1 DEF FramesCounted
  <2>3. CallFits' /\ BlockFits'
    BY <1>1, <1>2, <1>3, <2>1 DEF CallFits, BlockFits, ResetBehind
  <2>4. QED  BY <2>2, <2>3
<1>6. QED
  BY <1>1, <1>2, <1>5 DEF SoundInv, LengthKnown, SoundAnswered

(* A sound call asks for no more than there is.                            *)
LEMMA SoundDecompress ==
  ASSUME IInv, SoundInv, NEW n \in Asks, Decompress(n),
         lzx.length # 0 /\ n >= 0 /\ lzx.offset + n <= src.total =>
           lzx.offset + n <= lzx.length /\ lzx.length <= src.total
  PROVE  SoundInv'
<1>1. /\ handle /\ call.pc = "idle" /\ call = NoCall /\ n \in Int
      /\ UNCHANGED <<heap, handle, window, room>> /\ StreamTypes
      /\ src \in Sources /\ lzx \in Structs /\ held \in Waiting
  BY Sizes DEF Decompress, IInv, CallInv, StreamTypes
<1>2. CASE UNCHANGED <<src, lzx, held, call, output>>
  BY <1>1, <1>2, SoundUnchanged
<1> DEFINE i == Smaller(held.n, n)
           rest == n - i
<1>3. ASSUME n >= 0, ~lzx.error, NEW took,
             Unsound(took # i \/ lzx.offset + n > src.total),
             took # i, Error, UNCHANGED held
      PROVE  SoundInv'
  <2>1. src' = [src EXCEPT !.sound = @ /\ ~(took # i \/ lzx.offset + n > src.total)]
    BY <1>3 DEF Unsound
  <2> HIDE DEF i
  <2>2. ~src'.sound /\ src'.total = src.total /\ src'.interval = src.interval
    BY <1>1, <1>3, <2>1 DEF Sources
  <2>3. QED  BY <1>1, <1>3, <2>2, SoundFailed
<1>4. ASSUME n >= 0, ~lzx.error, NEW took,
             Unsound(took # i \/ lzx.offset + n > src.total),
             took = i,
             held' = [held EXCEPT !.at = @ + i, !.n = @ - i],
             lzx' = [lzx EXCEPT !.offset = @ + i],
             call' = IF rest = 0 THEN NoCall
                     ELSE [NoCall EXCEPT !.pc = "frame", !.left = rest, !.R = lzx.R,
                             !.end = EndFrameOf(lzx.offset + i + rest)]
      PROVE  SoundInv'
  <2>0. held.n \in Nat /\ lzx.offset \in Nat /\ src.total \in Nat /\ lzx.length \in Nat
    BY <1>1, Numbers
  <2>1. i \in Nat /\ i <= held.n /\ i <= n /\ rest \in Nat /\ rest = n - i /\ (rest > 0 => i = held.n)
    BY <1>1, <1>4, <2>0 DEF Smaller
  <2>2. /\ src'.total = src.total /\ src'.interval = src.interval /\ src'.decoded = src.decoded
        /\ src'.sound => src.sound /\ lzx.offset + n <= src.total
    <3>1. src' = [src EXCEPT !.sound = @ /\ ~(took # i \/ lzx.offset + n > src.total)]
      BY <1>4 DEF Unsound
    <3> HIDE DEF i
    <3>2. src'.sound = (src.sound /\ ~(took # i \/ lzx.offset + n > src.total))
      BY <1>1, <3>1 DEF Sources
    <3>3. /\ src'.total = src.total /\ src'.interval = src.interval /\ src'.decoded = src.decoded
      BY <1>1, <3>1 DEF Sources
    <3>4. ~(lzx.offset + n > src.total) => lzx.offset + n <= src.total
      BY <1>1, <2>0
    <3>5. QED  BY <3>2, <3>3, <3>4, Zenon
  <2> HIDE DEF i, rest
  <2>3. held'.n = held.n - i
    BY <1>1, <1>4 DEF Waiting
  <2>4. /\ lzx'.offset = lzx.offset + i /\ lzx'.error = lzx.error /\ lzx'.length = lzx.length
        /\ lzx'.frame = lzx.frame /\ lzx'.block = lzx.block
        /\ lzx'.frame_posn = lzx.frame_posn /\ lzx'.window_posn = lzx.window_posn
    BY <1>1, <1>4 DEF Structs
  <2>5. /\ rest = 0 => call'.pc = "idle"
        /\ rest # 0 => /\ call'.pc = "frame" /\ call'.left = rest
                       /\ call'.end = EndFrameOf(lzx.offset + i + rest)
    BY <1>4 DEF NoCall
  <2>6. FrameStart' = FrameStart /\ Ahead' = Ahead /\ ThisFrame' = ThisFrame
    BY <1>1, <2>0, <2>1, <2>3, <2>4, <2>5 DEF FrameStart, Ahead, ThisFrame
  <2>7. Placed' = Placed
    BY <1>1, <2>2, <2>4, <2>6 DEF Placed
  <2>8. ASSUME src'.sound PROVE FramesCounted' /\ CallFits' /\ BlockFits'
    <3>1. FramesCounted /\ BlockFits /\ lzx.offset + n <= src.total
      BY <1>1, <1>4, <2>2, <2>8 DEF SoundInv
    <3>2. FramesCounted'
      BY <2>4, <2>6, <2>7, <3>1 DEF FramesCounted
    <3>3. BlockFits'
      BY <2>2, <2>4, <2>6, <3>1 DEF BlockFits, ResetBehind
    <3>4. lzx'.offset + rest = lzx.offset + n /\ lzx.offset + i + rest = lzx.offset + n
      BY <1>1, <2>0, <2>1, <2>4
    <3>5. rest # 0 => held'.n = 0
      BY <2>0, <2>1, <2>3
    <3>6. CallFits'
      BY <1>4, <2>2, <2>4, <2>5, <3>1, <3>4, <3>5 DEF CallFits
    <3>7. QED  BY <3>2, <3>3, <3>6
  <2>9. LengthKnown'
    BY <1>1, <2>2, <2>4 DEF SoundInv, LengthKnown
  <2>10. SoundAnswered'
    BY <1>4, <2>4 DEF SoundAnswered
  <2>11. QED  BY <2>8, <2>9, <2>10 DEF SoundInv
<1>5. QED  BY <1>1, <1>2, <1>3, <1>4 DEF Decompress

-----------------------------------------------------------------------------
(* A frame that a call decodes starts where its number says, and within    *)
(* the length, if it is known.                                             *)
LEMMA SoundFrame ==
  ASSUME IInv, SoundInv, src.sound, call.pc # "idle", lzx.frame < call.end
  PROVE  /\ handle /\ ~lzx.error /\ FramesCounted /\ CallFits /\ BlockFits
         /\ held.n = 0 /\ lzx.offset = lzx.frame * Frame /\ FrameStart = lzx.frame * Frame
         /\ lzx.frame * Frame \in Nat /\ Placed
         /\ lzx.length # 0 => lzx.frame * Frame <= lzx.length /\ lzx.length <= src.total
<1>1. handle /\ ~lzx.error /\ FramesCounted /\ CallFits /\ BlockFits
  BY DEF IInv, CallInv, SoundInv
<1>2. /\ lzx.frame \in Nat /\ lzx.offset \in Nat /\ lzx.length \in Nat /\ held.n \in Nat
      /\ src.total \in Nat /\ call.left \in Nat
      /\ FrameStart = lzx.offset + held.n /\ lzx.offset + call.left \in Nat
  <2>1. /\ lzx.frame \in Nat /\ lzx.offset \in Nat /\ lzx.length \in Nat /\ held.n \in Nat
        /\ src.total \in Nat /\ call.left \in Nat
    BY Numbers DEF IInv
  <2>2. QED  BY <2>1 DEF FrameStart
<1>3. lzx.frame * Frame \in Nat /\ lzx.frame * Frame <= lzx.offset + call.left
  BY <1>1, <1>2, EndFrameFacts DEF CallFits
<1>4. FrameStart <= lzx.frame * Frame
  BY <1>1, <1>2, <1>3 DEF FramesCounted
<1>5. held.n = 0
  BY <1>1, <1>2, <1>3, <1>4 DEF CallFits
<1>6. lzx.length # 0 => lzx.frame * Frame <= lzx.length /\ lzx.length <= src.total
  <2>1. lzx.length # 0 => lzx.offset + call.left <= lzx.length /\ lzx.length <= src.total
    BY <1>1 DEF CallFits
  <2>2. QED  BY <1>2, <1>3, <2>1
<1>7. FrameStart = lzx.frame * Frame
  BY <1>1, <1>2, <1>3, <1>4, <1>6 DEF FramesCounted
<1>8. QED  BY <1>1, <1>2, <1>3, <1>5, <1>6, <1>7 DEF FramesCounted

(* While blocks are decoded, what is missing of the frame is in the input. *)
LEMMA SoundTodo ==
  ASSUME IInv, SoundInv, src.sound, InBlocks
  PROVE  /\ lzx.frame * Frame <= src.decoded /\ src.decoded < lzx.frame * Frame + Frame
         /\ lzx.length # 0 => src.decoded < lzx.length /\ FrameStart < lzx.length
<1>1. /\ call.pc = "blocks" /\ call.todo > 0 /\ handle /\ ~lzx.error
  BY DEF InBlocks, IInv, CallInv
<1>2. lzx.frame < call.end
  BY <1>1 DEF SoundInv, CallFits
<1>3. /\ lzx.offset = lzx.frame * Frame /\ FrameStart = lzx.frame * Frame
      /\ lzx.frame * Frame \in Nat /\ Placed
  BY <1>1, <1>2, SoundFrame
<1>4. call.todo = lzx.frame_posn + call.size - lzx.window_posn /\ call.size = FrameSizeOf(lzx)
  BY <1>1 DEF IInv, BytesInv, InsideFrame
<1>5. /\ call.size \in Nat /\ call.size <= Frame
      /\ lzx.length # 0 => call.size <= lzx.length - lzx.offset
  BY <1>1, <1>4, FrameSizeFacts
<1>6. /\ lzx.frame_posn \in Nat /\ lzx.window_posn \in Nat /\ src.decoded \in Nat
      /\ lzx.length \in Nat /\ Ahead \in Nat
  BY Numbers DEF IInv
<1>7. /\ lzx.window_posn - lzx.frame_posn >= 0
      /\ src.decoded = FrameStart + lzx.window_posn - lzx.frame_posn
  BY <1>3, <1>6 DEF Placed
<1>8. src.decoded < FrameStart + call.size
  BY <1>1, <1>3, <1>4, <1>5, <1>6, <1>7
<1>9. QED  BY <1>3, <1>5, <1>6, <1>7, <1>8, Sizes

LEMMA SoundStartFrame ==
  ASSUME IInv, SoundInv, StartFrame PROVE SoundInv'
<1>1. /\ call.pc = "frame" /\ lzx.frame < call.end /\ handle /\ ~lzx.error
      /\ UNCHANGED <<heap, handle, src, window, held, room, output>>
      /\ lzx \in Structs /\ call \in Calls
  BY DEF StartFrame, IInv, CallInv, StreamTypes
<1>2. lzx.frame \in Nat /\ src.interval \in Nat /\ lzx.block \in Nat /\ src.decoded \in Nat
  BY Numbers DEF IInv
<1>3. CASE AtReset /\ lzx.block # 0 /\ Error
  <2>1. ASSUME src.sound PROVE FALSE
    <3>1. BlockFits /\ FrameStart = lzx.frame * Frame /\ lzx.frame * Frame \in Nat /\ Placed
      BY <1>1, <2>1, SoundFrame
    <3>2. ResetBehind(ThisFrame) = lzx.frame * Frame
      BY <1>1, <1>2, <1>3, ResetFacts DEF AtReset, ThisFrame
    <3>3. src.decoded + lzx.block <= lzx.frame * Frame
      BY <1>2, <1>3, <3>1, <3>2 DEF BlockFits, AtReset
    <3>4. src.decoded >= FrameStart
      <4>1. lzx.frame_posn \in Nat /\ lzx.window_posn \in Nat /\ Ahead \in Nat /\ FrameStart \in Nat
        BY Numbers DEF IInv
      <4>2. QED  BY <3>1, <4>1 DEF Placed
    <3>5. QED  BY <1>2, <1>3, <3>1, <3>3, <3>4
  <2>2. QED  BY <1>1, <1>3, <2>1, SoundFailed
<1>4. ASSUME AtReset => lzx.block = 0,
             NEW given,
             lzx' = [(IF AtReset THEN Reset(lzx) ELSE lzx)
                       EXCEPT !.filesize = given, !.header = TRUE],
             call' = [call EXCEPT !.pc = "blocks", !.size = FrameSizeOf(lzx),
                        !.todo = lzx.frame_posn + FrameSizeOf(lzx) - lzx.window_posn]
      PROVE  SoundInv'
  <2>1. /\ lzx'.offset = lzx.offset /\ lzx'.error = lzx.error /\ lzx'.length = lzx.length
        /\ lzx'.frame = lzx.frame /\ lzx'.block = lzx.block
        /\ lzx'.frame_posn = lzx.frame_posn /\ lzx'.window_posn = lzx.window_posn
    <3>1. CASE AtReset
      BY <1>1, <1>4, <3>1 DEF Reset, Structs
    <3>2. CASE ~AtReset
      BY <1>1, <1>4, <3>2 DEF Structs
    <3>3. QED  BY <3>1, <3>2
  <2>2. /\ call'.pc = "blocks" /\ call'.size = FrameSizeOf(lzx)
        /\ call'.left = call.left /\ call'.end = call.end
    BY <1>1, <1>4 DEF Calls
  <2>3. FrameStart' = FrameStart
    BY <1>1, <2>1 DEF FrameStart
  <2>4. Placed => Placed'
    <3>1. Ahead' \in Nat /\ Ahead \in Nat /\ Ahead <= Ahead'
      BY <1>1, <2>2, FrameSizeFacts, Sizes DEF Ahead
    <3>2. lzx.frame_posn \in Nat /\ lzx.window_posn \in Nat
      BY Numbers DEF IInv
    <3>3. QED  BY <1>1, <2>1, <2>3, <3>1, <3>2 DEF Placed
  <2>5. ASSUME src.sound PROVE FramesCounted' /\ CallFits' /\ BlockFits'
    <3>1. FramesCounted /\ CallFits /\ BlockFits
      BY <1>1, <2>5 DEF SoundInv
    <3>2. FramesCounted'
      BY <2>1, <2>3, <2>4, <3>1 DEF FramesCounted
    <3>3. CallFits'
      BY <1>1, <2>1, <2>2, <3>1 DEF CallFits
    <3>4. ASSUME lzx.block > 0, src.interval # 0
          PROVE  src.decoded + lzx.block <= ResetBehind(lzx.frame)
      <4>1. lzx.frame % src.interval # 0
        BY <1>4, <3>4 DEF AtReset
      <4>2. ResetBehind(lzx.frame - 1) = ResetBehind(lzx.frame)
        BY <1>2, <3>4, <4>1, ResetFacts
      <4>3. QED  BY <1>1, <3>1, <3>4, <4>2 DEF BlockFits, ThisFrame
    <3>5. BlockFits'
      BY <1>1, <2>1, <2>2, <3>4 DEF BlockFits, ThisFrame, ResetBehind
    <3>6. QED  BY <3>2, <3>3, <3>5
  <2>6. QED
    BY <1>1, <2>1, <2>5 DEF SoundInv, LengthKnown, SoundAnswered
<1>5. QED  BY <1>1, <1>3, <1>4 DEF StartFrame

LEMMA SoundOpenBlock ==
  ASSUME IInv, SoundInv, NEW len \in BlockLengths, NEW stored \in BOOLEAN, NEW e8 \in BOOLEAN,
         OpenBlock(len, stored, e8)
  PROVE  SoundInv'
<1>1. /\ InBlocks /\ call.pc = "blocks" /\ handle /\ ~lzx.error /\ lzx.block = 0
      /\ UNCHANGED <<heap, handle, window, held, room, output>>
      /\ src \in Sources /\ lzx \in Structs /\ call \in Calls
  BY DEF OpenBlock, InBlocks, IInv, CallInv, StreamTypes
<1>2. /\ lzx.frame \in Nat /\ src.interval \in Nat /\ src.decoded \in Nat /\ src.total \in Nat
      /\ lzx.length \in Nat /\ len \in Nat
  BY Numbers, StreamAssumption DEF IInv
<1>3. ASSUME src.sound
      PROVE  /\ lzx.frame * Frame <= src.decoded /\ src.decoded < lzx.frame * Frame + Frame
             /\ lzx.length # 0 => src.decoded < lzx.length
             /\ FramesCounted /\ CallFits /\ FrameStart = lzx.frame * Frame /\ Placed
             /\ lzx.length # 0 => lzx.length <= src.total
  <2>1. lzx.frame < call.end
    BY <1>1, <1>3 DEF SoundInv, CallFits
  <2>2. QED  BY <1>1, <1>3, <2>1, SoundTodo, SoundFrame
<1>4. CASE AtEnd /\ Error /\ UNCHANGED src
  <2>1. src.sound => lzx.length = 0
    BY <1>2, <1>3, <1>4 DEF AtEnd
  <2>2. QED  BY <1>1, <1>4, <2>1, SoundFailed
<1>5. ASSUME TakeHeader(len),
             lzx' = [lzx EXCEPT !.block = len, !.stored = stored, !.started = @ \/ stored \/ e8],
             NEW R, call' = [call EXCEPT !.R = R]
      PROVE  SoundInv'
  <2>1. /\ src'.total = src.total /\ src'.interval = src.interval /\ src'.decoded = src.decoded
        /\ src'.sound => src.sound /\ Fits(len)
    BY <1>1, <1>2, <1>5, TakeHeaderFacts
  <2>2. /\ lzx'.offset = lzx.offset /\ lzx'.error = lzx.error /\ lzx'.length = lzx.length
        /\ lzx'.frame = lzx.frame /\ lzx'.block = len
        /\ lzx'.frame_posn = lzx.frame_posn /\ lzx'.window_posn = lzx.window_posn
    BY <1>1, <1>5 DEF Structs
  <2>3. /\ call'.pc = "blocks" /\ call'.size = call.size
        /\ call'.left = call.left /\ call'.end = call.end
    BY <1>1, <1>5 DEF Calls
  <2>4. FrameStart' = FrameStart /\ Ahead' = Ahead
    BY <1>1, <2>2, <2>3 DEF FrameStart, Ahead
  <2>5. Placed' = Placed
    BY <1>1, <2>1, <2>2, <2>4 DEF Placed
  <2>6. ASSUME src'.sound PROVE FramesCounted' /\ CallFits' /\ BlockFits'
    <3>1. src.sound /\ Fits(len)
      BY <2>1, <2>6
    <3>2. FramesCounted /\ CallFits
      BY <1>3, <3>1
    <3>3. FramesCounted'
      BY <2>2, <2>4, <2>5, <3>2 DEF FramesCounted
    <3>4. CallFits'
      BY <1>1, <2>1, <2>2, <2>3, <3>2 DEF CallFits
    <3>5. src.interval # 0 /\ len > 0 => src.decoded + len <= ResetBehind(lzx.frame)
      BY <1>2, <1>3, <3>1, ResetFacts DEF Fits
    <3>6. BlockFits'
      BY <2>1, <2>2, <2>3, <3>5 DEF BlockFits, ThisFrame, ResetBehind
    <3>7. QED  BY <3>3, <3>4, <3>6
  <2>7. QED
    BY <1>1, <2>1, <2>2, <2>6 DEF SoundInv, LengthKnown, SoundAnswered
<1>6. QED  BY <1>1, <1>4, <1>5 DEF OpenBlock

LEMMA SoundRun ==
  ASSUME IInv, SoundInv, NEW spill \in 0..MaxSpill, Run(spill) PROVE SoundInv'
<1> DEFINE run == Smaller(lzx.block, call.todo)
           n == run + spill
<1>1. /\ InBlocks /\ call.pc = "blocks" /\ handle /\ ~lzx.error /\ lzx.block > 0
      /\ UNCHANGED <<heap, handle, held, room, output>>
      /\ src \in Sources /\ lzx \in Structs /\ call \in Calls
  BY DEF Run, InBlocks, IInv, CallInv, StreamTypes
<1>2. /\ lzx.block \in Nat /\ src.decoded \in Nat /\ spill \in Nat /\ run \in Int /\ n \in Int
      /\ lzx.length \in Nat
  <2>1. /\ lzx.block \in Nat /\ src.decoded \in Nat /\ spill \in Nat /\ call.todo \in Int
        /\ lzx.length \in Nat
    BY Numbers, Sizes DEF IInv
  <2>2. QED  BY <2>1 DEF Smaller
<1>3. CASE Error /\ Unsound(TRUE)
  <2>1. src' = [src EXCEPT !.sound = @ /\ ~TRUE]
    BY <1>3 DEF Unsound
  <2>2. ~src'.sound /\ src'.total = src.total /\ src'.interval = src.interval
    BY <1>1, <2>1 DEF Sources
  <2>3. QED  BY <1>1, <1>3, <2>2, SoundFailed
<1>4. ASSUME src' = [src EXCEPT !.decoded = @ + n],
             lzx' = [lzx EXCEPT !.window_posn = @ + n, !.block = @ - n],
             NEW R, call' = [call EXCEPT !.todo = @ - run, !.R = R],
             n <= lzx.block
      PROVE  SoundInv'
  <2> HIDE DEF n, run
  <2>1. /\ src'.total = src.total /\ src'.interval = src.interval
        /\ src'.decoded = src.decoded + n /\ src'.sound = src.sound
    BY <1>1, <1>4 DEF Sources
  <2>2. /\ lzx'.offset = lzx.offset /\ lzx'.error = lzx.error /\ lzx'.length = lzx.length
        /\ lzx'.frame = lzx.frame /\ lzx'.block = lzx.block - n
    BY <1>1, <1>4 DEF Structs
  <2>3. /\ call'.pc = "blocks" /\ call'.size = call.size
        /\ call'.left = call.left /\ call'.end = call.end
    BY <1>1, <1>4 DEF Calls
  <2>4. FrameStart' = FrameStart
    BY <1>1, <2>2 DEF FrameStart
  <2>5. ASSUME src'.sound PROVE FramesCounted' /\ CallFits' /\ BlockFits'
    <3>1. FramesCounted /\ CallFits /\ BlockFits
      BY <1>1, <2>1, <2>5 DEF SoundInv
    <3>2. lzx.length # 0 => FrameStart < lzx.length
      BY <1>1, <2>1, <2>5, SoundTodo
    <3>3. IInv'
      BY RunInv
    <3>4. ~Ended'
      <4>1. FrameStart \in Nat
        BY Numbers DEF IInv
      <4>2. QED  BY <1>2, <2>2, <2>4, <3>2, <4>1 DEF Ended
    <3>5. Placed'
      BY <1>1, <2>2, <3>3, <3>4 DEF IInv, BytesInv
    <3>6. FramesCounted'
      BY <2>2, <2>4, <3>1, <3>5 DEF FramesCounted
    <3>7. CallFits'
      BY <1>1, <2>1, <2>2, <2>3, <3>1 DEF CallFits
    <3>8. src'.decoded + lzx'.block = src.decoded + lzx.block
      BY <1>2, <2>1, <2>2
    <3>9. BlockFits'
      BY <1>1, <2>1, <2>2, <2>3, <3>1, <3>8 DEF BlockFits, ThisFrame, ResetBehind
    <3>10. QED  BY <3>6, <3>7, <3>9
  <2>6. QED
    BY <1>1, <2>1, <2>2, <2>5 DEF SoundInv, LengthKnown, SoundAnswered
<1>5. QED  BY <1>1, <1>3, <1>4 DEF Run

(* The frame that is put out is the one that is counted.                   *)
LEMMA SoundEndFrame ==
  ASSUME IInv, SoundInv, EndFrame PROVE SoundInv'
<1> DEFINE i == Smaller(call.left, call.size)
<1>1. /\ call.pc = "blocks" /\ call.todo <= 0 /\ handle /\ ~lzx.error
      /\ UNCHANGED <<heap, handle, window, room>>
      /\ src \in Sources /\ lzx \in Structs /\ call \in Calls
  BY DEF EndFrame, IInv, CallInv, StreamTypes
<1>2. /\ lzx.frame \in Nat /\ src.interval \in Nat /\ src.total \in Nat
      /\ lzx.length \in Nat /\ lzx.offset \in Nat /\ lzx.frame_posn \in Nat /\ lzx.window_posn \in Nat
      /\ call.size \in Nat /\ call.left \in Nat
      /\ i \in Nat /\ i <= call.size /\ i <= call.left /\ (call.left > i => i = call.size)
  <2>1. /\ lzx.frame \in Nat /\ src.interval \in Nat /\ src.total \in Nat
        /\ lzx.length \in Nat /\ lzx.offset \in Nat
        /\ lzx.frame_posn \in Nat /\ lzx.window_posn \in Nat
        /\ call.size \in Nat /\ call.left \in Nat
    BY Numbers DEF IInv
  <2>2. QED  BY <2>1 DEF Smaller
<1>3. call.size = FrameSizeOf(lzx)
  BY <1>1 DEF IInv, BytesInv, InsideFrame
<1>4. /\ call.size <= Frame
      /\ lzx.length # 0 => call.size <= lzx.length - lzx.offset
      /\ call.size < Frame => lzx.length # 0 /\ call.size = lzx.length - lzx.offset
  BY <1>1, <1>3, FrameSizeFacts
<1>5. ASSUME src.sound
      PROVE  /\ FramesCounted /\ CallFits /\ BlockFits
             /\ held.n = 0 /\ lzx.offset = lzx.frame * Frame /\ FrameStart = lzx.frame * Frame
             /\ lzx.frame * Frame \in Nat /\ Placed
             /\ lzx.length # 0 => lzx.frame * Frame <= lzx.length /\ lzx.length <= src.total
  <2>1. lzx.frame < call.end
    BY <1>1, <1>5 DEF SoundInv, CallFits
  <2>2. QED  BY <1>1, <1>5, <2>1, SoundFrame
<1>6. CASE (HeaderOnly \/ held.n # 0) /\ Error /\ UNCHANGED src
  <2>1. ASSUME src.sound, lzx.length # 0 PROVE EndsAtReset
    <3>1. src.interval # 0 /\ lzx.frame % src.interval = 0 /\ call.size = 0
      BY <1>5, <1>6, <2>1 DEF HeaderOnly, AtReset
    <3>2. lzx.length = lzx.frame * Frame
      BY <1>2, <1>4, <1>5, <2>1, <3>1, Sizes
    <3>3. lzx.length = src.total
      BY <1>1, <2>1, <3>1 DEF SoundInv, LengthKnown
    <3>4. (lzx.frame * Frame) % (src.interval * Frame) = 0
      BY <1>2, <3>1, ResetFacts
    <3>5. QED  BY <3>1, <3>2, <3>3, <3>4 DEF EndsAtReset
  <2>2. QED  BY <1>1, <1>6, <2>1, SoundFailed
<1>7. ASSUME NEW took, Unsound(took # i), took # i, Error
      PROVE  SoundInv'
  <2>1. src' = [src EXCEPT !.sound = @ /\ ~(took # i)]
    BY <1>7 DEF Unsound
  <2> HIDE DEF i
  <2>2. ~src'.sound /\ src'.total = src.total /\ src'.interval = src.interval
    BY <1>1, <1>7, <2>1 DEF Sources
  <2>3. QED  BY <1>1, <1>7, <2>2, SoundFailed
<1>8. ASSUME NEW took, Unsound(took # i), took = i,
             held' = [HeldFrame EXCEPT !.at = @ + i, !.n = @ - i],
             lzx' = [lzx EXCEPT !.offset = @ + i, !.frame = NextFrame,
                       !.frame_posn = Wrapped(@ + call.size), !.window_posn = Wrapped(@)],
             call' = [call EXCEPT !.pc = "frame", !.left = @ - i]
      PROVE  SoundInv'
  <2>1. src' = [src EXCEPT !.sound = @ /\ ~(took # i)]
    BY <1>8 DEF Unsound
  <2> HIDE DEF i
  <2>2. /\ src'.total = src.total /\ src'.interval = src.interval /\ src'.decoded = src.decoded
        /\ src'.sound = src.sound
    BY <1>1, <1>8, <2>1 DEF Sources
  <2>3. held'.n = call.size - i
    BY <1>8 DEF HeldFrame
  <2>4. /\ lzx'.offset = lzx.offset + i /\ lzx'.error = lzx.error /\ lzx'.length = lzx.length
        /\ lzx'.frame = lzx.frame + 1 /\ lzx'.block = lzx.block
        /\ lzx'.frame_posn = Wrapped(lzx.frame_posn + call.size)
        /\ lzx'.window_posn = Wrapped(lzx.window_posn)
    BY <1>1, <1>8 DEF Structs, NextFrame
  <2>5. call'.pc = "frame" /\ call'.left = call.left - i /\ call'.end = call.end
    BY <1>1, <1>8 DEF Calls
  <2>6. ASSUME src'.sound PROVE FramesCounted' /\ CallFits' /\ BlockFits'
    <3>1. /\ FramesCounted /\ CallFits /\ BlockFits
          /\ held.n = 0 /\ lzx.offset = lzx.frame * Frame /\ FrameStart = lzx.frame * Frame
          /\ lzx.frame * Frame \in Nat /\ Placed
          /\ lzx.length # 0 => lzx.frame * Frame <= lzx.length /\ lzx.length <= src.total
      BY <1>5, <2>2, <2>6
    <3>2. FrameStart' = FrameStart + call.size
      BY <1>2, <2>3, <2>4, <3>1 DEF FrameStart
    <3>3. lzx'.frame * Frame = lzx.frame * Frame + Frame
      BY <1>2, <2>4, <3>1, EndFrameFacts
    <3>4. ASSUME call.size = Frame PROVE FramesCounted'
      <4>1. Placed'
        <5>1. lzx.window_posn >= lzx.frame_posn + Frame
          BY <1>1, <3>1, <3>4, FrameInWindow
        <5>2. QED
          BY <1>1, <2>2, <2>4, <2>5, <3>1, <3>2, <3>4, <5>1, WrapPlaced
      <4>2. QED  BY <3>1, <3>2, <3>3, <3>4, <4>1 DEF FramesCounted
    <3>5. ASSUME call.size # Frame PROVE FramesCounted'
      <4>1. call.size < Frame /\ lzx.length # 0 /\ FrameStart' = lzx.length
        BY <1>2, <1>4, <3>1, <3>2, <3>5, Sizes
      <4>2. FrameStart' < lzx'.frame * Frame
        BY <1>2, <3>1, <3>2, <3>3, <4>1, Sizes
      <4>3. FrameStart' = lzx'.length /\ lzx'.length # 0 /\ lzx'.length \in Nat
        BY <1>2, <2>4, <4>1
      <4>4. lzx'.frame * Frame \in Nat
        BY <3>1, <3>3, Sizes
      <4>5. QED  BY <4>2, <4>3, <4>4 DEF FramesCounted
    <3>6. FramesCounted'
      BY <3>4, <3>5
    <3>7. lzx'.offset + call'.left = lzx.offset + call.left
      BY <1>2, <2>4, <2>5
    <3>8. call'.left > 0 => held'.n = 0
      BY <1>2, <2>3, <2>5
    <3>9. CallFits'
      BY <1>1, <2>2, <2>4, <2>5, <3>1, <3>7, <3>8 DEF CallFits
    <3>10. ThisFrame' = ThisFrame
      BY <1>1, <1>2, <2>4, <2>5 DEF ThisFrame
    <3>11. BlockFits'
      BY <2>2, <2>4, <3>1, <3>10 DEF BlockFits, ResetBehind
    <3>12. QED  BY <3>6, <3>9, <3>11
  <2>7. QED
    BY <1>1, <2>2, <2>4, <2>6 DEF SoundInv, LengthKnown, SoundAnswered
<1>9. QED  BY <1>1, <1>6, <1>7, <1>8 DEF EndFrame

(* A call that has decoded its frames has put out what it was asked for.   *)
LEMMA SoundFinishCall ==
  ASSUME IInv, SoundInv, FinishCall PROVE SoundInv'
<1>1. /\ call.pc = "frame" /\ lzx.frame >= call.end /\ handle /\ ~lzx.error
      /\ UNCHANGED <<heap, handle, src, window, held, room, output>>
      /\ lzx \in Structs /\ call \in Calls
  BY DEF FinishCall, IInv, CallInv, StreamTypes
<1>2. CASE call.left # 0 /\ Error
  <2>1. ASSUME src.sound PROVE FALSE
    <3>1. FramesCounted /\ CallFits
      BY <1>1, <2>1 DEF SoundInv
    <3>2. /\ lzx.frame \in Nat /\ lzx.offset \in Nat /\ lzx.length \in Nat /\ held.n \in Nat
          /\ call.left \in Nat /\ call.end \in Int /\ lzx.offset + call.left \in Nat
      <4>1. /\ lzx.frame \in Nat /\ lzx.offset \in Nat /\ lzx.length \in Nat /\ held.n \in Nat
            /\ call.left \in Nat /\ call.end \in Int
        BY Numbers DEF IInv
      <4>2. QED  BY <4>1
    <3>3. held.n = 0 /\ FrameStart = lzx.offset
      BY <1>1, <1>2, <3>1, <3>2 DEF CallFits, FrameStart
    <3>4. ~(lzx.frame < EndFrameOf(lzx.offset + call.left))
      BY <1>1, <3>1, <3>2 DEF CallFits
    <3>5. lzx.frame * Frame \in Nat /\ lzx.frame * Frame > lzx.offset + call.left
      BY <3>2, <3>4, EndFrameFacts
    <3>6. lzx.length # 0 => lzx.offset + call.left <= lzx.length
      BY <1>1, <3>1 DEF CallFits
    <3>7. QED  BY <1>2, <3>1, <3>2, <3>3, <3>5, <3>6 DEF FramesCounted
  <2>2. QED  BY <1>1, <1>2, <2>1, SoundFailed
<1>3. CASE lzx' = [lzx EXCEPT !.R = call.R] /\ call' = NoCall
  <2>1. /\ lzx'.offset = lzx.offset /\ lzx'.error = lzx.error /\ lzx'.length = lzx.length
        /\ lzx'.frame = lzx.frame /\ lzx'.block = lzx.block
        /\ lzx'.frame_posn = lzx.frame_posn /\ lzx'.window_posn = lzx.window_posn
        /\ call'.pc = "idle"
    BY <1>1, <1>3 DEF Structs, NoCall
  <2>2. FrameStart' = FrameStart /\ Ahead' = Ahead /\ ThisFrame' = ThisFrame
    BY <1>1, <2>1 DEF FrameStart, Ahead, ThisFrame
  <2>3. Placed' = Placed
    BY <1>1, <2>1, <2>2 DEF Placed
  <2>4. (FramesCounted => FramesCounted') /\ CallFits' /\ (BlockFits => BlockFits')
    BY <1>1, <2>1, <2>2, <2>3 DEF FramesCounted, CallFits, BlockFits, ResetBehind
  <2>5. QED
    BY <1>1, <2>1, <2>4 DEF SoundInv, LengthKnown, SoundAnswered
<1>4. QED  BY <1>2, <1>3 DEF FinishCall

LEMMA SoundBadInput ==
  ASSUME IInv, SoundInv, BadInput PROVE SoundInv'
<1>1. Error /\ UNCHANGED handle /\ src' = [src EXCEPT !.sound = @ /\ ~TRUE] /\ src \in Sources
  BY DEF BadInput, Unsound, IInv, StreamTypes
<1>2. ~src'.sound /\ src'.total = src.total /\ src'.interval = src.interval
  BY <1>1 DEF Sources
<1>3. QED  BY <1>1, <1>2, SoundFailed

-----------------------------------------------------------------------------
(* What a caller must do for it: say nothing of the length or the truth,   *)
(* or, without reset points, ask for no more than it said.                 *)
LengthAsked(n) ==
  lzx.length # 0 /\ n >= 0 /\ lzx.offset + n <= src.total =>
    lzx.offset + n <= lzx.length /\ lzx.length <= src.total

SoundStep ==
  \/ \E valid \in BOOLEAN, got \in SUBSET Parts, s \in Streams, length \in Nat, r \in Int :
       InitStream(valid, got, s, length, r) /\ (s.interval = 0 \/ length \in {0, s.total})
  \/ \E n \in Asks : Decompress(n) /\ LengthAsked(n)
  \/ SetOutputLength \/ Free \/ Within \/ UNCHANGED vars

LEMMA SoundStepInv ==
  ASSUME IInv, SoundInv, SoundStep PROVE SoundInv'
<1>1. ASSUME NEW n \in Asks, Decompress(n), LengthAsked(n) PROVE SoundInv'
  BY <1>1, SoundDecompress DEF LengthAsked
<1>2. CASE Within
  BY <1>2, SoundStartFrame, SoundOpenBlock, SoundRun, SoundEndFrame, SoundFinishCall, SoundBadInput
  DEF Within, Blocks, Runs
<1>3. CASE UNCHANGED vars
  BY <1>3, SoundUnchanged DEF vars
<1>4. QED
  BY <1>1, <1>2, <1>3, SoundInitStream, SoundSetOutputLength, SoundFree DEF SoundStep

(* While there is a stream, neither its input nor a length that is known   *)
(* changes.                                                                *)
LEMMA LengthKept ==
  ASSUME IInv, Asked \/ Within
  PROVE  UNCHANGED handle /\ lzx'.length = lzx.length /\ src'.total = src.total
<1>1. lzx \in Structs /\ src \in Sources
  BY DEF IInv, StreamTypes
<1>2. CASE Error /\ ~Blocks
  <2>1. lzx'.length = lzx.length
    BY <1>1, <1>2 DEF Error, Structs
  <2>2. UNCHANGED handle /\ src'.total = src.total
    BY <1>1, <1>2
    DEF Asked, Decompress, Within, StartFrame, Runs, Run, EndFrame, FinishCall, BadInput, Unsound,
        Sources
  <2>3. QED  BY <2>1, <2>2
<1>3. CASE Asked /\ ~Error
  BY <1>1, <1>3 DEF Asked, Decompress, Unsound, Sources, Structs
<1>4. CASE StartFrame /\ ~Error
  <2>1. UNCHANGED <<handle, src>>
    BY <1>4 DEF StartFrame
  <2>2. PICK given :
          lzx' = [(IF AtReset THEN Reset(lzx) ELSE lzx) EXCEPT !.filesize = given, !.header = TRUE]
    BY <1>4 DEF StartFrame
  <2>3. lzx'.length = lzx.length
    BY <1>1, <2>2 DEF Reset, Structs
  <2>4. QED  BY <2>1, <2>3
<1>5. CASE Blocks
  <2>1. PICK len \in BlockLengths, stored \in BOOLEAN, e8 \in BOOLEAN :
          OpenBlock(len, stored, e8)
    BY <1>5 DEF Blocks
  <2>2. UNCHANGED handle
    BY <2>1 DEF OpenBlock
  <2>3. CASE Error /\ UNCHANGED src
    BY <1>1, <2>2, <2>3 DEF Error, Structs
  <2>4. CASE /\ TakeHeader(len)
             /\ lzx' = [lzx EXCEPT !.block = len, !.stored = stored,
                                   !.started = @ \/ stored \/ e8]
    <3>1. len \in Nat
      BY StreamAssumption
    <3>2. src'.total = src.total
      BY <1>1, <2>4, <3>1, TakeHeaderFacts
    <3>3. lzx'.length = lzx.length
      BY <1>1, <2>4 DEF Structs
    <3>4. QED  BY <2>2, <3>2, <3>3
  <2>5. QED  BY <2>1, <2>3, <2>4 DEF OpenBlock
<1>6. CASE Runs /\ ~Error
  BY <1>1, <1>6 DEF Runs, Run, Sources, Structs
<1>7. CASE EndFrame /\ ~Error
  BY <1>1, <1>7 DEF EndFrame, Unsound, Sources, Structs
<1>8. CASE FinishCall /\ ~Error
  BY <1>1, <1>8 DEF FinishCall, Structs
<1>9. QED  BY <1>2, <1>3, <1>4, <1>5, <1>6, <1>7, <1>8 DEF Within, BadInput

LEMMA InitialLength ==
  ASSUME NEW valid \in BOOLEAN, NEW got \in SUBSET Parts, NEW s, NEW length, NEW r,
         InitStream(valid, got, s, length, r), handle'
  PROVE  lzx'.length = length /\ src'.total = s.total /\ src'.interval = s.interval
BY DEF InitStream, Fresh, NoStream

(* A program says nothing of the length, or the truth.                     *)
ProgramLength == handle => lzx.length \in {0, src.total}

LEMMA LibrarySoundSteps ==
  ASSUME IInv, ProgramLength, Library PROVE SoundStep /\ ProgramLength'
<1>1. ASSUME NEW valid \in BOOLEAN, NEW got \in SUBSET Parts, NEW s \in Streams,
             NEW length \in {0, s.total}, InitStream(valid, got, s, length, AnyRoom)
      PROVE  SoundStep /\ ProgramLength'
  <2>1. length \in Nat /\ AnyRoom \in Int
    BY Sizes DEF AnyRoom
  <2>2. SoundStep
    BY <1>1, <2>1 DEF SoundStep
  <2>3. ProgramLength'
    BY <1>1, InitialLength DEF ProgramLength
  <2>4. QED  BY <2>2, <2>3
<1>2. ASSUME NEW n \in Asks, Decompress(n) PROVE SoundStep /\ ProgramLength'
  <2>1. handle /\ src.total \in Nat
    BY <1>2, Numbers DEF Decompress, IInv
  <2>2. LengthAsked(n)
    BY <2>1 DEF LengthAsked, ProgramLength
  <2>3. UNCHANGED handle /\ lzx'.length = lzx.length /\ src'.total = src.total
    BY <1>2, LengthKept DEF Asked
  <2>4. QED  BY <1>2, <2>1, <2>2, <2>3 DEF SoundStep, ProgramLength
<1>3. CASE SetOutputLength
  <2>1. lzx'.length = src.total /\ UNCHANGED src
    BY <1>3 DEF SetOutputLength, IInv, StreamTypes, Structs
  <2>2. QED  BY <1>3, <2>1 DEF SoundStep, ProgramLength
<1>4. CASE Free
  BY <1>4 DEF Free, SoundStep, ProgramLength
<1>5. QED  BY <1>1, <1>2, <1>3, <1>4 DEF Library

LEMMA NextSoundSteps ==
  ASSUME IInv, ProgramLength, [Next]_vars PROVE SoundStep /\ ProgramLength'
<1>1. CASE Within
  BY <1>1, LengthKept DEF SoundStep, ProgramLength
<1>2. CASE UNCHANGED vars
  BY <1>2 DEF SoundStep, ProgramLength, vars
<1>3. QED  BY <1>1, <1>2, LibrarySoundSteps DEF Next

(* A sound stream whose length is known is decoded, however it is cut up,  *)
(* unless it ends at a reset point.                                        *)
THEOREM StreamSoundAnswered == Spec => []SoundAnswered
<1>1. Init => ProgramLength /\ SoundInv
  BY SoundInitInv DEF Init, ProgramLength
<1>2. IInv /\ ProgramLength /\ SoundInv /\ [Next]_vars => ProgramLength' /\ SoundInv'
  BY NextSoundSteps, SoundStepInv
<1>3. SoundInv => SoundAnswered
  BY DEF SoundInv
<1>4. QED  BY StreamInvariant, <1>1, <1>2, <1>3, PTL DEF Spec

(* The extension module says as much as it then asks for.                  *)
CallerLength ==
  /\ caller = "program" => ProgramLength
  /\ step = "call" => lzx.length = outlen

LEMMA ModuleSoundSteps ==
  ASSUME ModuleInv, CallerLength, [ModuleNext]_allvars PROVE SoundStep /\ CallerLength'
<1>1. CASE caller = "program" /\ Library /\ UNCHANGED modvars
  <2>1. SoundStep /\ ProgramLength'
    BY <1>1, LibrarySoundSteps DEF CallerLength, ModuleInv
  <2>2. step' = "out"
    BY <1>1 DEF modvars, ModuleInv, CallerInv
  <2>3. QED  BY <2>1, <2>2 DEF CallerLength
<1>2. ASSUME NEW got \in SUBSET Parts, NEW s \in Streams, MakeStream(got, s)
      PROVE  SoundStep /\ CallerLength'
  <2>1. /\ step = "init" /\ s.interval = 0 /\ InitStream(LZXwindow, got, s, outlen, outlen)
        /\ step' = (IF handle' THEN "call" ELSE "free") /\ UNCHANGED <<caller, outlen>>
        /\ caller # "program" /\ outlen \in Nat /\ outlen \in Int /\ LZXwindow \in BOOLEAN
    BY <1>2 DEF MakeStream, ModuleInv, CallerInv
  <2>2. SoundStep
    BY <2>1 DEF SoundStep
  <2>3. handle' => lzx'.length = outlen
    BY <2>1, InitialLength
  <2>4. QED  BY <2>1, <2>2, <2>3 DEF CallerLength
<1>3. CASE Start
  <2>1. /\ step = "call" /\ step' = "calling" /\ UNCHANGED caller /\ Decompress(outlen)
        /\ outlen \in Asks /\ outlen \in Nat /\ lzx.offset = 0 /\ lzx.length = outlen
        /\ caller # "program"
    BY <1>3, ModuleAssumption DEF Start, CallerLength, ModuleInv, CallerInv, ResultInv
  <2>2. LengthAsked(outlen)
    BY <2>1 DEF LengthAsked
  <2>3. QED  BY <2>1, <2>2 DEF SoundStep, CallerLength
<1>4. CASE Dispose
  BY <1>4 DEF Dispose, SoundStep, CallerLength, ModuleInv, CallerInv
<1>5. CASE Within /\ UNCHANGED modvars
  <2>1. call.pc # "idle"
    BY <1>5
    DEF Within, StartFrame, Blocks, OpenBlock, InBlocks, Runs, Run, EndFrame, FinishCall, BadInput
  <2>2. step # "call"
    BY <2>1 DEF ModuleInv, CallerInv
  <2>3. UNCHANGED handle /\ lzx'.length = lzx.length /\ src'.total = src.total
    BY <1>5, LengthKept DEF ModuleInv
  <2>4. QED  BY <1>5, <2>2, <2>3 DEF SoundStep, CallerLength, ProgramLength, modvars
<1>6. CASE UNCHANGED allvars
  BY <1>6 DEF allvars, vars, modvars, SoundStep, CallerLength, ProgramLength
<1>7. ASSUME NEW valid \in BOOLEAN, SetWindow(valid) PROVE SoundStep /\ CallerLength'
  BY <1>7 DEF SetWindow, vars, SoundStep, CallerLength, ProgramLength
<1>8. ASSUME NEW n \in OutLengths, NEW memory \in BOOLEAN, Enter(n, memory)
      PROVE  SoundStep /\ CallerLength'
  BY <1>8 DEF Enter, vars, SoundStep, CallerLength
<1>9. CASE Answered
  BY <1>9 DEF Answered, vars, SoundStep, CallerLength, ProgramLength
<1>10. CASE Return
  BY <1>10 DEF Return, vars, SoundStep, CallerLength, ProgramLength
<1>11. QED
  BY <1>1, <1>2, <1>3, <1>4, <1>5, <1>6, <1>7, <1>8, <1>9, <1>10 DEF ModuleNext, Inside, Made

(* Under the extension module, too: lzxd_decompress finds no fault with a  *)
(* sound stream that has the bytes asked for.                              *)
THEOREM ModuleSoundAnswered == ModuleSpec => []SoundAnswered
<1>1. ModuleInit => CallerLength /\ SoundInv
  BY SoundInitInv DEF ModuleInit, Init, CallerLength, ProgramLength
<1>2. ModuleInv /\ CallerLength /\ SoundInv /\ [ModuleNext]_allvars => CallerLength' /\ SoundInv'
  BY ModuleSoundSteps, SoundStepInv DEF ModuleInv
<1>3. SoundInv => SoundAnswered
  BY DEF SoundInv
<1>4. QED  BY ModuleInvariant, <1>1, <1>2, <1>3, PTL DEF ModuleSpec

-----------------------------------------------------------------------------
(***************************************************************************)
(* Type correctness, with the bounds of the two window positions, of the   *)
(* frame and of what a call holds back.                                    *)
(***************************************************************************)
Bounds ==
  /\ lzx.frame_posn < Window /\ (lzx.frame_posn % Frame = 0 \/ lzx.length # 0)
  /\ lzx.window_posn <= Window
  /\ held.n <= Frame /\ held.at + held.n <= Window
  /\ call.size <= Frame /\ -MaxSpill <= call.todo /\ call.todo <= Frame
  /\ answer \in {"none", "null", "args", "ok", "failed"}

(* Where a frame begins, the window is ahead of it by a spill at most.     *)
Near ==
  \/ lzx.window_posn = lzx.frame_posn
  \/ lzx.frame_posn % Frame = 0 /\ lzx.window_posn - lzx.frame_posn \in 0..Ahead

LEMMA BoundsTypes ==
  ASSUME IInv, Bounds PROVE TypeOK
<1>1. /\ lzx.frame_posn \in Nat /\ lzx.window_posn \in Nat /\ lzx.block \in Nat
      /\ held.n \in Nat /\ held.at \in Nat
      /\ call.size \in Nat /\ call.todo \in Int /\ call.left \in Nat
  BY Numbers DEF IInv
<1>2. call.pc \in {"idle", "frame", "blocks"} /\ handle \in BOOLEAN
  BY DEF IInv, StreamTypes, Calls
<1>3. heap \subseteq Parts
  BY DEF IInv, NothingLeaks
<1>4. /\ lzx.frame_posn \in {k \in 0..(Window - 1) : k % Frame = 0 \/ lzx.length # 0}
      /\ lzx.window_posn \in 0..Window
      /\ held.n \in 0..Frame /\ held.at \in 0..Window
      /\ call.size \in 0..Frame /\ call.todo \in -MaxSpill..Frame
  BY <1>1, Sizes DEF Bounds
<1>5. QED  BY <1>1, <1>2, <1>3, <1>4 DEF TypeOK, Bounds

LEMMA InitBounds == Init => Bounds
<1> SUFFICES ASSUME Init PROVE Bounds
  OBVIOUS
<1>1. /\ lzx.frame_posn = 0 /\ lzx.window_posn = 0 /\ held.n = 0 /\ held.at = 0
      /\ call.size = 0 /\ call.todo = 0 /\ answer = "none"
  BY DEF Init, Fresh, Nothing, NoCall
<1>2. 0 % Frame = 0
  BY Sizes
<1>3. QED  BY <1>1, <1>2, Sizes DEF Bounds

LEMMA SamePositions ==
  ASSUME Bounds, lzx'.frame_posn = lzx.frame_posn, lzx'.window_posn = lzx.window_posn,
         lzx.length = 0 => lzx.frame_posn % Frame = 0,
         lzx.length # 0 => lzx'.length # 0,
         UNCHANGED held,
         call'.size <= Frame, -MaxSpill <= call'.todo, call'.todo <= Frame,
         answer' \in {"none", "null", "args", "ok", "failed"}
  PROVE  Bounds'
BY DEF Bounds

LEMMA FailedBounds ==
  ASSUME IInv, Bounds, Error, UNCHANGED held PROVE Bounds'
<1>1. lzx' = [lzx EXCEPT !.error = TRUE] /\ lzx \in Structs /\ call' = NoCall /\ answer' = "failed"
  BY DEF Error, IInv, StreamTypes
<1>2. /\ lzx'.frame_posn = lzx.frame_posn /\ lzx'.window_posn = lzx.window_posn
      /\ lzx'.length = lzx.length
  BY <1>1 DEF Structs
<1>3. call'.size = 0 /\ call'.todo = 0
  BY <1>1 DEF NoCall
<1>4. QED  BY <1>1, <1>2, <1>3, Sizes, SamePositions DEF Bounds

LEMMA InitStreamBounds ==
  ASSUME IInv, Bounds, NEW valid \in BOOLEAN, NEW got \in SUBSET Parts, NEW s \in Streams,
         NEW length \in Nat, NEW r \in Int, InitStream(valid, got, s, length, r)
  PROVE  Bounds'
<1>1. CASE handle'
  <2>1. lzx' = [Fresh EXCEPT !.length = length] /\ UNCHANGED <<held, call>> /\ answer' = "none"
    BY <1>1 DEF InitStream
  <2>2. lzx'.frame_posn = 0 /\ lzx'.window_posn = 0
    BY <2>1 DEF Fresh
  <2>3. 0 % Frame = 0
    BY Sizes
  <2>4. QED  BY <2>1, <2>2, <2>3, Sizes DEF Bounds
<1>2. CASE ~handle'
  <2>1. UNCHANGED <<lzx, held, call>> /\ answer' = "null"
    BY <1>2 DEF InitStream
  <2>2. QED  BY <2>1 DEF Bounds
<1>3. QED  BY <1>1, <1>2

LEMMA FreeBounds ==
  ASSUME Bounds, Free PROVE Bounds'
<1>1. /\ lzx'.frame_posn = 0 /\ lzx'.window_posn = 0 /\ held'.n = 0 /\ held'.at = 0
      /\ call'.size = 0 /\ call'.todo = 0 /\ UNCHANGED answer
  BY DEF Free, Fresh, Nothing, NoCall
<1>2. 0 % Frame = 0
  BY Sizes
<1>3. QED  BY <1>1, <1>2, Sizes DEF Bounds

LEMMA SetOutputLengthBounds ==
  ASSUME IInv, Bounds, SetOutputLength PROVE Bounds'
<1>1. /\ lzx' = [lzx EXCEPT !.length = src.total] /\ lzx \in Structs /\ lzx.length = 0
      /\ UNCHANGED <<held, call, answer>>
  BY DEF SetOutputLength, IInv, StreamTypes
<1>2. lzx'.frame_posn = lzx.frame_posn /\ lzx'.window_posn = lzx.window_posn
  BY <1>1 DEF Structs
<1>3. QED  BY <1>1, <1>2 DEF Bounds

LEMMA DecompressBounds ==
  ASSUME IInv, Bounds, NEW n \in Asks, Decompress(n) PROVE Bounds'
<1>1. /\ handle /\ call.pc = "idle" /\ call = NoCall /\ n \in Int
      /\ lzx \in Structs /\ held \in Waiting /\ held.n \in Nat /\ held.at \in Nat
  BY Sizes, Numbers DEF Decompress, IInv, CallInv, StreamTypes
<1>2. CASE UNCHANGED <<lzx, held, call>> /\ answer' \in {"args", "failed"}
  BY <1>2 DEF Bounds
<1> DEFINE i == Smaller(held.n, n)
           rest == n - i
<1>3. CASE Error /\ UNCHANGED held
  BY <1>3, FailedBounds
<1>4. ASSUME n >= 0,
             held' = [held EXCEPT !.at = @ + i, !.n = @ - i],
             lzx' = [lzx EXCEPT !.offset = @ + i],
             answer' = IF rest = 0 THEN "ok" ELSE "none",
             call' = IF rest = 0 THEN NoCall
                     ELSE [NoCall EXCEPT !.pc = "frame", !.left = rest, !.R = lzx.R,
                             !.end = EndFrameOf(lzx.offset + i + rest)]
      PROVE  Bounds'
  <2>1. i \in Nat /\ i <= held.n
    BY <1>1, <1>4 DEF Smaller
  <2> HIDE DEF i
  <2>2. held'.at = held.at + i /\ held'.n = held.n - i
    BY <1>1, <1>4 DEF Waiting
  <2>3. /\ lzx'.frame_posn = lzx.frame_posn /\ lzx'.window_posn = lzx.window_posn
        /\ lzx'.length = lzx.length
    BY <1>1, <1>4 DEF Structs
  <2>4. call'.size = 0 /\ call'.todo = 0
    <3> HIDE DEF rest
    <3>1. QED  BY <1>4 DEF NoCall
  <2>5. answer' \in {"ok", "none"}
    BY <1>4
  <2>6. held'.n <= Frame /\ held'.at + held'.n <= Window
    BY <1>1, <2>1, <2>2, Sizes DEF Bounds
  <2>7. QED  BY <2>3, <2>4, <2>5, <2>6, Sizes DEF Bounds
<1>5. QED
  <2>1. CASE n < 0 \/ lzx.error
    BY <1>1, <1>2, <2>1 DEF Decompress
  <2>2. CASE n >= 0 /\ ~lzx.error
    BY <1>1, <1>3, <1>4, <2>2 DEF Decompress
  <2>3. QED  BY <1>1, <2>1, <2>2

LEMMA StartFrameBounds ==
  ASSUME IInv, Bounds, StartFrame, Near PROVE Bounds'
<1>1. /\ call.pc = "frame" /\ handle /\ ~lzx.error /\ UNCHANGED held
      /\ lzx \in Structs /\ call \in Calls
  BY DEF StartFrame, IInv, CallInv, StreamTypes
<1>2. CASE Error
  BY <1>1, <1>2, FailedBounds
<1>3. ASSUME NEW given,
             lzx' = [(IF AtReset THEN Reset(lzx) ELSE lzx)
                       EXCEPT !.filesize = given, !.header = TRUE],
             call' = [call EXCEPT !.pc = "blocks", !.size = FrameSizeOf(lzx),
                        !.todo = lzx.frame_posn + FrameSizeOf(lzx) - lzx.window_posn],
             UNCHANGED answer
      PROVE  Bounds'
  <2>1. /\ lzx'.frame_posn = lzx.frame_posn /\ lzx'.window_posn = lzx.window_posn
        /\ lzx'.length = lzx.length
    BY <1>1, <1>3 DEF Structs, Reset
  <2>2. /\ call'.size = FrameSizeOf(lzx)
        /\ call'.todo = lzx.frame_posn + FrameSizeOf(lzx) - lzx.window_posn
    BY <1>1, <1>3 DEF Calls
  <2>3. FrameSizeOf(lzx) \in Nat /\ FrameSizeOf(lzx) <= Frame
    BY <1>1, FrameSizeFacts
  <2>4. lzx.frame_posn \in Nat /\ lzx.window_posn \in Nat
    BY Numbers DEF IInv
  <2>5. Ahead = MaxSpill
    BY <1>1, Sizes DEF Ahead
  <2>6. -MaxSpill <= call'.todo /\ call'.todo <= Frame
    BY <2>2, <2>3, <2>4, <2>5, Sizes DEF Near
  <2>7. QED  BY <1>1, <1>3, <2>1, <2>2, <2>3, <2>6, SamePositions DEF Bounds
<1>4. QED  BY <1>2, <1>3 DEF StartFrame

LEMMA OpenBlockBounds ==
  ASSUME IInv, Bounds, NEW len, NEW stored, NEW e8, OpenBlock(len, stored, e8) PROVE Bounds'
<1>1. UNCHANGED held /\ lzx \in Structs /\ call \in Calls
  BY DEF OpenBlock, IInv, StreamTypes
<1>2. CASE Error
  BY <1>1, <1>2, FailedBounds
<1>3. ASSUME lzx' = [lzx EXCEPT !.block = len, !.stored = stored, !.started = @ \/ stored \/ e8],
             NEW R, call' = [call EXCEPT !.R = R], UNCHANGED answer
      PROVE  Bounds'
  <2>1. /\ lzx'.frame_posn = lzx.frame_posn /\ lzx'.window_posn = lzx.window_posn
        /\ lzx'.length = lzx.length /\ call'.size = call.size /\ call'.todo = call.todo
    BY <1>1, <1>3 DEF Structs, Calls
  <2>2. QED  BY <1>1, <1>3, <2>1 DEF Bounds
<1>4. QED  BY <1>2, <1>3 DEF OpenBlock

LEMMA RunBounds ==
  ASSUME IInv, Bounds, NEW spill \in 0..MaxSpill, Run(spill) PROVE Bounds'
<1> DEFINE run == Smaller(lzx.block, call.todo)
           n == run + spill
<1>1. /\ UNCHANGED held /\ lzx \in Structs /\ call \in Calls /\ call.todo > 0
      /\ lzx.block \in Nat /\ call.todo \in Int
  BY Numbers DEF Run, InBlocks, IInv, StreamTypes
<1>2. CASE Error
  BY <1>1, <1>2, FailedBounds
<1>3. ASSUME lzx.window_posn + n <= Window,
             lzx' = [lzx EXCEPT !.window_posn = @ + n, !.block = @ - n],
             NEW R, call' = [call EXCEPT !.todo = @ - run, !.R = R], UNCHANGED answer
      PROVE  Bounds'
  <2>1. run \in Nat /\ run <= call.todo
    BY <1>1 DEF Smaller
  <2> HIDE DEF run, n
  <2>2. /\ lzx'.frame_posn = lzx.frame_posn /\ lzx'.window_posn = lzx.window_posn + n
        /\ lzx'.length = lzx.length /\ call'.size = call.size /\ call'.todo = call.todo - run
    BY <1>1, <1>3 DEF Structs, Calls
  <2>3. -MaxSpill <= call'.todo /\ call'.todo <= Frame
    BY <1>1, <2>1, <2>2, Sizes DEF Bounds
  <2>4. QED  BY <1>1, <1>3, <2>2, <2>3 DEF Bounds
<1>4. QED  BY <1>2, <1>3 DEF Run

LEMMA FinishCallBounds ==
  ASSUME IInv, Bounds, FinishCall PROVE Bounds'
<1>1. UNCHANGED held /\ lzx \in Structs
  BY DEF FinishCall, IInv, StreamTypes
<1>2. CASE Error
  BY <1>1, <1>2, FailedBounds
<1>3. CASE lzx' = [lzx EXCEPT !.R = call.R] /\ call' = NoCall /\ answer' = "ok"
  <2>1. /\ lzx'.frame_posn = lzx.frame_posn /\ lzx'.window_posn = lzx.window_posn
        /\ lzx'.length = lzx.length /\ call'.size = 0 /\ call'.todo = 0
    BY <1>1, <1>3 DEF Structs, NoCall
  <2>2. QED  BY <1>1, <1>3, <2>1, Sizes DEF Bounds
<1>4. QED  BY <1>2, <1>3 DEF FinishCall

(* A frame ends in the window, and so does the next one's beginning.       *)
LEMMA FrameEnds ==
  ASSUME IInv, Bounds, call.pc = "blocks", call.todo <= 0, held.n = 0
  PROVE  /\ call.size \in Nat /\ lzx.frame_posn \in Nat /\ lzx.window_posn \in Nat
         /\ lzx.frame_posn + call.size <= Window
         /\ call.size = Frame \/ lzx.length # 0
         /\ call.size # 0 => lzx.frame_posn % Frame = 0
         /\ (call.size = Frame /\ lzx.frame_posn % Frame = 0) \/ lzx.length # 0
<1>1. /\ handle /\ ~lzx.error /\ call.size = FrameSizeOf(lzx)
      /\ Placed \/ (Ended /\ call.size = 0)
  BY FrameInWindow
<1>2. call.size \in Nat /\ lzx.frame_posn \in Nat /\ lzx.window_posn \in Nat
  BY Numbers DEF IInv
<1>3. call.size <= Frame /\ (call.size < Frame => lzx.length # 0)
  BY <1>1, FrameSizeFacts
<1>4. Placed => lzx.frame_posn + Frame <= Window
  BY <1>2, FramesFit DEF Placed, Bounds
<1>5. lzx.frame_posn + call.size <= Window
  BY <1>1, <1>2, <1>3, <1>4, Sizes DEF Bounds
<1>6. Placed => lzx.frame_posn % Frame = 0
  BY DEF Placed
<1>7. call.size = Frame \/ lzx.length # 0
  BY <1>1, <1>2, <1>3, Sizes
<1>8. Ended => lzx.length # 0
  BY DEF Ended
<1>9. QED  BY <1>1, <1>2, <1>5, <1>6, <1>7, <1>8

LEMMA EndFrameBounds ==
  ASSUME IInv, Bounds, EndFrame PROVE Bounds'
<1>1. /\ call.pc = "blocks" /\ call.todo <= 0
      /\ lzx \in Structs /\ call \in Calls /\ held \in Waiting
      /\ call.left \in Nat
  BY Numbers DEF EndFrame, IInv, StreamTypes
<1>2. CASE Error /\ UNCHANGED held
  BY <1>2, FailedBounds
<1> DEFINE i == Smaller(call.left, call.size)
<1>3. ASSUME held.n = 0,
             held' = [HeldFrame EXCEPT !.at = @ + i, !.n = @ - i],
             lzx' = [lzx EXCEPT !.offset = @ + i, !.frame = NextFrame,
                       !.frame_posn = Wrapped(@ + call.size), !.window_posn = Wrapped(@)],
             call' = [call EXCEPT !.pc = "frame", !.left = @ - i],
             UNCHANGED answer
      PROVE  Bounds'
  <2>1. /\ call.size \in Nat /\ lzx.frame_posn \in Nat /\ lzx.window_posn \in Nat
        /\ lzx.frame_posn + call.size <= Window
        /\ (call.size = Frame /\ lzx.frame_posn % Frame = 0) \/ lzx.length # 0
    BY <1>1, <1>3, FrameEnds
  <2>2. i \in Nat /\ i <= call.size
    BY <1>1, <2>1 DEF Smaller
  <2> HIDE DEF i
  <2>3. /\ lzx'.frame_posn = Wrapped(lzx.frame_posn + call.size)
        /\ lzx'.window_posn = Wrapped(lzx.window_posn) /\ lzx'.length = lzx.length
    BY <1>1, <1>3 DEF Structs
  <2>4. call'.size = call.size /\ call'.todo = call.todo
    BY <1>1, <1>3 DEF Calls
  <2>5. /\ HeldFrame.n = call.size /\ HeldFrame.at \in {0, lzx.frame_posn}
        /\ held'.n = HeldFrame.n - i /\ held'.at = HeldFrame.at + i
    BY <1>1, <1>3 DEF HeldFrame
  <2>6. held'.n <= Frame /\ held'.at + held'.n <= Window
    <3>1. Frame <= Window
      <4>1. 0 \in Nat /\ 0 % Frame = 0 /\ 0 < Window
        BY Sizes
      <4>2. 0 + Frame <= Window
        BY <4>1, FramesFit
      <4>3. QED  BY <4>2, Sizes
    <3>2. call.size <= Frame
      BY DEF Bounds
    <3>3. CASE HeldFrame.at = 0
      BY <2>1, <2>2, <2>5, <3>1, <3>2, <3>3, Sizes
    <3>4. CASE HeldFrame.at = lzx.frame_posn
      BY <2>1, <2>2, <2>5, <3>2, <3>4, Sizes
    <3>5. QED  BY <2>5, <3>3, <3>4
  <2>7. lzx'.frame_posn < Window /\ lzx'.window_posn <= Window
    BY <2>1, <2>3, Sizes DEF Wrapped, Bounds
  <2>8. lzx'.frame_posn % Frame = 0 \/ lzx'.length # 0
    <3>1. CASE lzx.length # 0
      BY <2>3, <3>1
    <3>2. CASE call.size = Frame /\ lzx.frame_posn % Frame = 0
      BY <2>1, <2>3, <3>2, FramesFit DEF Wrapped
    <3>3. QED  BY <2>1, <3>1, <3>2
  <2>9. QED  BY <1>3, <2>4, <2>6, <2>7, <2>8 DEF Bounds
<1>4. QED  BY <1>2, <1>3 DEF EndFrame

(* A step keeps the bounds if a frame that it starts finds the window near.*)
LEMMA StepBounds ==
  ASSUME IInv, Bounds, StreamStep, StartFrame => Near PROVE Bounds'
<1>1. CASE BadInput
  BY <1>1, FailedBounds DEF BadInput
<1>2. CASE Within
  BY <1>1, <1>2, StartFrameBounds, OpenBlockBounds, RunBounds, EndFrameBounds, FinishCallBounds
  DEF Within, Blocks, Runs
<1>3. CASE UNCHANGED vars
  BY <1>3 DEF vars, Bounds
<1>4. QED
  BY <1>2, <1>3, InitStreamBounds, SetOutputLengthBounds, DecompressBounds, FreeBounds
  DEF StreamStep, AnyStream, Asked

NearNow == handle /\ ~lzx.error /\ (call.pc = "blocks" => held.n = 0) => Near

LEMMA SameNear ==
  ASSUME IInv, IInv', NearNow, handle, ~lzx.error, call.pc = "blocks" => held.n = 0,
         lzx'.frame_posn = lzx.frame_posn, lzx'.window_posn = lzx.window_posn, Ahead <= Ahead'
  PROVE  NearNow'
<1>1. lzx.frame_posn \in Nat /\ lzx.window_posn \in Nat /\ call.size \in Nat
  BY Numbers DEF IInv
<1>2. call'.size \in Nat
  <2>1. call' \in Calls
    BY DEF IInv, StreamTypes
  <2>2. QED  BY <2>1 DEF Calls
<1>3. Ahead \in Nat /\ Ahead' \in Nat
  BY <1>1, <1>2, Sizes DEF Ahead
<1>4. CASE lzx.window_posn = lzx.frame_posn
  BY <1>4 DEF Near, NearNow
<1>5. CASE lzx.window_posn # lzx.frame_posn
  <2>1. lzx.frame_posn % Frame = 0 /\ lzx.window_posn - lzx.frame_posn \in 0..Ahead
    BY <1>5 DEF Near, NearNow
  <2>2. lzx'.window_posn - lzx'.frame_posn \in 0..Ahead'
    BY <1>1, <1>3, <2>1
  <2>3. QED  BY <2>1, <2>2 DEF Near, NearNow
<1>6. QED  BY <1>4, <1>5

LEMMA FailedNear ==
  ASSUME IInv, Error PROVE NearNow' /\ lzx'.error
BY DEF Error, IInv, StreamTypes, Structs, NearNow

LEMMA InitStreamNear ==
  ASSUME IInv, NearNow, NEW valid \in BOOLEAN, NEW got \in SUBSET Parts, NEW s \in Streams,
         NEW length \in Nat, NEW r \in Int, InitStream(valid, got, s, length, r)
  PROVE  NearNow'
<1>1. CASE handle'
  <2>1. lzx'.frame_posn = 0 /\ lzx'.window_posn = 0
    BY <1>1 DEF InitStream, Fresh
  <2>2. QED  BY <2>1 DEF Near, NearNow
<1>2. QED  BY <1>1 DEF NearNow

LEMMA DecompressNear ==
  ASSUME IInv, IInv', NearNow, NEW n \in Asks, Decompress(n) PROVE NearNow'
<1>1. handle /\ call.pc = "idle" /\ lzx \in Structs /\ call = NoCall
  BY DEF Decompress, IInv, CallInv, StreamTypes
<1>2. CASE Error
  BY <1>2, FailedNear
<1>3. ASSUME ~Error PROVE NearNow'
  <2>1. /\ lzx'.frame_posn = lzx.frame_posn /\ lzx'.window_posn = lzx.window_posn
        /\ lzx'.error = lzx.error
    BY <1>1, <1>3 DEF Decompress, Structs
  <2>2. call'.pc # "blocks"
    BY <1>1, <1>3 DEF Decompress, NoCall
  <2>3. Ahead = MaxSpill /\ Ahead' = MaxSpill
    BY <1>1, <2>2, Sizes DEF Ahead
  <2>4. CASE lzx.error
    BY <2>1, <2>4 DEF NearNow
  <2>5. CASE ~lzx.error
    BY <1>1, <2>1, <2>3, <2>5, SameNear, Sizes
  <2>6. QED  BY <2>4, <2>5
<1>4. QED  BY <1>2, <1>3

LEMMA StartFrameNear ==
  ASSUME IInv, IInv', NearNow, StartFrame PROVE NearNow'
<1>1. /\ call.pc = "frame" /\ handle /\ ~lzx.error /\ lzx \in Structs /\ call \in Calls
  BY DEF StartFrame, IInv, CallInv, StreamTypes
<1>2. CASE Error
  BY <1>2, FailedNear
<1>3. ASSUME NEW given,
             lzx' = [(IF AtReset THEN Reset(lzx) ELSE lzx)
                       EXCEPT !.filesize = given, !.header = TRUE],
             call' = [call EXCEPT !.pc = "blocks", !.size = FrameSizeOf(lzx),
                        !.todo = lzx.frame_posn + FrameSizeOf(lzx) - lzx.window_posn]
      PROVE  NearNow'
  <2>1. lzx'.frame_posn = lzx.frame_posn /\ lzx'.window_posn = lzx.window_posn
    BY <1>1, <1>3 DEF Structs, Reset
  <2>2. call'.size = FrameSizeOf(lzx) /\ FrameSizeOf(lzx) \in Nat /\ call'.pc = "blocks"
    BY <1>1, <1>3, FrameSizeFacts DEF Calls
  <2>3. Ahead <= Ahead'
    BY <1>1, <2>2, Sizes DEF Ahead
  <2>4. QED  BY <1>1, <2>1, <2>3, SameNear
<1>4. QED  BY <1>2, <1>3 DEF StartFrame

LEMMA OpenBlockNear ==
  ASSUME IInv, IInv', NearNow, NEW len, NEW stored, NEW e8, OpenBlock(len, stored, e8)
  PROVE  NearNow'
<1>1. /\ UNCHANGED held /\ lzx \in Structs /\ call \in Calls /\ handle /\ ~lzx.error
      /\ call.pc = "blocks"
  BY DEF OpenBlock, InBlocks, IInv, StreamTypes, CallInv
<1>2. CASE Error
  BY <1>2, FailedNear
<1>3. ASSUME lzx' = [lzx EXCEPT !.block = len, !.stored = stored, !.started = @ \/ stored \/ e8],
             NEW R, call' = [call EXCEPT !.R = R]
      PROVE  NearNow'
  <2>1. /\ lzx'.frame_posn = lzx.frame_posn /\ lzx'.window_posn = lzx.window_posn
        /\ call'.size = call.size /\ call'.pc = call.pc
    BY <1>1, <1>3 DEF Structs, Calls
  <2>2. Ahead' = Ahead /\ Ahead \in Nat
    BY <2>1, Numbers DEF Ahead, IInv
  <2>3. CASE held.n = 0
    BY <1>1, <2>1, <2>2, <2>3, SameNear
  <2>4. CASE held.n # 0
    BY <1>1, <2>1, <2>4 DEF NearNow
  <2>5. QED  BY <2>3, <2>4
<1>4. QED  BY <1>2, <1>3 DEF OpenBlock

LEMMA RunNear ==
  ASSUME IInv, NearNow, NEW spill \in 0..MaxSpill, Run(spill) PROVE NearNow'
<1> DEFINE run == Smaller(lzx.block, call.todo)
           n == run + spill
<1>1. /\ UNCHANGED held /\ lzx \in Structs /\ call \in Calls /\ call.todo > 0
      /\ call.pc = "blocks" /\ handle /\ ~lzx.error
      /\ lzx.block \in Nat /\ call.todo \in Int /\ lzx.frame_posn \in Nat /\ lzx.window_posn \in Nat
      /\ call.size \in Nat /\ lzx.offset \in Nat /\ lzx.length \in Nat /\ spill \in Nat
  <2>1. /\ UNCHANGED held /\ lzx \in Structs /\ call \in Calls /\ call.todo > 0
        /\ call.pc = "blocks"
    BY DEF Run, InBlocks, IInv, StreamTypes
  <2>2. handle /\ ~lzx.error
    BY <2>1 DEF IInv, CallInv
  <2>3. spill \in Nat
    BY Sizes
  <2>4. QED  BY <2>1, <2>2, <2>3, Numbers DEF IInv
<1>2. CASE Error
  BY <1>2, FailedNear
<1>3. ASSUME lzx' = [lzx EXCEPT !.window_posn = @ + n, !.block = @ - n],
             NEW R, call' = [call EXCEPT !.todo = @ - run, !.R = R], held.n = 0
      PROVE  NearNow'
  <2>1. run \in Nat /\ run <= call.todo
    BY <1>1 DEF Smaller
  <2>2. n = run + spill
    OBVIOUS
  <2> HIDE DEF run, n
  <2>3. /\ lzx'.frame_posn = lzx.frame_posn /\ lzx'.window_posn = lzx.window_posn + n
        /\ call'.size = call.size /\ call'.pc = "blocks"
    BY <1>1, <1>3 DEF Structs, Calls
  <2>4. /\ call.todo = lzx.frame_posn + call.size - lzx.window_posn
        /\ call.size = FrameSizeOf(lzx)
    BY <1>1 DEF IInv, BytesInv, InsideFrame
  <2>5. Near
    BY <1>1, <1>3 DEF NearNow
  <2>6. Placed
    <3>1. SUFFICES ASSUME Ended PROVE FALSE
      BY <1>1 DEF IInv, BytesInv
    <3>2. lzx.length # 0 /\ lzx.length = lzx.offset
      BY <1>1, <1>3, <3>1 DEF Ended, FrameStart
    <3>3. call.size <= 0
      BY <1>1, <2>4, <3>2, FrameSizeFacts
    <3>4. Ahead = 0 + MaxSpill
      BY <1>1, <3>3, Sizes DEF Ahead
    <3>5. lzx.window_posn >= lzx.frame_posn
      BY <1>1, <2>5, <3>4, Sizes DEF Near
    <3>6. QED  BY <1>1, <2>4, <3>3, <3>5
  <2>7. lzx.frame_posn % Frame = 0 /\ lzx.window_posn - lzx.frame_posn >= 0
    BY <1>1, <2>6, Numbers DEF Placed, IInv
  <2>8. Ahead' = call.size + MaxSpill
    BY <2>3 DEF Ahead
  <2>9. lzx'.window_posn - lzx'.frame_posn \in 0..Ahead'
    <3>1. n \in Nat /\ n <= call.todo + MaxSpill
      BY <1>1, <2>1, <2>2, Sizes
    <3>2. QED  BY <1>1, <2>3, <2>4, <2>7, <2>8, <3>1, Sizes
  <2>10. QED  BY <2>3, <2>7, <2>9 DEF NearNow, Near
<1>4. CASE held.n # 0 /\ ~Error
  <2>1. call'.pc = "blocks"
    BY <1>1, <1>4 DEF Run, Calls
  <2>2. QED  BY <1>1, <1>4, <2>1 DEF NearNow
<1>5. QED  BY <1>2, <1>3, <1>4 DEF Run

LEMMA FinishCallNear ==
  ASSUME IInv, IInv', NearNow, FinishCall PROVE NearNow'
<1>1. lzx \in Structs /\ call.pc = "frame" /\ handle /\ ~lzx.error
  BY DEF FinishCall, IInv, StreamTypes, CallInv
<1>2. CASE Error
  BY <1>2, FailedNear
<1>3. CASE lzx' = [lzx EXCEPT !.R = call.R] /\ call' = NoCall
  <2>1. lzx'.frame_posn = lzx.frame_posn /\ lzx'.window_posn = lzx.window_posn
    BY <1>1, <1>3 DEF Structs
  <2>2. Ahead = MaxSpill /\ Ahead' = MaxSpill
    BY <1>1, <1>3, Sizes DEF Ahead, NoCall
  <2>3. QED  BY <1>1, <2>1, <2>2, Sizes, SameNear
<1>4. QED  BY <1>2, <1>3 DEF FinishCall

(* A short frame is the last: nothing of it may be in the frame to come,   *)
(* unless the stream goes on behind the length it was given.               *)
LEMMA EndFrameNear ==
  ASSUME IInv, Bounds, NearNow, EndFrame, ~lzx'.error
  PROVE  /\ held.n = 0 /\ lzx'.frame = lzx.frame + 1 /\ lzx'.length = lzx.length
         /\ call'.pc = "frame" /\ call'.end = call.end
         /\ FrameStart' = FrameStart + call.size /\ FrameStart = lzx.offset
         /\ call.size = FrameSizeOf(lzx)
         /\ Near' \/ (call.size # Frame /\ lzx.length < src.total)
<1>1. /\ call.pc = "blocks" /\ call.todo <= 0 /\ handle /\ ~lzx.error
      /\ lzx \in Structs /\ call \in Calls /\ held \in Waiting
      /\ call.left \in Nat /\ lzx.offset \in Nat
  BY Numbers DEF EndFrame, IInv, StreamTypes, CallInv
<1>2. ~Error
  BY FailedNear
<1> DEFINE i == Smaller(call.left, call.size)
<1>3. /\ held.n = 0
      /\ held' = [HeldFrame EXCEPT !.at = @ + i, !.n = @ - i]
      /\ lzx' = [lzx EXCEPT !.offset = @ + i, !.frame = NextFrame,
                   !.frame_posn = Wrapped(@ + call.size), !.window_posn = Wrapped(@)]
      /\ call' = [call EXCEPT !.pc = "frame", !.left = @ - i]
  BY <1>2 DEF EndFrame
<1>4. /\ call.size \in Nat /\ lzx.frame_posn \in Nat /\ lzx.window_posn \in Nat
      /\ lzx.frame_posn + call.size <= Window
      /\ call.size # 0 => lzx.frame_posn % Frame = 0
  BY <1>1, <1>3, FrameEnds
<1>5. i \in Nat /\ i <= call.size
  BY <1>1, <1>4 DEF Smaller
<1>6. /\ call.size = FrameSizeOf(lzx) /\ FrameStart = lzx.offset
      /\ lzx.window_posn >= lzx.frame_posn + call.size
      /\ Placed \/ (Ended /\ call.size = 0)
      /\ lzx.window_posn <= Window
  BY <1>1, <1>3, FrameInWindow DEF Bounds
<1> HIDE DEF i
<1>7. /\ lzx'.frame_posn = Wrapped(lzx.frame_posn + call.size)
      /\ lzx'.window_posn = Wrapped(lzx.window_posn) /\ lzx'.length = lzx.length
      /\ lzx'.offset = lzx.offset + i /\ lzx'.frame = lzx.frame + 1
      /\ call'.pc = "frame" /\ call'.end = call.end
  BY <1>1, <1>3 DEF Structs, Calls, NextFrame
<1>8. FrameStart' = FrameStart + call.size
  <2>1. HeldFrame.n = call.size /\ held'.n = HeldFrame.n - i
    BY <1>1, <1>3 DEF HeldFrame
  <2>2. QED  BY <1>1, <1>3, <1>4, <1>5, <1>6, <1>7, <2>1 DEF FrameStart
<1>9. /\ Near /\ Ahead = call.size + MaxSpill /\ Ahead' = MaxSpill
  BY <1>1, <1>3, <1>4, <1>7, Sizes DEF NearNow, Ahead
<1>10. ASSUME call.size = Frame \/ ~(lzx.length < src.total) PROVE Near'
  <2>1. CASE lzx.window_posn = lzx.frame_posn + call.size
    BY <1>7, <2>1 DEF Near
  <2>2. CASE lzx.window_posn # lzx.frame_posn + call.size
    <3>1. lzx.window_posn > lzx.frame_posn + call.size
      BY <1>4, <1>6, <2>2
    <3>2. /\ lzx.frame_posn % Frame = 0
          /\ lzx.window_posn - lzx.frame_posn <= call.size + MaxSpill
      BY <1>4, <1>9, <3>1, Sizes DEF Near
    <3>3. lzx.frame_posn + Frame <= Window /\ (lzx.frame_posn + Frame) % Frame = 0
      BY <1>4, <3>2, FramesFit DEF Bounds
    <3>4. CASE call.size = 0
      <4>0. Ahead' = MaxSpill /\ MaxSpill \in Nat /\ MaxSpill < Frame
        BY <1>9, Sizes
      <4>9. /\ lzx.frame_posn + Frame <= Window
            /\ lzx.window_posn - lzx.frame_posn <= MaxSpill /\ lzx.window_posn > lzx.frame_posn
        BY ONLY <1>4, <3>1, <3>2, <3>3, <3>4, Sizes
      <4>1. lzx'.frame_posn = lzx.frame_posn /\ lzx'.window_posn = lzx.window_posn
        <5>1. lzx.frame_posn + call.size = lzx.frame_posn
          BY ONLY <1>4, <3>4
        <5>2. lzx.frame_posn # Window /\ lzx.window_posn # Window
          BY ONLY <1>4, <4>0, <4>9, Sizes
        <5>3. QED  BY ONLY <1>7, <5>1, <5>2 DEF Wrapped
      <4>2. lzx'.window_posn - lzx'.frame_posn \in 0..Ahead'
        BY ONLY <1>4, <4>0, <4>1, <4>9
      <4>3. QED  BY <3>2, <4>1, <4>2 DEF Near
    <3>5. CASE call.size = Frame
      <4>1. lzx.frame_posn + Frame < Window
        BY ONLY <1>4, <1>6, <3>1, <3>5, Sizes
      <4>2. (lzx.frame_posn + Frame) + Frame <= Window
        <5>1. lzx.frame_posn + Frame \in Nat
          BY <1>4, Sizes
        <5>2. QED  BY <3>3, <4>1, <5>1, FramesFit
      <4>3. lzx'.frame_posn = lzx.frame_posn + Frame /\ lzx'.window_posn = lzx.window_posn
        <5>1. lzx.frame_posn + Frame # Window
          BY ONLY <1>4, <4>1, Sizes
        <5>2. lzx.window_posn # Window
          BY ONLY <1>4, <3>2, <3>5, <4>2, Sizes
        <5>3. QED  BY ONLY <1>7, <3>5, <5>1, <5>2 DEF Wrapped
      <4>4. lzx'.window_posn - lzx'.frame_posn \in 0..Ahead'
        <5>1. Ahead' = MaxSpill /\ MaxSpill \in Nat
          BY <1>9, Sizes
        <5>2. QED  BY ONLY <1>4, <3>1, <3>2, <3>5, <4>3, <5>1, Sizes
      <4>5. QED  BY <3>3, <4>3, <4>4 DEF Near
    <3>6. CASE call.size # 0 /\ call.size # Frame
      <4>1. Placed /\ src.decoded <= src.total
        BY <1>6, <3>6 DEF IInv
      <4>2. src.decoded \in Nat /\ src.total \in Nat /\ lzx.length \in Nat
        BY Numbers DEF IInv
      <4>3. src.decoded = lzx.offset + lzx.window_posn - lzx.frame_posn
        BY <1>6, <4>1 DEF Placed
      <4>4. call.size = lzx.length - lzx.offset /\ src.total <= lzx.length
        BY <1>1, <1>4, <1>6, <1>10, <3>6, <4>2, FrameSizeFacts, Sizes
      <4>5. QED  BY <1>1, <1>4, <3>1, <4>1, <4>2, <4>3, <4>4
    <3>7. QED  BY <3>4, <3>5, <3>6
  <2>3. QED  BY <2>1, <2>2
<1>11. QED  BY <1>3, <1>6, <1>7, <1>8, <1>10

LEMMA StepNear ==
  ASSUME IInv, Bounds, NearNow, StreamStep, handle => lzx.length \in {0, src.total}
  PROVE  NearNow'
<1>0. IInv'
  BY StepInv
<1>1. CASE EndFrame
  <2>1. CASE lzx'.error
    BY <2>1 DEF NearNow
  <2>2. CASE ~lzx'.error
    <3>1. /\ call.size = FrameSizeOf(lzx)
          /\ Near' \/ (call.size # Frame /\ lzx.length < src.total)
      BY <1>1, <2>2, EndFrameNear
    <3>2. handle /\ ~lzx.error
      BY <1>1 DEF EndFrame, IInv, CallInv
    <3>3. src.total \in Nat /\ lzx.length \in Nat
      BY Numbers DEF IInv
    <3>4. call.size # Frame => lzx.length # 0
      BY <3>1, <3>2, <3>3, FrameSizeFacts, Sizes
    <3>5. QED  BY <3>1, <3>2, <3>3, <3>4 DEF NearNow
  <2>3. QED  BY <2>1, <2>2
<1>2. CASE SetOutputLength
  <2>1. /\ lzx'.frame_posn = lzx.frame_posn /\ lzx'.window_posn = lzx.window_posn
        /\ handle /\ ~lzx.error /\ call.pc = "idle" /\ UNCHANGED call
    BY <1>2 DEF SetOutputLength, IInv, StreamTypes, Structs
  <2>2. Ahead' = Ahead /\ Ahead \in Nat
    BY <2>1, Numbers DEF Ahead, IInv
  <2>3. QED  BY <1>0, <2>1, <2>2, SameNear
<1>3. CASE Free
  BY <1>3 DEF Free, NearNow
<1>4. CASE UNCHANGED vars
  BY <1>4 DEF vars, NearNow, Near, Ahead
<1>5. CASE Within
  <2>1. BadInput => NearNow'
    BY FailedNear DEF BadInput
  <2>2. QED
    BY <1>0, <1>1, <1>5, <2>1, StartFrameNear, OpenBlockNear, RunNear, FinishCallNear
    DEF Within, Blocks, Runs
<1>6. QED
  BY <1>0, <1>2, <1>3, <1>4, <1>5, InitStreamNear, DecompressNear DEF StreamStep, AnyStream, Asked

(* The extension module asks once, for the length it gave: frames follow   *)
(* each other without a gap until the short one, which is the call's last. *)
InStep == NearNow /\ FrameStart = lzx.frame * Frame
Asking == step \in {"call", "calling"} /\ handle /\ ~lzx.error
ExtensionNear ==
  Asking =>
    /\ lzx.length = outlen
    /\ call.pc # "idle" => call.end = EndFrameOf(outlen)
    /\ \/ InStep
       \/ step = "calling" /\ call.pc # "blocks" /\ (call.pc = "frame" => lzx.frame >= call.end)

CallerNear ==
  /\ Bounds
  /\ caller = "program" => ProgramLength /\ NearNow
  /\ ExtensionNear

(* Every step but EndFrame that goes on with the call leaves the frame.    *)
LEMMA FrameKept ==
  ASSUME IInv, StartFrame \/ Blocks \/ Runs, ~lzx'.error
  PROVE  /\ FrameStart' = FrameStart /\ lzx'.frame = lzx.frame
         /\ call.pc \in {"frame", "blocks"} /\ call'.pc = "blocks" /\ call'.end = call.end
<1>1. lzx \in Structs /\ call \in Calls
  BY DEF IInv, StreamTypes
<1>2. ~Error
  BY <1>1 DEF Error, Structs
<1>3. UNCHANGED held
  BY DEF StartFrame, Blocks, OpenBlock, Runs, Run
<1>4. CASE StartFrame
  <2>1. PICK given :
          /\ lzx' = [(IF AtReset THEN Reset(lzx) ELSE lzx)
                       EXCEPT !.filesize = given, !.header = TRUE]
          /\ call' = [call EXCEPT !.pc = "blocks", !.size = FrameSizeOf(lzx),
                        !.todo = lzx.frame_posn + FrameSizeOf(lzx) - lzx.window_posn]
    BY <1>2, <1>4 DEF StartFrame
  <2>2. lzx'.frame = lzx.frame /\ lzx'.offset = lzx.offset
    BY <1>1, <2>1 DEF Reset, Structs
  <2>3. call'.pc = "blocks" /\ call'.end = call.end
    BY <1>1, <2>1 DEF Calls
  <2>4. call.pc = "frame"
    BY <1>4 DEF StartFrame
  <2>5. QED  BY <1>3, <2>2, <2>3, <2>4 DEF FrameStart
<1>5. CASE Blocks
  <2>1. PICK len \in BlockLengths, stored \in BOOLEAN, e8 \in BOOLEAN : OpenBlock(len, stored, e8)
    BY <1>5 DEF Blocks
  <2>2. ASSUME lzx' = [lzx EXCEPT !.block = len, !.stored = stored, !.started = @ \/ stored \/ e8],
               NEW R, call' = [call EXCEPT !.R = R]
        PROVE  /\ lzx'.frame = lzx.frame /\ lzx'.offset = lzx.offset
               /\ call'.pc = call.pc /\ call'.end = call.end
    BY ONLY <1>1, <2>2 DEF Structs, Calls
  <2>3. /\ lzx'.frame = lzx.frame /\ lzx'.offset = lzx.offset
        /\ call'.pc = call.pc /\ call'.end = call.end
    BY ONLY <1>2, <2>1, <2>2 DEF OpenBlock
  <2>4. call.pc = "blocks"
    BY <2>1 DEF OpenBlock, InBlocks
  <2>5. QED  BY <1>3, <2>3, <2>4 DEF FrameStart
<1>6. CASE Runs
  <2>1. PICK spill \in 0..MaxSpill : Run(spill)
    BY <1>6 DEF Runs
  <2> DEFINE run == Smaller(lzx.block, call.todo)
             n == run + spill
  <2>2. ASSUME lzx' = [lzx EXCEPT !.window_posn = @ + n, !.block = @ - n],
               NEW R, call' = [call EXCEPT !.todo = @ - run, !.R = R]
        PROVE  /\ lzx'.frame = lzx.frame /\ lzx'.offset = lzx.offset
               /\ call'.pc = call.pc /\ call'.end = call.end
    <3> HIDE DEF run, n
    <3>1. lzx'.frame = lzx.frame /\ lzx'.offset = lzx.offset
      BY ONLY <1>1, <2>2 DEF Structs
    <3>2. call'.pc = call.pc /\ call'.end = call.end
      BY ONLY <1>1, <2>2 DEF Calls
    <3>3. QED  BY <3>1, <3>2
  <2>3. /\ lzx'.frame = lzx.frame /\ lzx'.offset = lzx.offset
        /\ call'.pc = call.pc /\ call'.end = call.end
    BY ONLY <1>2, <2>1, <2>2 DEF Run
  <2>4. call.pc = "blocks"
    BY <2>1 DEF Run, InBlocks
  <2>5. QED  BY <1>3, <2>3, <2>4 DEF FrameStart
<1>7. QED  BY <1>4, <1>5, <1>6

LEMMA WithinNear ==
  ASSUME IInv, Bounds, ExtensionNear, outlen \in Nat, step = "calling", Within, UNCHANGED modvars
  PROVE  ExtensionNear' /\ (StartFrame => Near)
<1>1. /\ call.pc # "idle" /\ handle /\ ~lzx.error /\ IInv'
  <2>1. call.pc # "idle"
    BY DEF Within, StartFrame, Blocks, OpenBlock, InBlocks, Runs, Run, EndFrame, FinishCall, BadInput
  <2>2. IInv'
    BY StepInv DEF StreamStep
  <2>3. QED  BY <2>1, <2>2 DEF IInv, CallInv
<1>2. step' = "calling" /\ UNCHANGED outlen
  BY DEF modvars
<1>3. /\ lzx.length = outlen /\ call.end = EndFrameOf(outlen)
      /\ InStep \/ (call.pc = "frame" /\ lzx.frame >= call.end)
  <2>1. call.pc \in {"idle", "frame", "blocks"}
    BY DEF IInv, StreamTypes, Calls
  <2>2. QED  BY <1>1, <2>1 DEF ExtensionNear, Asking
<1>4. handle' /\ lzx'.length = outlen
  BY <1>1, <1>3, LengthKept
<1>5. lzx.frame \in Nat /\ call.end \in Int
  BY Numbers DEF IInv
<1>6. ASSUME lzx.frame < call.end, call.pc = "frame" PROVE InStep
  BY <1>3, <1>5, <1>6
<1>7. StartFrame => Near
  <2>1. SUFFICES ASSUME StartFrame PROVE Near
    OBVIOUS
  <2>2. InStep
    BY <1>6, <2>1 DEF StartFrame
  <2>3. QED  BY <1>1, <2>1, <2>2 DEF StartFrame, InStep, NearNow
<1>8. CASE lzx'.error
  BY <1>7, <1>8 DEF ExtensionNear, Asking
<1>9. CASE FinishCall /\ ~lzx'.error
  <2>1. call'.pc = "idle"
    BY <1>9 DEF FinishCall, Error, NoCall
  <2>2. QED  BY <1>2, <1>4, <1>7, <2>1 DEF ExtensionNear, Asking
<1>10. CASE (StartFrame \/ Blocks \/ Runs) /\ ~lzx'.error
  <2>1. /\ FrameStart' = FrameStart /\ lzx'.frame = lzx.frame
        /\ call.pc \in {"frame", "blocks"} /\ call'.pc = "blocks" /\ call'.end = call.end
    BY <1>10, FrameKept
  <2>2. InStep
    <3>1. CASE StartFrame
      BY <1>6, <3>1 DEF StartFrame
    <3>2. CASE Blocks \/ Runs
      BY <1>3, <3>2 DEF Blocks, OpenBlock, Runs, Run, InBlocks
    <3>3. QED  BY <1>10, <3>1, <3>2
  <2>3. NearNow'
    BY <1>1, <1>10, <2>2, StartFrameNear, OpenBlockNear, RunNear DEF Blocks, Runs, InStep
  <2>4. InStep'
    BY <2>1, <2>2, <2>3 DEF InStep
  <2>5. QED  BY <1>2, <1>3, <1>4, <1>7, <2>1, <2>4 DEF ExtensionNear, Asking
<1>11. CASE EndFrame /\ ~lzx'.error
  <2>1. InStep
    BY <1>3, <1>11 DEF EndFrame
  <2>2. /\ lzx'.frame = lzx.frame + 1 /\ call'.pc = "frame" /\ call'.end = call.end
        /\ FrameStart' = FrameStart + call.size /\ FrameStart = lzx.offset
        /\ call.size = FrameSizeOf(lzx)
        /\ Near' \/ call.size # Frame
    BY <1>11, <2>1, EndFrameNear DEF InStep
  <2>3. FrameStart = lzx.frame * Frame
    BY <2>1 DEF InStep
  <2>4. CASE call.size = Frame
    <3>1. FrameStart' = lzx'.frame * Frame
      BY <1>3, <1>5, <2>2, <2>3, <2>4, EndFrameFacts
    <3>2. InStep'
      BY <2>2, <2>4, <3>1 DEF InStep, NearNow
    <3>3. QED  BY <1>2, <1>3, <1>4, <1>7, <2>2, <3>2 DEF ExtensionNear, Asking
  <2>5. CASE call.size # Frame
    <3>1. call.size = outlen - lzx.offset /\ call.size < Frame /\ lzx.offset \in Nat
      <4>1. /\ FrameSizeOf(lzx) \in Nat /\ FrameSizeOf(lzx) <= Frame
            /\ FrameSizeOf(lzx) < Frame => FrameSizeOf(lzx) = lzx.length - lzx.offset
        BY <1>1, FrameSizeFacts
      <4>2. lzx.offset \in Nat
        BY Numbers DEF IInv
      <4>3. QED  BY <1>3, <2>2, <2>5, <4>1, <4>2, Sizes
    <3>2. (lzx.frame + 1) * Frame = FrameStart + Frame
      BY <1>5, <2>3, EndFrameFacts
    <3>3. ~((lzx.frame + 1) * Frame <= outlen)
      BY <2>2, <3>1, <3>2, Sizes
    <3>4. ~(lzx.frame + 1 < EndFrameOf(outlen))
      <4>1. lzx.frame + 1 \in Nat
        BY <1>5
      <4>2. QED  BY <3>3, <4>1, EndFrameFacts
    <3>5. lzx'.frame >= call'.end
      BY <1>3, <1>5, <2>2, <3>4
    <3>6. QED  BY <1>2, <1>3, <1>4, <1>7, <2>2, <3>5 DEF ExtensionNear, Asking
  <2>6. QED  BY <2>4, <2>5
<1>12. QED
  <2>1. BadInput => lzx'.error
    BY FailedNear DEF BadInput
  <2>2. QED  BY <1>8, <1>9, <1>10, <1>11, <2>1 DEF Within

LEMMA StartNear ==
  ASSUME ModuleInv, ExtensionNear, Start PROVE ExtensionNear'
<1>1. /\ step = "call" /\ step' = "calling" /\ UNCHANGED outlen /\ Decompress(outlen)
      /\ outlen \in Asks /\ outlen \in Nat /\ lzx.offset = 0 /\ IInv /\ ~lzx.error
  BY ModuleAssumption DEF Start, ModuleInv, CallerInv, ResultInv
<1>2. /\ handle /\ lzx \in Structs /\ held \in Waiting /\ held.n \in Nat
  BY <1>1, Numbers DEF Decompress, IInv, StreamTypes
<1>3. IInv' /\ lzx'.length = lzx.length
  BY <1>1, StepInv, LengthKept DEF StreamStep, Asked
<1>4. lzx.length = outlen /\ InStep
  BY <1>1, <1>2 DEF ExtensionNear, Asking
<1>5. NearNow'
  BY <1>1, <1>3, <1>4, DecompressNear DEF InStep
<1>6. CASE lzx'.error
  BY <1>6 DEF ExtensionNear, Asking
<1>7. CASE ~lzx'.error
  <2> DEFINE i == Smaller(held.n, outlen)
             rest == outlen - i
  <2>1. ~Error
    BY <1>1, <1>7, FailedNear
  <2>2. /\ held' = [held EXCEPT !.at = @ + i, !.n = @ - i]
        /\ lzx' = [lzx EXCEPT !.offset = @ + i]
        /\ call' = IF rest = 0 THEN NoCall
                   ELSE [NoCall EXCEPT !.pc = "frame", !.left = rest, !.R = lzx.R,
                           !.end = EndFrameOf(lzx.offset + i + rest)]
    BY <1>1, <2>1 DEF Decompress
  <2>3. i \in Nat
    BY <1>1, <1>2 DEF Smaller
  <2> HIDE DEF i
  <2>4. lzx.offset + i + rest = outlen
    BY <1>1, <2>3
  <2>5. call'.pc # "idle" => call'.end = EndFrameOf(outlen)
    <3> HIDE DEF rest
    <3>1. QED  BY <2>2, <2>4 DEF NoCall
  <2>6. /\ lzx'.frame = lzx.frame /\ lzx'.offset = lzx.offset + i /\ held'.n = held.n - i
    BY <1>2, <2>2 DEF Structs, Waiting
  <2>7. FrameStart' = FrameStart
    BY <1>1, <1>2, <2>3, <2>6 DEF FrameStart
  <2>8. InStep'
    BY <1>4, <1>5, <2>6, <2>7 DEF InStep
  <2>9. QED  BY <1>1, <1>3, <1>4, <2>5, <2>8 DEF ExtensionNear, Asking
<1>8. QED  BY <1>6, <1>7

LEMMA MakeStreamNear ==
  ASSUME ModuleInv, NEW got \in SUBSET Parts, NEW s \in Streams, MakeStream(got, s)
  PROVE  ExtensionNear'
<1>1. /\ InitStream(LZXwindow, got, s, outlen, outlen) /\ UNCHANGED outlen
      /\ step' = (IF handle' THEN "call" ELSE "free") /\ ~handle
  BY DEF MakeStream, InitStream
<1>2. held = Nothing /\ call.pc = "idle" /\ UNCHANGED <<held, call>>
  BY <1>1 DEF ModuleInv, IInv, FreedIsEmpty, InitStream
<1>3. CASE handle'
  <2>1. /\ lzx'.length = outlen /\ lzx'.frame = 0 /\ lzx'.offset = 0
        /\ lzx'.frame_posn = 0 /\ lzx'.window_posn = 0
    BY <1>1, <1>3 DEF InitStream, Fresh
  <2>2. FrameStart' = 0 /\ lzx'.frame * Frame = 0
    BY <1>2, <2>1, Sizes DEF FrameStart, Nothing
  <2>3. Near'
    BY <2>1 DEF Near
  <2>4. InStep'
    BY <2>2, <2>3 DEF InStep, NearNow
  <2>5. call'.pc = "idle" /\ UNCHANGED outlen
    BY <1>1, <1>2
  <2>6. QED  BY <2>1, <2>4, <2>5 DEF ExtensionNear
<1>4. CASE ~handle'
  BY <1>4 DEF ExtensionNear, Asking
<1>5. QED  BY <1>3, <1>4

LEMMA ExtensionNearSteps ==
  ASSUME ModuleInv, Bounds, ExtensionNear, [ModuleNext]_allvars
  PROVE  ExtensionNear'
<1>1. CASE caller = "program" /\ UNCHANGED modvars
  BY <1>1 DEF ExtensionNear, Asking, ModuleInv, CallerInv, modvars
<1>2. CASE Within /\ UNCHANGED modvars /\ step = "calling"
  BY <1>2, WithinNear DEF ModuleInv, CallerInv
<1>3. CASE Within /\ UNCHANGED modvars /\ step # "calling"
  <2>1. call.pc # "idle"
    BY <1>3
    DEF Within, StartFrame, Blocks, OpenBlock, InBlocks, Runs, Run, EndFrame, FinishCall, BadInput
  <2>2. step' # "calling" /\ step' # "call"
    BY <1>3, <2>1 DEF ModuleInv, CallerInv, modvars
  <2>3. QED  BY <2>2 DEF ExtensionNear, Asking
<1>4. CASE Made
  BY <1>4, MakeStreamNear DEF Made
<1>5. CASE Start
  BY <1>5, StartNear
<1>6. CASE UNCHANGED allvars
  BY <1>6
  DEF allvars, vars, modvars, ExtensionNear, Asking, InStep, NearNow, Near, Ahead, FrameStart
<1>7. CASE \/ \E valid \in BOOLEAN : SetWindow(valid)
           \/ \E n \in OutLengths, memory \in BOOLEAN : Enter(n, memory)
           \/ Answered \/ Dispose \/ Return
  <2>1. step' \notin {"call", "calling"}
    BY <1>7 DEF SetWindow, Enter, Answered, Dispose, Return
  <2>2. QED  BY <2>1 DEF ExtensionNear, Asking
<1>8. QED
  BY <1>1, <1>2, <1>3, <1>4, <1>5, <1>6, <1>7 DEF ModuleNext, Inside

LEMMA ProgramNearSteps ==
  ASSUME ModuleInv, Bounds, caller = "program", ProgramLength, NearNow, [ModuleNext]_allvars
  PROVE  ProgramLength' /\ NearNow' /\ (StartFrame => Near)
<1>1. step = "out" /\ IInv /\ StreamStep
  BY ModuleSteps DEF ModuleInv, CallerInv
<1>2. NearNow'
  BY <1>1, StepNear DEF ProgramLength
<1>3. StartFrame => Near
  <2>1. StartFrame => handle /\ ~lzx.error /\ call.pc = "frame"
    BY <1>1 DEF StartFrame, IInv, CallInv
  <2>2. QED  BY <2>1 DEF NearNow
<1>4. [Next]_vars
  BY <1>1
  DEF ModuleNext, Inside, SetWindow, Enter, Made, MakeStream, Start, Answered, Dispose, Return,
      Next, allvars
<1>5. ProgramLength'
  BY <1>1, <1>4, NextSoundSteps
<1>6. QED  BY <1>2, <1>3, <1>5

LEMMA CallerNearSteps ==
  ASSUME ModuleInv, CallerNear, [ModuleNext]_allvars PROVE CallerNear'
<1>1. IInv /\ StreamStep /\ UNCHANGED caller
  BY ModuleSteps
  DEF ModuleInv, ModuleNext, Inside, SetWindow, Enter, Made, MakeStream, Start, Answered, Dispose,
      Return, allvars, modvars
<1>2. ExtensionNear'
  BY ExtensionNearSteps DEF CallerNear
<1>3. caller = "program" => ProgramLength' /\ NearNow' /\ (StartFrame => Near)
  BY ProgramNearSteps DEF CallerNear
<1>4. ASSUME caller # "program", StartFrame PROVE Near
  <2>1. caller = "extension" /\ call.pc = "frame"
    BY <1>4 DEF StartFrame, ModuleInv, CallerInv
  <2>2. step = "calling" /\ handle /\ ~lzx.error /\ lzx.frame < call.end
    BY <1>4, <2>1 DEF ModuleInv, CallerInv, IInv, CallInv, StartFrame
  <2>3. lzx.frame \in Nat /\ call.end \in Int
    BY <1>1, Numbers DEF IInv
  <2>4. InStep
    BY <2>1, <2>2, <2>3 DEF CallerNear, ExtensionNear, Asking
  <2>5. QED  BY <2>1, <2>2, <2>4 DEF InStep, NearNow
<1>5. Bounds'
  BY <1>1, <1>3, <1>4, StepBounds DEF CallerNear
<1>6. QED  BY <1>1, <1>2, <1>3, <1>5 DEF CallerNear

LEMMA CallerNearInit == ModuleInit => CallerNear
<1> SUFFICES ASSUME ModuleInit PROVE CallerNear
  OBVIOUS
<1>1. Bounds
  BY InitBounds DEF ModuleInit
<1>2. ~handle /\ step = "out"
  BY DEF ModuleInit, Init
<1>3. QED  BY <1>1, <1>2 DEF CallerNear, ProgramLength, NearNow, ExtensionNear, Asking

(* The stream, alone and under the extension module, stays in its types:   *)
(* the window positions inside the window, what is held and what is wanted *)
(* inside a frame, the frame at a multiple of its size.                    *)
THEOREM ModuleTypesCorrect == ModuleSpec => []ModuleTypeOK
<1>1. ModuleInv /\ CallerNear => ModuleTypeOK
  BY BoundsTypes DEF ModuleInv, CallerInv, CallerNear, ModuleTypeOK
<1>2. QED  BY ModuleInvariant, CallerNearInit, CallerNearSteps, <1>1, PTL DEF ModuleSpec

(* A program that calls the functions of lzxd.h itself meets the same.     *)
THEOREM StreamTypesCorrect == Spec => []TypeOK
<1>1. Init => Bounds /\ ProgramLength /\ NearNow
  BY InitBounds DEF Init, ProgramLength, NearNow
<1>2. IInv /\ Bounds /\ ProgramLength /\ NearNow /\ [Next]_vars
      => Bounds' /\ ProgramLength' /\ NearNow'
  <2>1. SUFFICES ASSUME IInv, Bounds, ProgramLength, NearNow, [Next]_vars
                 PROVE  Bounds' /\ ProgramLength' /\ NearNow'
    OBVIOUS
  <2>2. StreamStep
    BY <2>1, NextSteps
  <2>3. StartFrame => Near
    <3>1. StartFrame => handle /\ ~lzx.error /\ call.pc = "frame"
      BY <2>1 DEF StartFrame, IInv, CallInv
    <3>2. QED  BY <2>1, <3>1 DEF NearNow
  <2>4. NearNow'
    BY <2>1, <2>2, StepNear DEF ProgramLength
  <2>5. QED  BY <2>1, <2>2, <2>3, <2>4, StepBounds, NextSoundSteps
<1>3. QED
  BY StreamInvariant, <1>1, <1>2, BoundsTypes, PTL DEF Spec

-----------------------------------------------------------------------------
(***************************************************************************)
(* Inside the frames, where LzxStream leaves the bytes open: both windows  *)
(* hold the plain bytes and both decoders put out the same bytes, for      *)
(* every length of frame and window, every literal, length and distance,   *)
(* and every size of an operand.                                           *)
(***************************************************************************)
N == WindowLength
Windows == [1..N -> Int]

(* Where byte number i stands in a window, and a window with what is not   *)
(* yet written over of t.                                                  *)
Place(i) == ((i - 1) % N) + 1
Holds(w, t) == \A i \in 1..Len(t) : i > Len(t) - N => w[Place(i)] = t[i]

(* e[n] is t and n bytes of a match.                                       *)
Continues(e, t, off, len) ==
  /\ e[0] = t
  /\ \A n \in 1..len : e[n] = Append(e[n - 1], e[n - 1][Len(e[n - 1]) + 1 - off])

(* g[n] is w when n bytes are copied from[k] to at[k].                     *)
Fills(g, w, at, from, len) ==
  /\ g[0] = w
  /\ \A n \in 1..len : g[n] = [g[n - 1] EXCEPT ![at[n]] = g[n - 1][from[n]]]

-----------------------------------------------------------------------------
(* What every step keeps. Bytes that are put out have counted for curpos;  *)
(* posn is the place behind the last byte, or the end of the window; the   *)
(* output of lzx.py is what went to write(), then the frame, not yet       *)
(* translated.                                                             *)
Finished == IF Produced < total THEN Produced ELSE total

Cursor ==
  /\ total \in Nat \ {0} /\ filesize \in 0..(Base - 1) /\ frame \in Nat
  /\ plain \in Seq(Int) /\ Len(plain) >= Finished /\ Len(plain) <= total
  /\ Len(plain) <= Produced + FrameLength
  /\ posn \in Nat /\ (Produced < total => posn = (Produced % N) + (Len(plain) - Produced))
  /\ curpos \in Nat /\ (filesize # 0 => curpos = Finished)

WindowsHold ==
  cwin \in Windows /\ Holds(cwin, plain) /\ pwin \in Windows /\ Holds(pwin, plain)

Comparable == frame <= LastE8Frame /\ 2 * filesize < Base

OutputsAgree ==
  /\ out \in Seq(Int) /\ Len(out) = Len(plain)
  /\ written \in Seq(Int) /\ Len(written) = Finished
  /\ written = SubSeq(out, 1, Finished)
  /\ \A i \in (Finished + 1)..Len(plain) : out[i] = plain[i]

FramesInv == ~early => Cursor /\ WindowsHold /\ (Comparable => OutputsAgree)

-----------------------------------------------------------------------------
(* Places in a window: remainders.                                         *)
LEMMA ModFacts ==
  ASSUME NEW n \in Nat \ {0}, NEW x \in Int
  PROVE  /\ x % n \in 0..(n - 1)
         /\ \E c \in Int : x = n * c + (x % n)
<1>1. x % n \in 0..(n - 1) /\ x = n * (x \div n) + (x % n) /\ x \div n \in Int
  OBVIOUS
<1>2. QED  BY <1>1

LEMMA ModUnique ==
  ASSUME NEW n \in Nat \ {0}, NEW x \in Int, NEW c \in Int, NEW r \in 0..(n - 1), x = n * c + r
  PROVE  x % n = r
<1>1. PICK m \in 0..(n - 1) : m = x % n
  BY ModFacts
<1>2. PICK d \in Int : x = n * d + m
  BY <1>1, ModFacts
<1>3. PICK k \in Int : k = d - c
  OBVIOUS
<1>4. n * k = r - m
  <2>1. n * k = n * d - n * c
    BY <1>3
  <2>2. n * d \in Int /\ n * c \in Int /\ n * k \in Int
    OBVIOUS
  <2>3. QED  BY <1>2, <2>1, <2>2
<1>5. k = 0
  <2>1. k >= 1 => n * k >= n
    OBVIOUS
  <2>2. k <= -1 => n * k <= -n
    OBVIOUS
  <2>3. n * k \in Int
    OBVIOUS
  <2>4. QED  BY <1>4, <2>1, <2>2, <2>3
<1>6. QED  BY <1>1, <1>4, <1>5

LEMMA ModPlus ==
  ASSUME NEW n \in Nat \ {0}, NEW x \in Int, NEW k \in Int, (x % n) + k \in 0..(n - 1)
  PROVE  (x + k) % n = (x % n) + k
<1>1. PICK m \in 0..(n - 1) : m = x % n
  BY ModFacts
<1>2. PICK c \in Int : x = n * c + m
  BY <1>1, ModFacts
<1>3. PICK y \in Int : y = x + k
  OBVIOUS
<1>4. PICK r \in 0..(n - 1) : r = m + k
  BY <1>1
<1>5. y = n * c + r
  <2>1. n * c \in Int
    OBVIOUS
  <2>2. QED  BY <1>2, <1>3, <1>4, <2>1
<1>6. y % n = r
  BY <1>5, ModUnique
<1>7. QED  BY <1>1, <1>3, <1>4, <1>6

LEMMA ModSame ==
  ASSUME NEW n \in Nat \ {0}, NEW x \in Int, NEW y \in Int, NEW k \in Int, x % n = y % n
  PROVE  (x + k) % n = (y + k) % n
<1>1. PICK m \in 0..(n - 1) : m = x % n
  BY ModFacts
<1>2. PICK c \in Int : x = n * c + m
  BY <1>1, ModFacts
<1>3. PICK d \in Int : y = n * d + m
  BY <1>1, ModFacts
<1>4. PICK z \in Int : z = y + k
  OBVIOUS
<1>5. PICK r \in 0..(n - 1) : r = z % n
  BY ModFacts
<1>6. PICK e \in Int : z = n * e + r
  BY <1>5, ModFacts
<1>7. PICK f \in Int : f = e + c - d
  OBVIOUS
<1>8. PICK v \in Int : v = x + k
  OBVIOUS
<1>9. v = n * f + r
  <2>1. n * f = n * e + n * c - n * d
    BY <1>7
  <2>2. n * e \in Int /\ n * c \in Int /\ n * d \in Int
    OBVIOUS
  <2>3. QED  BY <1>2, <1>3, <1>4, <1>6, <1>8, <2>1, <2>2
<1>10. v % n = r
  BY <1>9, ModUnique
<1>11. QED  BY <1>4, <1>5, <1>8, <1>10

(* Numbers closer than n have different places.                            *)
LEMMA ModDiffers ==
  ASSUME NEW n \in Nat \ {0}, NEW x \in Int, NEW y \in Int, x < y, y < x + n
  PROVE  x % n # y % n
<1> SUFFICES ASSUME x % n = y % n PROVE FALSE
  OBVIOUS
<1>1. PICK m \in 0..(n - 1) : m = x % n
  BY ModFacts
<1>2. PICK c \in Int : x = n * c + m
  BY <1>1, ModFacts
<1>3. PICK d \in Int : y = n * d + m
  BY <1>1, ModFacts
<1>4. PICK k \in Int : k = d - c
  OBVIOUS
<1>5. n * k = y - x
  <2>1. n * k = n * d - n * c
    BY <1>4
  <2>2. n * d \in Int /\ n * c \in Int
    OBVIOUS
  <2>3. QED  BY <1>2, <1>3, <2>1, <2>2
<1>6. n * k > 0 /\ n * k < n
  BY <1>5
<1>7. k >= 1 => n * k >= n
  OBVIOUS
<1>8. k <= 0 => n * k <= 0
  OBVIOUS
<1>9. n * k \in Int
  OBVIOUS
<1>10. QED  BY <1>6, <1>7, <1>8, <1>9

(* A frame that begins in the window ends in it.                           *)
LEMMA FrameFits ==
  ASSUME NEW n \in Nat \ {0}, NEW f \in Nat \ {0}, n % f = 0, NEW k \in Nat
  PROVE  ((k * f) % n) + f <= n
<1>1. PICK q \in Int : n = f * q
  <2>1. \E q \in Int : n = f * q + (n % f)
    BY ONLY f \in Nat \ {0}, n \in Int, ModFacts
  <2>2. PICK q \in Int : n = f * q + (n % f)
    BY <2>1
  <2>3. f * q \in Int
    OBVIOUS
  <2>4. QED  BY <2>2, <2>3
<1>2. q \in Nat \ {0}
  <2>1. q <= 0 => f * q <= 0
    OBVIOUS
  <2>2. QED  BY <1>1, <2>1
<1>3. PICK r \in 0..(q - 1) : r = k % q
  BY <1>2, ModFacts
<1>4. PICK a \in Int : k = q * a + r
  <2>1. \E a \in Int : k = q * a + (k % q)
    BY ONLY <1>2, k \in Int, ModFacts
  <2>2. QED  BY <1>3, <2>1
<1>5. PICK x \in Int : x = k * f
  OBVIOUS
<1>6. PICK y \in Int : y = r * f
  OBVIOUS
<1>7. x = n * a + y
  <2>1. x = (q * a + r) * f
    BY <1>4, <1>5
  <2>2. (q * a + r) * f = (f * q) * a + r * f
    OBVIOUS
  <2>3. QED  BY <1>1, <1>6, <2>1, <2>2
<1>8. y >= 0 /\ y + f <= n
  <2>1. y >= 0
    BY <1>6
  <2>2. PICK s \in Nat : s = q - 1 - r
    BY <1>2
  <2>3. f * s >= 0 /\ f * s \in Int
    OBVIOUS
  <2>4. n = y + f + f * s
    <3>1. q = r + 1 + s
      BY <1>2, <2>2
    <3>2. f * (r + 1 + s) = r * f + f + f * s
      OBVIOUS
    <3>3. QED  BY <1>1, <1>6, <3>1, <3>2
  <2>5. QED  BY <2>1, <2>3, <2>4
<1>9. y \in 0..(n - 1)
  BY <1>8
<1>10. x % n = y
  BY <1>7, <1>9, ModUnique
<1>11. QED  BY <1>5, <1>8, <1>10

-----------------------------------------------------------------------------
(* One byte in a window.                                                   *)
LEMMA WindowSizes ==
  /\ N \in Nat \ {0} /\ FrameLength \in Nat \ {0} /\ N % FrameLength = 0
BY FramesAssumption DEF N

LEMMA Places ==
  /\ \A i \in Int : Place(i) \in 1..N
  /\ \A i, j \in Int : i < j /\ j < i + N => Place(i) # Place(j)
<1>1. ASSUME NEW i \in Int PROVE Place(i) \in 1..N
  <2>1. PICK x \in Int : x = i - 1
    OBVIOUS
  <2>2. PICK m : m = x % N
    OBVIOUS
  <2>3. m \in 0..(N - 1)
    BY <2>2, WindowSizes, ModFacts
  <2>4. Place(i) = m + 1
    BY <2>1, <2>2 DEF Place
  <2>5. QED  BY <2>3, <2>4, WindowSizes
<1>2. ASSUME NEW i \in Int, NEW j \in Int, i < j, j < i + N PROVE Place(i) # Place(j)
  <2>1. PICK x \in Int : x = i - 1
    OBVIOUS
  <2>2. PICK y \in Int : y = j - 1
    OBVIOUS
  <2>3. x < y /\ y < x + N
    BY <1>2, <2>1, <2>2, WindowSizes
  <2>4. x % N # y % N
    BY <2>3, WindowSizes, ModDiffers
  <2>5. x % N \in Int /\ y % N \in Int
    BY WindowSizes, ModFacts
  <2>6. PICK a \in Int : a = x % N
    BY <2>5
  <2>7. PICK b \in Int : b = y % N
    BY <2>5
  <2>8. Place(i) = a + 1 /\ Place(j) = b + 1 /\ a # b
    BY <2>1, <2>2, <2>4, <2>6, <2>7 DEF Place
  <2>9. QED  BY <2>8
<1>3. QED  BY <1>1, <1>2

LEMMA AppendInts ==
  ASSUME NEW t \in Seq(Int), NEW b \in Int
  PROVE  /\ Append(t, b) \in Seq(Int) /\ Len(Append(t, b)) = Len(t) + 1
         /\ \A i \in 1..Len(t) : Append(t, b)[i] = t[i]
         /\ Append(t, b)[Len(t) + 1] = b
BY AppendProperties

LEMMA Push ==
  ASSUME NEW w \in Windows, NEW t \in Seq(Int), NEW b \in Int, Holds(w, t)
  PROVE  /\ [w EXCEPT ![Place(Len(t) + 1)] = b] \in Windows
         /\ Holds([w EXCEPT ![Place(Len(t) + 1)] = b], Append(t, b))
<1>1. PICK v : v = [w EXCEPT ![Place(Len(t) + 1)] = b]
  OBVIOUS
<1>2. PICK u : u = Append(t, b)
  OBVIOUS
<1>3. PICK l : l = Len(t)
  OBVIOUS
<1>4. /\ l \in Nat /\ u \in Seq(Int) /\ Len(u) = l + 1
      /\ \A i \in 1..l : u[i] = t[i]
      /\ u[l + 1] = b
  BY <1>2, <1>3, AppendInts, LenProperties
<1>5. PICK p : p = Place(l + 1)
  OBVIOUS
<1>6. p \in 1..N
  BY <1>4, <1>5, Places
<1>7. v \in Windows /\ v[p] = b /\ \A q \in 1..N : q # p => v[q] = w[q]
  BY <1>1, <1>3, <1>5, <1>6 DEF Windows
<1>8. ASSUME NEW i \in 1..(l + 1), i > l + 1 - N PROVE v[Place(i)] = u[i]
  <2>1. CASE i = l + 1
    BY <1>4, <1>5, <1>7, <2>1
  <2>2. CASE i # l + 1
    <3>1. i \in Int /\ i \in 1..l /\ i < l + 1 /\ l + 1 < i + N /\ i > l - N /\ l + 1 \in Int
      BY <1>4, <1>8, <2>2, WindowSizes
    <3>2. Place(i) # p /\ Place(i) \in 1..N
      BY <1>5, <3>1, Places
    <3>3. w[Place(i)] = t[i]
      BY <1>3, <3>1 DEF Holds
    <3>4. QED  BY <1>4, <1>7, <3>1, <3>2, <3>3
  <2>3. QED  BY <2>1, <2>2
<1>9. Holds(v, u)
  <2>1. Len(u) = l + 1
    BY <1>4
  <2>2. ASSUME NEW i \in 1..Len(u), i > Len(u) - N PROVE v[Place(i)] = u[i]
    <3>1. i \in 1..(l + 1) /\ i > l + 1 - N
      BY <1>4, <2>1, <2>2, WindowSizes
    <3>2. QED  BY <1>8, <3>1
  <2>3. QED  BY ONLY <2>2 DEF Holds
<1>10. QED  BY <1>1, <1>2, <1>3, <1>5, <1>7, <1>9

-----------------------------------------------------------------------------
(* What a match adds.                                                      *)
LEMMA ContinuesTyped ==
  ASSUME NEW t \in Seq(Int), NEW off \in 1..Len(t), NEW len \in Nat, NEW e,
         Continues(e, t, off, len)
  PROVE  \A n \in 0..len :
           /\ e[n] \in Seq(Int) /\ Len(e[n]) = Len(t) + n
           /\ \A i \in 1..Len(t) : e[n][i] = t[i]
           /\ \A i \in (Len(t) + 1)..(Len(t) + n) : e[n][i] = e[n][i - off]
<1>0. PICK l \in Nat : l = Len(t)
  BY LenProperties
<1> DEFINE Typed(n) == /\ e[n] \in Seq(Int) /\ Len(e[n]) = l + n
                       /\ \A i \in 1..l : e[n][i] = t[i]
                       /\ \A i \in (l + 1)..(l + n) : e[n][i] = e[n][i - off]
           P == {n \in 0..len : Typed(n)}
<1>1. 0 \in P
  BY <1>0 DEF Continues
<1>2. ASSUME NEW n \in 1..len, n - 1 \in P PROVE n \in P
  <2>1. PICK m : m = n - 1
    OBVIOUS
  <2>2. m \in Nat /\ n = m + 1 /\ Typed(m)
    BY <1>2, <2>1
  <2>3. PICK s : s = e[m]
    OBVIOUS
  <2>4. s \in Seq(Int) /\ Len(s) = l + m
    BY <2>2, <2>3
  <2>5. PICK j : j = l + m + 1 - off
    OBVIOUS
  <2>6. j \in 1..Len(s)
    BY <1>0, <2>2, <2>4, <2>5
  <2>7. PICK b : b = s[j]
    OBVIOUS
  <2>8. b \in Int
    BY <2>4, <2>6, <2>7, ElementOfSeq
  <2>9. e[n] = Append(s, b)
    <3>1. e[n] = Append(e[n - 1], e[n - 1][Len(e[n - 1]) + 1 - off])
      BY <1>2 DEF Continues
    <3>2. Len(s) + 1 - off = j
      BY <1>0, <2>2, <2>4, <2>5
    <3>3. QED  BY <2>1, <2>3, <2>7, <3>1, <3>2
  <2>10. /\ e[n] \in Seq(Int) /\ Len(e[n]) = l + n
         /\ \A i \in 1..(l + m) : e[n][i] = s[i]
         /\ e[n][l + n] = b
    <3>1. l + m + 1 = l + n
      BY <2>2
    <3>2. QED  BY <2>4, <2>8, <2>9, <3>1, AppendInts
  <2>11. \A i \in 1..l : e[n][i] = t[i]
    BY <2>2, <2>3, <2>10
  <2>12. ASSUME NEW i \in (l + 1)..(l + n) PROVE e[n][i] = e[n][i - off]
    <3>1. CASE i = l + n
      <4>1. i - off = j /\ j \in 1..(l + m)
        BY <1>0, <2>2, <2>4, <2>5, <2>6, <3>1
      <4>2. QED  BY <2>7, <2>10, <3>1, <4>1
    <3>2. CASE i # l + n
      <4>1. i \in (l + 1)..(l + m) /\ i \in 1..(l + m) /\ i - off \in 1..(l + m)
        <5>1. i \in Int /\ i >= l + 1 /\ i <= l + n /\ n = m + 1 /\ m \in Nat /\ l \in Nat
          BY <2>2
        <5>2. off \in Int /\ off >= 1 /\ off <= l
          BY <1>0
        <5>3. QED  BY ONLY <3>2, <5>1, <5>2
      <4>2. s[i] = s[i - off]
        BY <2>2, <2>3, <4>1
      <4>3. QED  BY <2>10, <4>1, <4>2
    <3>3. QED  BY <3>1, <3>2
  <2>13. QED  BY <2>10, <2>11, <2>12
<1>3. \A n \in 0..len : n \in P
  <2> HIDE DEF P
  <2>1. QED  BY <1>1, <1>2, BoundedInduction
<1>4. QED  BY <1>0, <1>3

(* A window into which the same bytes are copied, each from the place of   *)
(* the one off bytes before it, holds what the match adds.                 *)
LEMMA FillsHold ==
  ASSUME NEW w \in Windows, NEW t \in Seq(Int), Holds(w, t),
         NEW off \in 1..Len(t), off <= N, NEW len \in Nat,
         NEW e, Continues(e, t, off, len),
         NEW at, NEW from, NEW g, Fills(g, w, at, from, len),
         \A n \in 1..len : at[n] = Place(Len(t) + n) /\ from[n] = Place(Len(t) + n - off)
  PROVE  \A n \in 0..len : g[n] \in Windows /\ Holds(g[n], e[n])
<1> DEFINE Good(n) == g[n] \in Windows /\ Holds(g[n], e[n])
           P == {n \in 0..len : Good(n)}
<1>0. PICK l \in Nat : l = Len(t)
  BY LenProperties
<1>1. 0 \in P
  BY DEF Continues, Fills
<1>2. ASSUME NEW n \in 1..len, n - 1 \in P PROVE n \in P
  <2>1. PICK m : m = n - 1
    OBVIOUS
  <2>2. m \in Nat /\ n = m + 1 /\ m \in 0..len /\ Good(m)
    BY <1>2, <2>1
  <2>3. PICK s : s = e[m]
    OBVIOUS
  <2>4. PICK v : v = g[m]
    OBVIOUS
  <2>5. s \in Seq(Int) /\ Len(s) = l + m
    BY <1>0, <2>2, <2>3, ContinuesTyped
  <2>6. v \in Windows /\ Holds(v, s)
    BY <2>2, <2>3, <2>4
  <2>7. off \in Int /\ off >= 1 /\ off <= l /\ off <= N /\ N \in Nat
    BY <1>0, WindowSizes
  <2>8. PICK j : j = l + n - off
    OBVIOUS
  <2>9. j \in 1..Len(s) /\ j > Len(s) - N /\ Len(s) + 1 - off = j /\ Len(s) + 1 = l + n
    BY ONLY l \in Nat, <2>2, <2>5, <2>7, <2>8
  <2>10. PICK b : b = s[j]
    OBVIOUS
  <2>11. b \in Int /\ v[Place(j)] = b
    <3>1. b \in Int
      BY <2>5, <2>9, <2>10, ElementOfSeq
    <3>2. v[Place(j)] = s[j]
      BY <2>6, <2>9 DEF Holds
    <3>3. QED  BY <2>10, <3>1, <3>2
  <2>12. e[n] = Append(s, b)
    <3>1. e[n] = Append(e[n - 1], e[n - 1][Len(e[n - 1]) + 1 - off])
      BY <1>2 DEF Continues
    <3>2. QED  BY <2>1, <2>3, <2>9, <2>10, <3>1
  <2>13. g[n] = [v EXCEPT ![Place(Len(s) + 1)] = b]
    <3>1. g[n] = [g[n - 1] EXCEPT ![at[n]] = g[n - 1][from[n]]]
      BY <1>2 DEF Fills
    <3>2. at[n] = Place(Len(s) + 1) /\ from[n] = Place(j)
      BY <1>0, <1>2, <2>8, <2>9
    <3>3. QED  BY <2>1, <2>4, <2>11, <3>1, <3>2
  <2>14. [v EXCEPT ![Place(Len(s) + 1)] = b] \in Windows
         /\ Holds([v EXCEPT ![Place(Len(s) + 1)] = b], Append(s, b))
    BY <2>5, <2>6, <2>11, Push
  <2>15. Good(n)
    BY <2>12, <2>13, <2>14
  <2>16. n \in 0..len
    BY <2>2
  <2>17. QED  BY <2>15, <2>16
<1>3. \A n \in 0..len : n \in P
  <2> HIDE DEF P
  <2>1. QED  BY <1>1, <1>2, BoundedInduction
<1>4. QED  BY <1>3

-----------------------------------------------------------------------------
(* The recursive functions of the copies are such tables.                  *)
LEMMA FillsExist ==
  ASSUME NEW w \in Windows, NEW len \in Nat, NEW at, NEW from,
         \A n \in 1..len : at[n] \in 1..N /\ from[n] \in 1..N
  PROVE  \E g \in [0..len -> Windows] : Fills(g, w, at, from, len)
<1> DEFINE Put(v, n) == [v EXCEPT ![at[n]] = v[from[n]]]
<1>1. ASSUME NEW n \in 1..len, NEW v \in Windows PROVE Put(v, n) \in Windows
  <2>1. v[from[n]] \in Int
    BY DEF Windows
  <2>2. QED  BY <2>1 DEF Windows
<1>2. PICK stride : stride = [n \in 1..len |-> [v \in Windows |-> Put(v, n)]]
  OBVIOUS
<1>3. Steps(stride, len, Windows)
  <2> HIDE DEF Put
  <2>1. QED  BY <1>1, <1>2 DEF Steps
<1>4. PICK g : IsTable(g, len, Windows, w, stride)
  BY <1>3, IterationExists
<1>5. g \in [0..len -> Windows] /\ g[0] = w /\ \A n \in 1..len : g[n] = stride[n][g[n - 1]]
  BY <1>4 DEF IsTable
<1>6. ASSUME NEW n \in 1..len PROVE g[n] = Put(g[n - 1], n)
  <2>1. n - 1 \in 0..len
    OBVIOUS
  <2>2. g[n - 1] \in Windows
    BY <1>5, <2>1
  <2> HIDE DEF Put
  <2>3. QED  BY <1>2, <1>5, <2>2
<1>7. Fills(g, w, at, from, len)
  BY <1>5, <1>6 DEF Fills
<1>8. QED  BY <1>5, <1>7

LEMMA CCopyFills ==
  ASSUME NEW len \in Nat, NEW off, cwin \in Windows,
         \A n \in 1..len : posn + n \in 1..N /\ CSource(n - 1, off) + 1 \in 1..N
  PROVE  \E g : /\ CCopy(len, off) = g[len]
                /\ Fills(g, cwin, [n \in 1..len |-> posn + n],
                         [n \in 1..len |-> CSource(n - 1, off) + 1], len)
<1>1. PICK at : at = [n \in 1..len |-> posn + n]
  OBVIOUS
<1>2. PICK from : from = [n \in 1..len |-> CSource(n - 1, off) + 1]
  OBVIOUS
<1>3. \A n \in 1..len : at[n] = posn + n /\ from[n] = CSource(n - 1, off) + 1
  BY <1>1, <1>2
<1>4. \A n \in 1..len : at[n] \in 1..N /\ from[n] \in 1..N
  BY <1>3
<1>5. PICK f \in [0..len -> Windows] : Fills(f, cwin, at, from, len)
  BY <1>4, FillsExist
<1> DEFINE After(h, i) == IF i = 0 THEN cwin
                          ELSE [h[i - 1] EXCEPT ![posn + i] = h[i - 1][CSource(i - 1, off) + 1]]
<1>6. ASSUME NEW n \in 0..len PROVE f[n] = After(f, n)
  <2>1. CASE n = 0
    BY <1>5, <2>1 DEF Fills
  <2>2. CASE n # 0
    <3>1. n \in 1..len
      BY <2>2
    <3>2. f[n] = [f[n - 1] EXCEPT ![at[n]] = f[n - 1][from[n]]]
      BY <1>5, <3>1 DEF Fills
    <3>3. QED  BY <1>3, <2>2, <3>1, <3>2
  <2>3. QED  BY <2>1, <2>2
<1>7. f = [n \in 0..len |-> After(f, n)]
  <2> HIDE DEF After
  <2>1. QED  BY <1>6
<1>8. PICK g : g = CHOOSE h : h = [i \in 0..len |-> After(h, i)]
  OBVIOUS
<1>9. g = [i \in 0..len |-> After(g, i)]
  <2> HIDE DEF After
  <2>1. QED  BY <1>7, <1>8
<1>10. CCopy(len, off) = g[len]
  BY <1>8 DEF CCopy
<1>11. \A n \in 0..len : g[n] = After(g, n)
  <2> HIDE DEF After
  <2>1. QED  BY <1>9
<1>12. Fills(g, cwin, at, from, len)
  <2>1. 0 \in 0..len /\ \A n \in 1..len : n \in 0..len /\ n # 0
    OBVIOUS
  <2>2. g[0] = cwin
    BY <1>11, <2>1
  <2>3. ASSUME NEW n \in 1..len PROVE g[n] = [g[n - 1] EXCEPT ![at[n]] = g[n - 1][from[n]]]
    <3>1. g[n] = [g[n - 1] EXCEPT ![posn + n] = g[n - 1][CSource(n - 1, off) + 1]]
      BY <1>11, <2>1
    <3>2. QED  BY <1>3, <3>1
  <2>4. QED  BY <2>2, <2>3 DEF Fills
<1>13. QED  BY <1>1, <1>2, <1>10, <1>12

(* Likewise, byte for byte, of lzx.py, where it does not take a slice.     *)
PySource(off) == (posn - off) % WindowLength
PyAt(n) == ((posn + n - 1) % WindowLength) + 1
PyFrom(n, off) == ((PySource(off) + n - 1) % WindowLength) + 1
Slice(len, off) ==
  off >= len /\ PySource(off) + len <= WindowLength /\ posn + len <= WindowLength

LEMMA PyCopyFills ==
  ASSUME NEW len \in Nat, NEW off, pwin \in Windows, ~ Slice(len, off),
         \A n \in 1..len : PyAt(n) \in 1..N /\ PyFrom(n, off) \in 1..N
  PROVE  \E g : /\ PyCopy(len, off) = g[len]
                /\ Fills(g, pwin, [n \in 1..len |-> PyAt(n)],
                         [n \in 1..len |-> PyFrom(n, off)], len)
<1>1. PICK at : at = [n \in 1..len |-> PyAt(n)]
  OBVIOUS
<1>2. PICK from : from = [n \in 1..len |-> PyFrom(n, off)]
  OBVIOUS
<1>3. \A n \in 1..len : at[n] = PyAt(n) /\ from[n] = PyFrom(n, off)
  BY <1>1, <1>2
<1>4. \A n \in 1..len : at[n] \in 1..N /\ from[n] \in 1..N
  BY <1>3
<1>5. PICK f \in [0..len -> Windows] : Fills(f, pwin, at, from, len)
  BY <1>4, FillsExist
<1> DEFINE After(h, i) == IF i = 0 THEN pwin
                          ELSE [h[i - 1] EXCEPT ![PyAt(i)] = h[i - 1][PyFrom(i, off)]]
<1>6. ASSUME NEW n \in 0..len PROVE f[n] = After(f, n)
  <2>1. CASE n = 0
    BY <1>5, <2>1 DEF Fills
  <2>2. CASE n # 0
    <3>1. n \in 1..len
      BY <2>2
    <3>2. f[n] = [f[n - 1] EXCEPT ![at[n]] = f[n - 1][from[n]]]
      BY <1>5, <3>1 DEF Fills
    <3>3. QED  BY <1>3, <2>2, <3>1, <3>2
  <2>3. QED  BY <2>1, <2>2
<1>7. f = [n \in 0..len |-> After(f, n)]
  <2> HIDE DEF After
  <2>1. QED  BY <1>6
<1>8. PICK g : g = CHOOSE h : h = [i \in 0..len |-> After(h, i)]
  OBVIOUS
<1>9. g = [i \in 0..len |-> After(g, i)]
  <2> HIDE DEF After
  <2>1. QED  BY <1>7, <1>8
<1>10. PyCopy(len, off) = g[len]
  BY <1>8 DEF PyCopy, Slice, PySource, PyAt, PyFrom
<1>11. \A n \in 0..len : g[n] = After(g, n)
  <2> HIDE DEF After
  <2>1. QED  BY <1>9
<1>12. Fills(g, pwin, at, from, len)
  <2>1. 0 \in 0..len /\ \A n \in 1..len : n \in 0..len /\ n # 0
    OBVIOUS
  <2>2. g[0] = pwin
    BY <1>11, <2>1
  <2>3. ASSUME NEW n \in 1..len PROVE g[n] = [g[n - 1] EXCEPT ![at[n]] = g[n - 1][from[n]]]
    <3>1. g[n] = [g[n - 1] EXCEPT ![PyAt(n)] = g[n - 1][PyFrom(n, off)]]
      BY <1>11, <2>1
    <3>2. QED  BY <1>3, <3>1
  <2>4. QED  BY <2>2, <2>3 DEF Fills
<1>13. QED  BY <1>1, <1>2, <1>10, <1>12

LEMMA ExtendedContinues ==
  ASSUME plain \in Seq(Int), NEW off \in 1..Len(plain), NEW len \in Nat
  PROVE  \E e : Extended(len, off) = e[len] /\ Continues(e, plain, off, len)
<1> DEFINE Next1(t) == Append(t, IF Len(t) < off THEN Unset ELSE t[Len(t) + 1 - off])
           S == {t \in Seq(Int) : Len(t) >= off}
           After(h, i) == IF i = 0 THEN plain ELSE Next1(h[i - 1])
<1>1. ASSUME NEW t \in S PROVE Next1(t) \in S /\ Next1(t) = Append(t, t[Len(t) + 1 - off])
  <2>1. t \in Seq(Int) /\ Len(t) \in Nat /\ Len(t) >= off /\ off \in Nat /\ off >= 1
    BY LenProperties
  <2>2. PICK j : j = Len(t) + 1 - off
    OBVIOUS
  <2>2a. j \in 1..Len(t)
    BY ONLY <2>1, <2>2
  <2>3. PICK b : b = t[j]
    OBVIOUS
  <2>4. b \in Int
    BY <2>2a, <2>1, <2>3, ElementOfSeq
  <2>5. Next1(t) = Append(t, b) /\ ~ (Len(t) < off)
    BY <2>1, <2>2, <2>3
  <2>6. Append(t, b) \in Seq(Int) /\ Len(Append(t, b)) = Len(t) + 1
    BY <2>1, <2>4, AppendInts
  <2>7. Len(Append(t, b)) >= off
    BY <2>1, <2>6
  <2>8. QED  BY <2>2, <2>3, <2>5, <2>6, <2>7
<1>2. plain \in S
  BY LenProperties
<1>3. PICK stride : stride = [n \in 1..len |-> [t \in S |-> Next1(t)]]
  OBVIOUS
<1>4. Steps(stride, len, S)
  <2> HIDE DEF Next1, S
  <2>1. QED  BY <1>1, <1>3 DEF Steps
<1>5. PICK f \in [0..len -> S] : f[0] = plain /\ \A n \in 1..len : f[n] = stride[n][f[n - 1]]
  <2> HIDE DEF S
  <2>1. PICK f : IsTable(f, len, S, plain, stride)
    BY <1>2, <1>4, IterationExists
  <2>2. QED  BY <2>1 DEF IsTable
<1>6. ASSUME NEW n \in 0..len PROVE f[n] = After(f, n) /\ f[n] \in S
  <2>1. CASE n = 0
    BY <1>5, <2>1
  <2>2. CASE n # 0
    <3>1. n \in 1..len /\ n - 1 \in 0..len
      BY <2>2
    <3>2. f[n - 1] \in S /\ f[n] \in S
      BY <1>5, <3>1
    <3>3. f[n] = stride[n][f[n - 1]]
      BY <1>5, <3>1
    <3>4. QED
      <4> HIDE DEF Next1, S
      <4>1. QED  BY <1>3, <2>2, <3>1, <3>2, <3>3
  <2>3. QED  BY <2>1, <2>2
<1>7. f = [n \in 0..len |-> After(f, n)]
  <2> HIDE DEF After, S
  <2>1. QED  BY <1>5, <1>6
<1>8. PICK e : e = CHOOSE h : h = [n \in 0..len |-> After(h, n)]
  OBVIOUS
<1>9. e = [n \in 0..len |-> After(e, n)]
  <2> HIDE DEF After
  <2>1. QED  BY <1>7, <1>8
<1>10. Extended(len, off) = e[len]
  BY <1>8 DEF Extended
<1>11. \A n \in 0..len : e[n] = After(e, n)
  <2> HIDE DEF After
  <2>1. QED  BY <1>9
<1>12. 0 \in 0..len /\ \A n \in 1..len : n \in 0..len /\ n # 0 /\ n - 1 \in 0..len
  OBVIOUS
<1>13. e[0] = plain /\ \A n \in 1..len : e[n] = Next1(e[n - 1])
  <2> HIDE DEF Next1
  <2>1. QED  BY <1>11, <1>12
<1> DEFINE P == {n \in 0..len : e[n] \in S}
<1>14. 0 \in P
  BY <1>2, <1>12, <1>13
<1>15. ASSUME NEW n \in 1..len, n - 1 \in P PROVE n \in P
  <2> HIDE DEF Next1, S
  <2>1. QED  BY <1>1, <1>12, <1>13, <1>15
<1>16. \A n \in 0..len : n \in P
  <2> HIDE DEF P
  <2>1. QED  BY <1>14, <1>15, BoundedInduction
<1>17. ASSUME NEW n \in 1..len
       PROVE  e[n] = Append(e[n - 1], e[n - 1][Len(e[n - 1]) + 1 - off])
  <2>1. e[n - 1] \in S
    BY <1>12, <1>16
  <2> HIDE DEF Next1, S
  <2>2. QED  BY <1>1, <1>13, <2>1
<1>18. Continues(e, plain, off, len)
  BY <1>13, <1>17 DEF Continues
<1>19. QED  BY <1>10, <1>18

-----------------------------------------------------------------------------
(* A match within the frame: where its bytes stand in the window.          *)
MatchFits(len, off) ==
  /\ plain \in Seq(Int) /\ posn \in 0..(N - 1) /\ Len(plain) % N = posn
  /\ off \in 1..Len(plain) /\ off <= N /\ len \in Nat /\ posn + len <= N

LEMMA FitsTypes ==
  ASSUME NEW len, NEW off, MatchFits(len, off)
  PROVE  /\ plain \in Seq(Int) /\ Len(plain) \in Nat /\ off \in Nat \ {0} /\ off <= Len(plain)
         /\ off <= N /\ len \in Nat /\ posn \in Nat /\ posn < N /\ posn + len <= N
         /\ N \in Nat \ {0}
<1>1. Len(plain) \in Nat
  BY LenProperties DEF MatchFits
<1>2. QED  BY <1>1, WindowSizes DEF MatchFits

(* posn goes on at the place of the next byte, without a wrap, ...          *)
LEMMA CursorPlaces ==
  ASSUME NEW len, NEW off, MatchFits(len, off), NEW n \in 1..len
  PROVE  /\ posn + n = Place(Len(plain) + n) /\ posn + n \in 1..N
         /\ PyAt(n) = Place(Len(plain) + n)
<1>1. PICK l \in Nat : l = Len(plain)
  BY FitsTypes
<1>2. /\ len \in Nat /\ posn \in Nat /\ posn < N /\ posn + len <= N /\ N \in Nat \ {0}
  BY FitsTypes
<1>3. l % N = posn
  BY <1>1 DEF MatchFits
<1>4. PICK k \in Nat : k = n - 1
  BY <1>2
<1>5. posn + k \in 0..(N - 1)
  BY <1>2, <1>4
<1>6. (l + k) % N = posn + k
  BY <1>2, <1>3, <1>5, ModPlus
<1>7. (posn + k) % N = posn + k
  <2>1. posn + k = N * 0 + (posn + k)
    BY <1>2, <1>5
  <2>2. QED  BY <1>2, <1>5, <2>1, ModUnique
<1>8. l + n - 1 = l + k /\ posn + n - 1 = posn + k /\ (posn + k) + 1 = posn + n
  BY <1>2, <1>4
<1>9. Place(l + n) = posn + n
  BY <1>6, <1>8 DEF Place
<1>10. PyAt(n) = posn + n
  BY <1>7, <1>8 DEF PyAt, N
<1>11. posn + n \in 1..N
  BY <1>2
<1>12. QED  BY <1>1, <1>9, <1>10, <1>11

(* ... and both ways to count the source lead to the byte off bytes before. *)
LEMMA SourcePlaces ==
  ASSUME NEW len, NEW off, MatchFits(len, off), NEW n \in 1..len
  PROVE  /\ CSource(n - 1, off) + 1 = Place(Len(plain) + n - off)
         /\ PyFrom(n, off) = Place(Len(plain) + n - off)
<1>1. PICK l \in Nat : l = Len(plain)
  BY FitsTypes
<1>2. /\ len \in Nat /\ posn \in Nat /\ posn < N /\ posn + len <= N /\ N \in Nat \ {0}
      /\ off \in Nat \ {0} /\ off <= l /\ off <= N
  BY <1>1, FitsTypes
<1>3. l % N = posn
  BY <1>1 DEF MatchFits
<1>4. PICK k \in Nat : k = n - 1
  BY <1>2
<1>5. k < len
  BY <1>2, <1>4
<1>6. PICK p \in Int : p = posn
  BY <1>2
<1>7. PICK x \in Int : x = p - off + k
  BY <1>2
<1>8. x % N = CSource(k, off)
  <2>1. CASE ~ (off > p)
    <3>1. CSource(k, off) = x
      BY <1>2, <1>6, <1>7, <2>1 DEF CSource
    <3>2. x \in 0..(N - 1) /\ x = N * 0 + x
      BY <1>2, <1>4, <1>5, <1>6, <1>7, <2>1
    <3>3. QED  BY <1>2, <3>1, <3>2, ModUnique
  <2>2. CASE off > p /\ k < off - p
    <3>1. PICK r \in Int : r = N - (off - p) + k
      BY <1>2
    <3>2. CSource(k, off) = r
      BY <1>2, <1>6, <2>2, <3>1 DEF CSource, N
    <3>3. r \in 0..(N - 1) /\ x = N * (-1) + r
      BY <1>2, <1>4, <1>5, <1>6, <1>7, <2>2, <3>1
    <3>4. QED  BY <1>2, <3>2, <3>3, ModUnique
  <2>3. CASE off > p /\ ~ (k < off - p)
    <3>1. CSource(k, off) = k - (off - p)
      BY <1>2, <1>6, <2>3 DEF CSource
    <3>2. x = k - (off - p)
      BY <1>2, <1>7
    <3>3. x \in 0..(N - 1) /\ x = N * 0 + x
      BY <1>2, <1>4, <1>5, <1>6, <1>7, <2>3
    <3>4. QED  BY <1>2, <3>1, <3>2, <3>3, ModUnique
  <2>4. QED  BY <2>1, <2>2, <2>3
<1>9. PICK d \in Int : d = k - off
  BY <1>2
<1>10. (l + d) % N = (p + d) % N
  <2>1. l % N = p % N
    <3>1. p = N * 0 + p /\ p \in 0..(N - 1)
      BY <1>2, <1>6
    <3>2. p % N = p
      BY <1>2, <3>1, ModUnique
    <3>3. QED  BY <1>3, <1>6, <3>2
  <2>2. N \in Nat \ {0} /\ l \in Int /\ p \in Int /\ d \in Int
    BY <1>2
  <2>3. QED  BY ONLY <2>1, <2>2, ModSame
<1>11. l + n - off - 1 = l + d /\ p + d = x
  BY <1>2, <1>4, <1>7, <1>9
<1>12. Place(l + n - off) = (x % N) + 1
  <2>1. PICK z : z = l + n - off
    OBVIOUS
  <2>2. z - 1 = l + d
    BY <1>2, <1>11, <2>1
  <2>3. Place(z) = ((l + d) % N) + 1
    BY <2>2 DEF Place
  <2>4. QED  BY <1>10, <1>11, <2>1, <2>3
<1>13. PyFrom(n, off) = (x % N) + 1
  <2>1. PICK y \in Int : y = p - off
    BY <1>2
  <2>2. PICK s \in 0..(N - 1) : s = y % N
    BY <1>2, ModFacts
  <2>3. s % N = y % N
    <3>1. s = N * 0 + s
      BY <1>2
    <3>2. s % N = s
      BY <1>2, <3>1, ModUnique
    <3>3. QED  BY <2>2, <3>2
  <2>4. (s + k) % N = (y + k) % N
    <3>1. N \in Nat \ {0} /\ s \in Int /\ y \in Int /\ k \in Int
      BY <1>2
    <3>2. QED  BY ONLY <2>3, <3>1, ModSame
  <2>5. PySource(off) = s
    BY <1>6, <2>1, <2>2 DEF PySource, N
  <2>6. y + k = x /\ s + n - 1 = s + k
    BY <1>2, <1>4, <1>7, <2>1
  <2>7. QED  BY <2>4, <2>5, <2>6 DEF PyFrom, N
<1>14. CSource(n - 1, off) = x % N
  BY <1>4, <1>8
<1>15. QED  BY <1>1, <1>12, <1>13, <1>14

(* So each copy makes the window hold the bytes of the match.              *)
LEMMA CCopyHolds ==
  ASSUME NEW len, NEW off, MatchFits(len, off), cwin \in Windows, Holds(cwin, plain)
  PROVE  CCopy(len, off) \in Windows /\ Holds(CCopy(len, off), Extended(len, off))
<1>1. /\ plain \in Seq(Int) /\ off \in 1..Len(plain) /\ off <= N /\ len \in Nat
  BY DEF MatchFits
<1>2. PICK e : Extended(len, off) = e[len] /\ Continues(e, plain, off, len)
  BY <1>1, ExtendedContinues
<1>3. PICK at : at = [n \in 1..len |-> posn + n]
  OBVIOUS
<1>4. PICK from : from = [n \in 1..len |-> CSource(n - 1, off) + 1]
  OBVIOUS
<1>5. ASSUME NEW n \in 1..len
      PROVE  /\ posn + n = Place(Len(plain) + n)
             /\ CSource(n - 1, off) + 1 = Place(Len(plain) + n - off)
             /\ posn + n \in 1..N /\ CSource(n - 1, off) + 1 \in 1..N
  <2>1. /\ posn + n = Place(Len(plain) + n) /\ posn + n \in 1..N
        /\ CSource(n - 1, off) + 1 = Place(Len(plain) + n - off)
    BY CursorPlaces, SourcePlaces
  <2>2. Len(plain) + n - off \in Int
    BY FitsTypes
  <2>3. QED  BY <2>1, <2>2, Places
<1>6. PICK g : CCopy(len, off) = g[len] /\ Fills(g, cwin, at, from, len)
  BY <1>1, <1>3, <1>4, <1>5, CCopyFills
<1>7. \A n \in 1..len : at[n] = Place(Len(plain) + n) /\ from[n] = Place(Len(plain) + n - off)
  BY <1>3, <1>4, <1>5
<1>8. \A n \in 0..len : g[n] \in Windows /\ Holds(g[n], e[n])
  BY <1>1, <1>2, <1>6, <1>7, FillsHold
<1>9. len \in 0..len
  BY <1>1
<1>10. QED  BY <1>2, <1>6, <1>8, <1>9

LEMMA PyLoopHolds ==
  ASSUME NEW len, NEW off, MatchFits(len, off), pwin \in Windows, Holds(pwin, plain),
         ~ Slice(len, off)
  PROVE  PyCopy(len, off) \in Windows /\ Holds(PyCopy(len, off), Extended(len, off))
<1>1. /\ plain \in Seq(Int) /\ off \in 1..Len(plain) /\ off <= N /\ len \in Nat
  BY DEF MatchFits
<1>2. PICK e : Extended(len, off) = e[len] /\ Continues(e, plain, off, len)
  BY <1>1, ExtendedContinues
<1>3. PICK at : at = [n \in 1..len |-> PyAt(n)]
  OBVIOUS
<1>4. PICK from : from = [n \in 1..len |-> PyFrom(n, off)]
  OBVIOUS
<1>5. ASSUME NEW n \in 1..len
      PROVE  /\ PyAt(n) = Place(Len(plain) + n) /\ PyFrom(n, off) = Place(Len(plain) + n - off)
             /\ PyAt(n) \in 1..N /\ PyFrom(n, off) \in 1..N
  <2>1. PyAt(n) = Place(Len(plain) + n) /\ PyFrom(n, off) = Place(Len(plain) + n - off)
    BY CursorPlaces, SourcePlaces
  <2>2. Len(plain) + n - off \in Int /\ Len(plain) + n \in Int
    BY FitsTypes
  <2>3. QED  BY <2>1, <2>2, Places
<1>6. PICK g : PyCopy(len, off) = g[len] /\ Fills(g, pwin, at, from, len)
  BY <1>1, <1>3, <1>4, <1>5, PyCopyFills
<1>7. \A n \in 1..len : at[n] = Place(Len(plain) + n) /\ from[n] = Place(Len(plain) + n - off)
  BY <1>3, <1>4, <1>5
<1>8. \A n \in 0..len : g[n] \in Windows /\ Holds(g[n], e[n])
  BY <1>1, <1>2, <1>6, <1>7, FillsHold
<1>9. len \in 0..len
  BY <1>1
<1>10. QED  BY <1>2, <1>6, <1>8, <1>9

(* Some bytes of a window.                                                 *)
LEMMA PartOfWindow ==
  ASSUME NEW w \in Windows, NEW b \in Nat, NEW k \in Nat, b + k <= N
  PROVE  /\ SubSeq(w, b + 1, b + k) \in Seq(Int) /\ Len(SubSeq(w, b + 1, b + k)) = k
         /\ \A i \in 1..k : SubSeq(w, b + 1, b + k)[i] = w[b + i]
<1>0. \A i \in 1..N : w[i] \in Int
  BY DEF Windows
<1>1. PICK lo \in Int : lo = b + 1
  OBVIOUS
<1>2. PICK hi \in Int : hi = b + k
  OBVIOUS
<1>3. \A i \in lo..hi : w[i] \in Int
  BY <1>0, <1>1, <1>2, WindowSizes
<1>4. PICK s : s = SubSeq(w, lo, hi)
  OBVIOUS
<1>5. /\ s \in Seq(Int) /\ Len(s) = IF lo <= hi THEN hi - lo + 1 ELSE 0
      /\ \A i \in 1..(hi - lo + 1) : s[i] = w[lo + i - 1]
  BY <1>3, <1>4, SubSeqProperties
<1>6. hi - lo + 1 = k /\ \A i \in 1..k : lo + i - 1 = b + i
  BY <1>1, <1>2
<1>7. Len(s) = k
  BY <1>1, <1>2, <1>5
<1>8. QED  BY <1>1, <1>2, <1>4, <1>5, <1>6, <1>7

(* A slice put over the bytes from a + 1 on.                               *)
Sliced(w, a, b, k) ==
  SubSeq(w, 1, a) \o SubSeq(w, b + 1, b + k) \o SubSeq(w, a + k + 1, N)

LEMMA SliceBytes ==
  ASSUME NEW w \in Windows, NEW a \in Nat, NEW b \in Nat, NEW k \in Nat,
         a + k <= N, b + k <= N
  PROVE  /\ Sliced(w, a, b, k) \in Windows
         /\ \A p \in 1..N : Sliced(w, a, b, k)[p] =
                              IF p > a /\ p <= a + k THEN w[b + (p - a)] ELSE w[p]
<1>a. PICK v : v = Sliced(w, a, b, k)
  OBVIOUS
<1>0. N \in Nat
  BY WindowSizes
<1>1. \A i \in 1..N : w[i] \in Int
  BY DEF Windows
<1>2. PICK s1 : s1 = SubSeq(w, 1, a)
  OBVIOUS
<1>3. s1 \in Seq(Int) /\ Len(s1) = a /\ \A i \in 1..a : s1[i] = w[i]
  <2>1. \A i \in 1..a : w[i] \in Int
    BY <1>0, <1>1
  <2>2. /\ s1 \in Seq(Int) /\ Len(s1) = IF 1 <= a THEN a - 1 + 1 ELSE 0
        /\ \A i \in 1..(a - 1 + 1) : s1[i] = w[1 + i - 1]
    BY <1>2, <2>1, SubSeqProperties
  <2>3. QED  BY <2>2
<1>4. PICK s2 : s2 = SubSeq(w, b + 1, b + k)
  OBVIOUS
<1>5. s2 \in Seq(Int) /\ Len(s2) = k /\ \A i \in 1..k : s2[i] = w[b + i]
  BY <1>4, PartOfWindow
<1>6. PICK s3 : s3 = SubSeq(w, a + k + 1, N)
  OBVIOUS
<1>7. s3 \in Seq(Int) /\ Len(s3) = N - a - k /\ \A i \in 1..(N - a - k) : s3[i] = w[a + k + i]
  <2>1. PICK lo \in Int : lo = a + k + 1
    OBVIOUS
  <2>2. PICK hi \in Int : hi = N
    BY <1>0
  <2>3. \A i \in lo..hi : w[i] \in Int
    BY <1>0, <1>1, <2>1, <2>2
  <2>4. /\ s3 \in Seq(Int) /\ Len(s3) = IF lo <= hi THEN hi - lo + 1 ELSE 0
        /\ \A i \in 1..(hi - lo + 1) : s3[i] = w[lo + i - 1]
    BY <1>6, <2>1, <2>2, <2>3, SubSeqProperties
  <2>5. hi - lo + 1 = N - a - k /\ \A i \in 1..(N - a - k) : lo + i - 1 = a + k + i
    BY <1>0, <2>1, <2>2
  <2>6. Len(s3) = N - a - k
    BY <1>0, <2>1, <2>2, <2>4
  <2>7. QED  BY <2>4, <2>5, <2>6
<1>8. PICK t : t = s1 \o s2
  OBVIOUS
<1>9. /\ t \in Seq(Int) /\ Len(t) = a + k
      /\ \A i \in 1..(a + k) : t[i] = IF i <= a THEN s1[i] ELSE s2[i - a]
  <2>1. s1 \in Seq(Int) /\ s2 \in Seq(Int)
    BY <1>3, <1>5
  <2>2. /\ t \in Seq(Int) /\ Len(t) = Len(s1) + Len(s2)
        /\ \A i \in 1..(Len(s1) + Len(s2)) : t[i] = IF i <= Len(s1) THEN s1[i] ELSE s2[i - Len(s1)]
    BY ONLY <1>8, <2>1, ConcatProperties
  <2>3. Len(s1) = a /\ Len(s2) = k
    BY <1>3, <1>5
  <2>4. QED  BY ONLY <2>2, <2>3
<1>10. v = t \o s3
  BY <1>a, <1>2, <1>4, <1>6, <1>8 DEF Sliced
<1>11. (a + k) + (N - a - k) = N
  BY <1>0
<1>12. /\ v \in Seq(Int) /\ Len(v) = N
       /\ \A i \in 1..N : v[i] = IF i <= a + k THEN t[i] ELSE s3[i - (a + k)]
  <2>1. /\ v \in Seq(Int) /\ Len(v) = Len(t) + Len(s3)
        /\ \A i \in 1..(Len(t) + Len(s3)) : v[i] = IF i <= Len(t) THEN t[i] ELSE s3[i - Len(t)]
    <3>1. t \in Seq(Int) /\ s3 \in Seq(Int)
      BY <1>7, <1>9
    <3>2. QED  BY ONLY <1>10, <3>1, ConcatProperties
  <2>2. Len(t) = a + k /\ Len(t) + Len(s3) = N
    BY <1>7, <1>9, <1>11
  <2>3. QED  BY ONLY <2>1, <2>2
<1>13. v \in Windows
  BY <1>12, LenProperties DEF Windows
<1>14. ASSUME NEW p \in 1..N
       PROVE  v[p] = IF p > a /\ p <= a + k THEN w[b + (p - a)] ELSE w[p]
  <2>1. CASE p <= a
    <3>1. p \in 1..a /\ p \in 1..(a + k) /\ p <= a + k /\ ~ (p > a)
      BY <1>0, <2>1
    <3>2. v[p] = w[p]
      BY <1>3, <1>9, <1>12, <2>1, <3>1
    <3>3. QED  BY <3>1, <3>2
  <2>2. CASE p > a /\ p <= a + k
    <3>1. p \in 1..(a + k) /\ ~ (p <= a) /\ p - a \in 1..k
      BY <1>0, <2>2
    <3>2. v[p] = w[b + (p - a)]
      BY <1>5, <1>9, <1>12, <2>2, <3>1
    <3>3. QED  BY <2>2, <3>2
  <2>3. CASE p > a + k
    <3>1. ~ (p <= a + k) /\ p - (a + k) \in 1..(N - a - k) /\ a + k + (p - (a + k)) = p
      BY <1>0, <2>3
    <3>2. v[p] = s3[p - (a + k)]
      BY <1>12, <3>1
    <3>3. s3[p - (a + k)] = w[p]
      BY <1>7, <3>1
    <3>4. QED  BY <2>3, <3>1, <3>2, <3>3
  <2>4. p <= a \/ (p > a /\ p <= a + k) \/ p > a + k
    BY <1>0
  <2>5. QED  BY <2>1, <2>2, <2>3, <2>4
<1>15. QED  BY <1>a, <1>13, <1>14

LEMMA PySliceHolds ==
  ASSUME NEW len, NEW off, MatchFits(len, off), pwin \in Windows, Holds(pwin, plain),
         Slice(len, off)
  PROVE  PyCopy(len, off) \in Windows /\ Holds(PyCopy(len, off), Extended(len, off))
<1>1. PICK l \in Nat : l = Len(plain)
  BY FitsTypes
<1>2. /\ len \in Nat /\ posn \in Nat /\ posn < N /\ posn + len <= N /\ N \in Nat \ {0}
      /\ off \in Nat \ {0} /\ off <= l /\ off <= N /\ plain \in Seq(Int)
  BY <1>1, FitsTypes
<1>3. PICK s : s = PySource(off)
  OBVIOUS
<1>4. s \in 0..(N - 1)
  <2>1. PICK x \in Int : x = posn - off
    BY <1>2
  <2>2. x % N \in 0..(N - 1)
    BY <1>2, ModFacts
  <2>3. QED  BY <1>3, <2>1, <2>2 DEF PySource, N
<1>5. s \in Nat /\ off >= len /\ s + len <= N
  BY <1>2, <1>3, <1>4 DEF Slice, N
<1>6. PICK v : v = PyCopy(len, off)
  OBVIOUS
<1>7. v = Sliced(pwin, posn, s, len)
  BY <1>3, <1>6 DEF PyCopy, Slice, PySource, N, Sliced
<1>8. /\ v \in Windows
      /\ \A p \in 1..N : v[p] = IF p > posn /\ p <= posn + len THEN pwin[s + (p - posn)] ELSE pwin[p]
  BY <1>2, <1>5, <1>7, SliceBytes
<1>9. PICK e : Extended(len, off) = e[len] /\ Continues(e, plain, off, len)
  BY <1>1, <1>2, ExtendedContinues
<1>10. PICK u : u = e[len]
  OBVIOUS
<1>11. /\ u \in Seq(Int) /\ Len(u) = l + len
       /\ \A i \in 1..l : u[i] = plain[i]
       /\ \A i \in (l + 1)..(l + len) : u[i] = u[i - off]
  <2>1. len \in 0..len /\ off \in 1..Len(plain)
    BY <1>1, <1>2
  <2>2. /\ e[len] \in Seq(Int) /\ Len(e[len]) = Len(plain) + len
        /\ \A i \in 1..Len(plain) : e[len][i] = plain[i]
        /\ \A i \in (Len(plain) + 1)..(Len(plain) + len) : e[len][i] = e[len][i - off]
    BY <1>2, <1>9, <2>1, ContinuesTyped
  <2>3. QED  BY <1>1, <1>10, <2>2
<1>12. ASSUME NEW i \in 1..(l + len), i > l + len - N PROVE v[Place(i)] = u[i]
  <2>1. PICK p : p = Place(i)
    OBVIOUS
  <2>2. p \in 1..N
    BY <2>1, Places
  <2>3. CASE i <= l
    <3>1. i \in 1..l /\ i \in Int /\ i > l - N
      BY ONLY i \in 1..(l + len), l \in Nat, <1>2, <1>12, <2>3
    <3>2. pwin[p] = plain[i]
      BY <1>1, <2>1, <3>1 DEF Holds
    <3>3. ASSUME p > posn, p <= posn + len PROVE FALSE
      <4>1. PICK k : k = p - posn
        OBVIOUS
      <4>2. k \in 1..len /\ posn + k = p
        BY <1>2, <2>2, <3>3, <4>1
      <4>3. posn + k = Place(l + k)
        BY <1>1, <4>2, CursorPlaces
      <4>4. l + k \in Int /\ i < l + k /\ l + k < i + N
        BY <1>2, <1>12, <2>3, <4>2
      <4>5. Place(i) # Place(l + k)
        BY <3>1, <4>4, Places
      <4>6. QED  BY <2>1, <4>2, <4>3, <4>5
    <3>4. v[p] = pwin[p]
      BY <1>8, <2>2, <3>3
    <3>5. QED  BY <1>11, <2>1, <3>1, <3>2, <3>4
  <2>4. CASE ~ (i <= l)
    <3>1. PICK k : k = i - l
      OBVIOUS
    <3>2. k \in 1..len /\ l + k = i
      BY <1>2, <2>4, <3>1
    <3>3. p = posn + k /\ p > posn /\ p <= posn + len /\ p - posn = k
      <4>1. posn + k = Place(l + k)
        BY <1>1, <3>2, CursorPlaces
      <4>2. p = posn + k
        BY <2>1, <3>2, <4>1
      <4>3. QED  BY <1>2, <3>2, <4>2
    <3>4. v[p] = pwin[s + k]
      BY <1>8, <2>2, <3>3
    <3>5. PICK j : j = l + k - off
      OBVIOUS
    <3>6. j \in 1..l /\ j > l - N /\ i - off = j /\ i \in (l + 1)..(l + len)
      BY <1>2, <1>5, <3>2, <3>5
    <3>7. Place(j) = s + k
      <4>1. PyFrom(k, off) = Place(j)
        BY <1>1, <3>2, <3>5, SourcePlaces
      <4>2. PICK x \in Int : x = s + k - 1
        BY <1>4, <3>2
      <4>3. x = N * 0 + x /\ x \in 0..(N - 1)
        BY <1>2, <1>4, <1>5, <3>2, <4>2
      <4>4. x % N = x
        BY <1>2, <4>3, ModUnique
      <4>5. PyFrom(k, off) = x + 1
        BY <1>3, <4>2, <4>4 DEF PyFrom, N
      <4>6. x + 1 = s + k
        BY <1>4, <3>2, <4>2
      <4>7. QED  BY <4>1, <4>5, <4>6
    <3>8. pwin[s + k] = plain[j]
      BY <1>1, <3>6, <3>7 DEF Holds
    <3>9. u[i] = plain[j]
      BY <1>11, <3>6
    <3>10. QED  BY <2>1, <3>4, <3>8, <3>9
  <2>5. QED  BY <2>3, <2>4
<1>13. Holds(v, u)
  <2>1. ASSUME NEW i \in 1..Len(u), i > Len(u) - N PROVE v[Place(i)] = u[i]
    <3>1. i \in 1..(l + len) /\ i > l + len - N
      BY <1>2, <1>11, <2>1
    <3>2. QED  BY <1>12, <3>1
  <2>2. QED  BY <2>1 DEF Holds
<1>14. QED  BY <1>6, <1>8, <1>9, <1>10, <1>13

LEMMA PyCopyHolds ==
  ASSUME NEW len, NEW off, MatchFits(len, off), pwin \in Windows, Holds(pwin, plain)
  PROVE  PyCopy(len, off) \in Windows /\ Holds(PyCopy(len, off), Extended(len, off))
BY PyLoopHolds, PySliceHolds

LEMMA ExtendedTyped ==
  ASSUME NEW len, NEW off, MatchFits(len, off)
  PROVE  /\ Extended(len, off) \in Seq(Int) /\ Len(Extended(len, off)) = Len(plain) + len
         /\ \A i \in 1..Len(plain) : Extended(len, off)[i] = plain[i]
<1>1. len \in Nat /\ plain \in Seq(Int) /\ off \in 1..Len(plain) /\ len \in 0..len
  BY DEF MatchFits
<1>2. PICK e : Extended(len, off) = e[len] /\ Continues(e, plain, off, len)
  BY <1>1, ExtendedContinues
<1>3. QED  BY <1>1, <1>2, ContinuesTyped

-----------------------------------------------------------------------------
(* Translation keeps the number of bytes.                                  *)
LEMMA OperandTyped ==
  ASSUME NEW v \in Int, NEW at \in Int, NEW size \in Int
  PROVE  Operand(v, at, size) \in Int
<1>1. Base \in Nat \ {0}
  BY FramesAssumption
<1>2. Signed(v) \in Int
  BY <1>1 DEF Signed
<1>3. Relative(Signed(v), at, size) \in Int
  BY <1>2 DEF Relative
<1>4. PICK x \in Int : x = Relative(Signed(v), at, size)
  BY <1>3
<1>5. x % Base \in 0..(Base - 1)
  BY <1>1, ModFacts
<1>6. QED  BY <1>1, <1>4, <1>5 DEF Operand

LEMMA TranslatedTyped ==
  ASSUME NEW bytes \in Seq(Int), Len(bytes) > TailLength, NEW from \in Int, NEW size \in Int
  PROVE  /\ Translated(bytes, from, size) \in Seq(Int)
         /\ Len(Translated(bytes, from, size)) = Len(bytes)
<1>1. PICK l \in Nat : l = Len(bytes)
  BY LenProperties
<1>2. TailLength \in Nat /\ TailLength >= 2 /\ l > TailLength
  BY <1>1, FramesAssumption
<1>3. PICK len \in Nat : len = l - TailLength
  BY <1>2
<1> DEFINE Texts == {t \in Seq(Int) : Len(t) = l}
           S == [bytes : Texts, pos : Nat]
           Look(s) == LET operand == s.bytes[s.pos + 2]
                      IN IF s.pos >= Len(bytes) - TailLength THEN s
                         ELSE IF s.bytes[s.pos + 1] # E8 THEN [s EXCEPT !.pos = @ + 1]
                         ELSE [bytes |-> [s.bytes EXCEPT ![s.pos + 2] =
                                            Operand(operand, from + s.pos, size)],
                               pos |-> s.pos + 2]
           a == [bytes |-> bytes, pos |-> 0]
           After(h, i) == IF i = 0 THEN a ELSE Look(h[i - 1])
<1>4. ASSUME NEW s \in S PROVE Look(s) \in S
  <2>1. s.bytes \in Seq(Int) /\ Len(s.bytes) = l /\ s.pos \in Nat
    OBVIOUS
  <2>2. CASE s.pos >= Len(bytes) - TailLength
    <3>1. Look(s) = s
      BY <2>2
    <3> HIDE DEF Look
    <3>2. QED  BY <3>1
  <2>3. CASE ~ (s.pos >= Len(bytes) - TailLength) /\ s.bytes[s.pos + 1] # E8
    <3>1. Look(s) = [s EXCEPT !.pos = @ + 1]
      BY <2>3
    <3>2. s.pos + 1 \in Nat
      BY <2>1
    <3>3. [s EXCEPT !.pos = @ + 1] \in S
      BY <2>1, <3>2
    <3> HIDE DEF Look
    <3>4. QED  BY <3>1, <3>3
  <2>4. CASE ~ (s.pos >= Len(bytes) - TailLength) /\ ~ (s.bytes[s.pos + 1] # E8)
    <3>1. PICK p \in Nat : p = s.pos
      BY <2>1
    <3>2. PICK v : v = s.bytes[p + 2]
      OBVIOUS
    <3>3. PICK o : o = Operand(v, from + p, size)
      OBVIOUS
    <3>4. PICK t : t = [s.bytes EXCEPT ![p + 2] = o]
      OBVIOUS
    <3>5. Look(s) = [bytes |-> t, pos |-> p + 2]
      BY <2>4, <3>1, <3>2, <3>3, <3>4
    <3>6. p + 2 \in 1..Len(s.bytes)
      <4>1. Len(s.bytes) = l /\ ~ (p >= l - TailLength)
        BY <1>1, <2>1, <2>4, <3>1
      <4>2. p \in Nat /\ l \in Nat /\ TailLength \in Nat /\ TailLength >= 2
        BY <1>2
      <4>3. QED  BY ONLY <4>1, <4>2
    <3>7. v \in Int
      BY <2>1, <3>2, <3>6, ElementOfSeq
    <3>8. o \in Int
      BY <3>3, <3>7, OperandTyped
    <3>9. t \in Seq(Int) /\ Len(t) = l
      BY <2>1, <3>4, <3>6, <3>8, ExceptSeq
    <3>10. t \in Texts /\ p + 2 \in Nat
      BY <3>9
    <3> HIDE DEF Look, Texts
    <3>11. QED  BY <3>5, <3>10
  <2>5. QED  BY <2>2, <2>3, <2>4
<1>5. a \in S
  BY <1>1
<1>6. PICK stride : stride = [n \in 1..len |-> [s \in S |-> Look(s)]]
  OBVIOUS
<1>7. Steps(stride, len, S)
  <2> HIDE DEF Look, S
  <2>1. QED  BY <1>4, <1>6 DEF Steps
<1>8. PICK f \in [0..len -> S] : f[0] = a /\ \A n \in 1..len : f[n] = stride[n][f[n - 1]]
  <2> HIDE DEF S, a
  <2>1. PICK f : IsTable(f, len, S, a, stride)
    BY <1>5, <1>7, IterationExists
  <2>2. QED  BY <2>1 DEF IsTable
<1>9. ASSUME NEW n \in 0..len PROVE f[n] = After(f, n)
  <2> HIDE DEF Look, S, a
  <2>1. CASE n = 0
    BY <1>8, <2>1
  <2>2. CASE n # 0
    <3>1. n \in 1..len /\ n - 1 \in 0..len
      BY <2>2
    <3>2. f[n - 1] \in S
      BY <1>8, <3>1
    <3>3. f[n] = stride[n][f[n - 1]]
      BY <1>8, <3>1
    <3>4. QED  BY <1>6, <2>2, <3>1, <3>2, <3>3
  <2>3. QED  BY <2>1, <2>2
<1>10. f = [n \in 0..len |-> After(f, n)]
  <2> HIDE DEF After, S
  <2>1. QED  BY <1>8, <1>9
<1>11. PICK g : g = CHOOSE h : h = [n \in 0..len |-> After(h, n)]
  OBVIOUS
<1>12. g = [n \in 0..len |-> After(g, n)]
  <2> HIDE DEF After
  <2>1. QED  BY <1>10, <1>11
<1>13. Translated(bytes, from, size) = g[len].bytes
  <2>1. g = CHOOSE h : h = [n \in 0..(Len(bytes) - TailLength) |-> After(h, n)]
    BY <1>1, <1>3, <1>11
  <2>2. len = Len(bytes) - TailLength
    BY <1>1, <1>3
  <2>3. QED  BY <2>1, <2>2 DEF Translated
<1>14. \A n \in 0..len : g[n] = After(g, n)
  <2> HIDE DEF After
  <2>1. QED  BY <1>12
<1> DEFINE P == {n \in 0..len : g[n] \in S}
<1>15. 0 \in P
  <2>1. 0 \in 0..len
    OBVIOUS
  <2> HIDE DEF Look, S, a
  <2>2. QED  BY <1>5, <1>14, <2>1
<1>16. ASSUME NEW n \in 1..len, n - 1 \in P PROVE n \in P
  <2>1. n \in 0..len /\ n # 0
    OBVIOUS
  <2> HIDE DEF Look, S, a
  <2>2. g[n - 1] \in S /\ g[n] = Look(g[n - 1])
    BY <1>14, <1>16, <2>1
  <2>3. QED  BY <1>4, <2>1, <2>2
<1>17. \A n \in 0..len : n \in P
  <2> HIDE DEF P
  <2>1. QED  BY <1>15, <1>16, BoundedInduction
<1>18. g[len] \in S
  <2>1. len \in 0..len
    OBVIOUS
  <2> HIDE DEF S
  <2>2. QED  BY <1>17, <2>1
<1>19. QED  BY <1>1, <1>13, <1>18

-----------------------------------------------------------------------------
(* Where the frame stands.                                                 *)
LEMMA ProducedPlace ==
  ASSUME frame \in Nat
  PROVE  /\ Produced \in Nat /\ Produced % N \in 0..(N - 1)
         /\ (Produced % N) + FrameLength <= N
         /\ (frame + 1) * FrameLength = Produced + FrameLength
<1>1. Produced \in Nat /\ (frame + 1) * FrameLength = Produced + FrameLength
  BY WindowSizes DEF Produced
<1>2. Produced % N \in 0..(N - 1)
  BY <1>1, WindowSizes, ModFacts
<1>3. ((frame * FrameLength) % N) + FrameLength <= N
  BY WindowSizes, FrameFits
<1>4. QED  BY <1>1, <1>2, <1>3 DEF Produced

LEMMA CursorNumbers ==
  ASSUME Cursor
  PROVE  /\ total \in Nat \ {0} /\ Produced \in Nat /\ Len(plain) \in Nat /\ posn \in Nat
         /\ FrameLength \in Nat \ {0} /\ N \in Nat \ {0}
         /\ Produced % N \in Nat /\ (Produced % N) + FrameLength <= N
         /\ Finished = (IF Produced < total THEN Produced ELSE total)
         /\ Len(plain) >= Finished /\ Len(plain) <= total /\ Len(plain) <= Produced + FrameLength
         /\ (Produced < total => posn = (Produced % N) + (Len(plain) - Produced))
         /\ FrameSize = (IF total - Produced < FrameLength THEN total - Produced ELSE FrameLength)
         /\ Room = FrameSize - (Len(plain) - Produced)
<1>1. plain \in Seq(Int) /\ frame \in Nat
  BY DEF Cursor
<1>2. Len(plain) \in Nat
  BY <1>1, LenProperties
<1>3. /\ Produced \in Nat /\ Produced % N \in 0..(N - 1) /\ (Produced % N) + FrameLength <= N
  BY <1>1, ProducedPlace
<1>4. /\ total \in Nat \ {0} /\ posn \in Nat
      /\ Len(plain) >= Finished /\ Len(plain) <= total /\ Len(plain) <= Produced + FrameLength
      /\ (Produced < total => posn = (Produced % N) + (Len(plain) - Produced))
  BY DEF Cursor
<1>5. FrameLength \in Nat \ {0} /\ N \in Nat \ {0} /\ Produced % N \in Nat
  BY <1>3, WindowSizes
<1>6. QED  BY <1>2, <1>3, <1>4, <1>5 DEF Finished, FrameSize, Room, InFrame

(* While there is room, the next bytes go behind posn, in the window.      *)
LEMMA RoomPlace ==
  ASSUME Cursor, NEW k \in Nat \ {0}, Room >= k
  PROVE  /\ Produced < total /\ Finished = Produced
         /\ posn \in 0..(N - 1) /\ posn + k <= N /\ Len(plain) % N = posn
         /\ posn + 1 = Place(Len(plain) + 1)
         /\ Len(plain) + k <= total /\ Len(plain) + k <= Produced + FrameLength
<1>1. PICK l \in Nat : l = Len(plain)
  BY CursorNumbers
<1>2. PICK p \in Nat : p = Produced
  BY CursorNumbers
<1>3. PICK m \in Nat : m = p % N
  BY <1>2, CursorNumbers
<1>4. PICK z : z = FrameSize
  OBVIOUS
<1>5. /\ total \in Nat \ {0} /\ posn \in Nat /\ FrameLength \in Nat \ {0} /\ N \in Nat \ {0}
      /\ m + FrameLength <= N /\ Finished = (IF p < total THEN p ELSE total)
      /\ l >= Finished /\ l <= total /\ l <= p + FrameLength
      /\ (p < total => posn = m + (l - p))
      /\ z = (IF total - p < FrameLength THEN total - p ELSE FrameLength)
      /\ z - (l - p) >= k
  BY <1>1, <1>2, <1>3, <1>4, CursorNumbers
<1>6. p < total
  BY <1>5
<1>7. /\ Finished = p /\ l >= p /\ posn = m + (l - p) /\ posn + k <= N
      /\ l + k <= total /\ l + k <= p + FrameLength
  BY <1>5, <1>6
<1>8. posn \in 0..(N - 1)
  BY <1>5, <1>7
<1>9. l % N = posn
  <2>1. PICK d \in Int : d = l - p
    OBVIOUS
  <2>2. (p % N) + d \in 0..(N - 1)
    BY <1>3, <1>7, <1>8, <2>1
  <2>3. (p + d) % N = (p % N) + d
    BY ONLY p \in Int, d \in Int, <1>5, <2>2, ModPlus
  <2>4. p + d = l
    BY <2>1
  <2>5. QED  BY <1>3, <1>7, <2>1, <2>3, <2>4
<1>10. posn + 1 = Place(l + 1)
  <2>1. (l + 1) - 1 = l
    OBVIOUS
  <2>2. QED  BY <1>9, <2>1 DEF Place
<1>11. QED  BY <1>1, <1>2, <1>6, <1>7, <1>8, <1>9, <1>10

-----------------------------------------------------------------------------
(* Bytes that are added to the frame.                                      *)
LEMMA StartOfSeq ==
  ASSUME NEW s, NEW f \in Nat, \A i \in 1..f : s[i] \in Int
  PROVE  /\ SubSeq(s, 1, f) \in Seq(Int) /\ Len(SubSeq(s, 1, f)) = f
         /\ \A i \in 1..f : SubSeq(s, 1, f)[i] = s[i]
<1>1. /\ SubSeq(s, 1, f) \in Seq(Int)
      /\ Len(SubSeq(s, 1, f)) = IF 1 <= f THEN f - 1 + 1 ELSE 0
      /\ \A i \in 1..(f - 1 + 1) : SubSeq(s, 1, f)[i] = s[1 + i - 1]
  BY SubSeqProperties
<1>2. QED  BY <1>1

LEMMA GrownCursor ==
  ASSUME Cursor, NEW k \in Nat \ {0}, Room >= k, posn' = posn + k,
         plain' \in Seq(Int), Len(plain') = Len(plain) + k,
         UNCHANGED <<total, filesize, frame, curpos>>
  PROVE  Cursor' /\ Finished' = Finished
<1>1. Produced' = Produced /\ Finished' = Finished
  BY DEF Produced, Finished
<1>2. PICK l \in Nat : l = Len(plain)
  BY CursorNumbers
<1>3. PICK p \in Nat : p = Produced
  BY CursorNumbers
<1>4. PICK m \in Nat : m = p % N
  BY <1>3, CursorNumbers
<1>5. p < total /\ l + k <= total /\ l + k <= p + FrameLength
  BY <1>2, <1>3, RoomPlace
<1>6. posn \in Nat /\ posn = m + (l - p) /\ l >= Finished /\ Finished = p
  BY <1>2, <1>3, <1>4, <1>5, CursorNumbers
<1>7. Len(plain') = l + k
  BY <1>2
<1>8. posn' \in Nat /\ posn' = m + (Len(plain') - p) /\ Len(plain') >= Finished
  BY <1>6, <1>7
<1>9. /\ total' \in Nat \ {0} /\ filesize' \in 0..(Base - 1) /\ frame' \in Nat
      /\ curpos' \in Nat /\ (filesize' # 0 => curpos' = Finished)
  BY DEF Cursor
<1>10. QED  BY <1>1, <1>3, <1>4, <1>5, <1>7, <1>8, <1>9 DEF Cursor

LEMMA GrownOutputs ==
  ASSUME OutputsAgree, Cursor, NEW x \in Seq(Int), out' = out \o x,
         plain' \in Seq(Int), Len(plain') = Len(plain) + Len(x),
         \A i \in 1..Len(plain) : plain'[i] = plain[i],
         \A k \in 1..Len(x) : x[k] = plain'[Len(plain) + k],
         Finished' = Finished, UNCHANGED written
  PROVE  OutputsAgree'
<1>1. PICK l \in Nat : l = Len(plain)
  BY CursorNumbers
<1>2. PICK k \in Nat : k = Len(x)
  BY LenProperties
<1>3. PICK f \in Nat : f = Finished
  BY CursorNumbers
<1>4. f <= l
  BY <1>1, <1>3, CursorNumbers
<1>5. /\ out \in Seq(Int) /\ Len(out) = l /\ written \in Seq(Int) /\ Len(written) = f
      /\ written = SubSeq(out, 1, f)
      /\ \A i \in (f + 1)..l : out[i] = plain[i]
  BY <1>1, <1>3 DEF OutputsAgree
<1>6. PICK u : u = out'
  OBVIOUS
<1>7. /\ u \in Seq(Int) /\ Len(u) = l + k
      /\ \A i \in 1..(l + k) : u[i] = IF i <= l THEN out[i] ELSE x[i - l]
  <2>1. u = out \o x
    BY <1>6
  <2>2. out \in Seq(Int)
    BY <1>5
  <2>3. /\ u \in Seq(Int) /\ Len(u) = Len(out) + Len(x)
        /\ \A i \in 1..(Len(out) + Len(x)) : u[i] = IF i <= Len(out) THEN out[i] ELSE x[i - Len(out)]
    BY <2>1, <2>2, ConcatProperties
  <2>4. Len(out) = l /\ Len(x) = k
    BY <1>2, <1>5
  <2>5. QED  BY ONLY <2>3, <2>4
<1>8. ASSUME NEW i \in (f + 1)..(l + k) PROVE u[i] = plain'[i]
  <2>1. CASE i <= l
    <3>1. i \in 1..(l + k) /\ i \in (f + 1)..l /\ i \in 1..l
      BY <2>1
    <3>2. QED  BY <1>1, <1>5, <1>7, <2>1, <3>1
  <2>2. CASE ~ (i <= l)
    <3>1. PICK n : n = i - l
      OBVIOUS
    <3>2. i \in 1..(l + k) /\ n \in 1..k /\ l + n = i
      BY <2>2, <3>1
    <3>3. u[i] = x[n]
      BY <1>7, <2>2, <3>1, <3>2
    <3>4. QED  BY <1>1, <1>2, <3>2, <3>3
  <2>3. QED  BY <2>1, <2>2
<1>9. SubSeq(u, 1, f) = SubSeq(out, 1, f)
  <2>1. \A i \in 1..f : u[i] = out[i] /\ out[i] \in Int
    <3>1. \A i \in 1..f : i \in 1..l /\ i \in 1..(l + k) /\ i <= l
      BY <1>4
    <3>2. QED  BY <1>5, <1>7, <3>1, ElementOfSeq
  <2>2. /\ SubSeq(u, 1, f) \in Seq(Int) /\ Len(SubSeq(u, 1, f)) = f
        /\ \A i \in 1..f : SubSeq(u, 1, f)[i] = u[i]
    BY <2>1, StartOfSeq
  <2>3. /\ SubSeq(out, 1, f) \in Seq(Int) /\ Len(SubSeq(out, 1, f)) = f
        /\ \A i \in 1..f : SubSeq(out, 1, f)[i] = out[i]
    BY <2>1, StartOfSeq
  <2>4. PICK a \in Seq(Int) : a = SubSeq(u, 1, f)
    BY <2>2
  <2>5. PICK b \in Seq(Int) : b = SubSeq(out, 1, f)
    BY <2>3
  <2>6. Len(a) = f /\ Len(b) = f /\ \A i \in 1..f : a[i] = b[i]
    BY <2>1, <2>2, <2>3, <2>4, <2>5
  <2>7. a = b
    BY ONLY <2>6, a \in Seq(Int), b \in Seq(Int), SeqEqual
  <2>8. QED  BY <2>4, <2>5, <2>7
<1>10. written' = SubSeq(u, 1, f) /\ written' \in Seq(Int) /\ Len(written') = f
  BY <1>5, <1>9
<1>11. Len(plain') = l + k /\ Finished' = f
  BY <1>1, <1>2, <1>3
<1>12. QED  BY <1>6, <1>7, <1>8, <1>10, <1>11 DEF OutputsAgree

-----------------------------------------------------------------------------
(* One lemma for every action.                                             *)
LEMMA InitFrames ==
  ASSUME FramesInit
  PROVE  FramesInv
<1>1. /\ total \in Nat \ {0} /\ filesize \in 0..(Base - 1)
      /\ frame = 0 /\ posn = 0 /\ curpos = 0
      /\ plain = <<>> /\ out = <<>> /\ written = <<>>
  BY FramesAssumption DEF FramesInit
<1>2. Produced = 0
  BY <1>1, WindowSizes DEF Produced
<1>3. Finished = 0
  BY <1>1, <1>2 DEF Finished
<1>4. plain \in Seq(Int) /\ Len(plain) = 0
  BY <1>1, EmptySeq
<1>5. Produced % N = 0
  <2>1. 0 = N * 0 + 0 /\ 0 \in 0..(N - 1)
    BY WindowSizes
  <2>2. 0 % N = 0
    BY <2>1, WindowSizes, ModUnique
  <2>3. QED  BY <1>2, <2>2
<1>6. Cursor
  BY <1>1, <1>2, <1>3, <1>4, <1>5, WindowSizes DEF Cursor
<1>7. WindowsHold
  <2>1. cwin \in Windows /\ pwin \in Windows
    BY WindowSizes DEF FramesInit, Windows, N, Unset
  <2>2. QED  BY <1>4, <2>1 DEF WindowsHold, Holds
<1>8. OutputsAgree
  <2>1. SubSeq(out, 1, 0) = <<>>
    BY SubSeqEmpty
  <2>2. QED  BY <1>1, <1>3, <1>4, <2>1 DEF OutputsAgree
<1>9. QED  BY <1>6, <1>7, <1>8 DEF FramesInv

LEMMA LiteralKeeps ==
  ASSUME FramesInv, ~early, NEW b \in Bytes, Literal(b)
  PROVE  Cursor' /\ WindowsHold' /\ (Comparable' => OutputsAgree')
<1>1. Cursor /\ WindowsHold /\ (Comparable => OutputsAgree)
  BY DEF FramesInv
<1>2. b \in Int
  BY FramesAssumption
<1>3. PICK l \in Nat : l = Len(plain)
  BY <1>1, CursorNumbers
<1>4. plain \in Seq(Int)
  BY <1>1 DEF Cursor
<1>5. /\ plain' = Append(plain, b) /\ plain' \in Seq(Int) /\ Len(plain') = l + 1
      /\ \A i \in 1..l : plain'[i] = plain[i]
      /\ plain'[l + 1] = b
  <2>1. plain' = Append(plain, b)
    BY DEF Literal
  <2>2. QED  BY <1>2, <1>3, <1>4, <2>1, AppendInts
<1>6. Room >= 1 /\ posn' = posn + 1 /\ UNCHANGED <<total, filesize, frame, curpos>>
  BY DEF Literal
<1>7. Cursor' /\ Finished' = Finished
  BY <1>1, <1>3, <1>5, <1>6, GrownCursor
<1>8. posn + 1 = Place(Len(plain) + 1)
  BY <1>1, <1>6, RoomPlace
<1>9. WindowsHold'
  <2>1. cwin' = [cwin EXCEPT ![Place(Len(plain) + 1)] = b]
    BY <1>8 DEF Literal
  <2>2. pwin' = [pwin EXCEPT ![Place(Len(plain) + 1)] = b]
    BY <1>8 DEF Literal
  <2>3. cwin' \in Windows /\ Holds(cwin', Append(plain, b))
    BY <1>1, <1>2, <1>4, <2>1, Push DEF WindowsHold
  <2>4. pwin' \in Windows /\ Holds(pwin', Append(plain, b))
    BY <1>1, <1>2, <1>4, <2>2, Push DEF WindowsHold
  <2>5. QED  BY <1>5, <2>3, <2>4 DEF WindowsHold
<1>10. ASSUME Comparable' PROVE OutputsAgree'
  <2>1. Comparable
    BY <1>6, <1>10 DEF Comparable
  <2>2. OutputsAgree
    BY <1>1, <2>1
  <2>3. PICK x : x = <<b>>
    OBVIOUS
  <2>3a. x \in Seq(Int) /\ Len(x) = 1 /\ x[1] = b
    BY <1>2, <2>3
  <2>4. out' = out \o x
    <3>1. out' = Append(out, b) /\ out \in Seq(Int)
      BY <2>2 DEF Literal, OutputsAgree
    <3>2. QED  BY <1>2, <2>3a, <2>3, <3>1, AppendIsConcat
  <2>5. Len(plain') = Len(plain) + Len(x)
    BY <1>3, <1>5, <2>3a
  <2>6. \A k \in 1..Len(x) : x[k] = plain'[Len(plain) + k]
    BY <1>3, <1>5, <2>3a
  <2>7. \A i \in 1..Len(plain) : plain'[i] = plain[i]
    BY <1>3, <1>5
  <2>8. UNCHANGED written
    BY DEF Literal
  <2>9. QED  BY <1>1, <1>5, <1>7, <2>3a, <2>2, <2>4, <2>5, <2>6, <2>7, <2>8, GrownOutputs
<1>11. QED  BY <1>7, <1>9, <1>10

LEMMA MatchKeeps ==
  ASSUME FramesInv, ~early, NEW len \in Lengths, NEW off \in Distances, Match(len, off), ~early'
  PROVE  Cursor' /\ WindowsHold' /\ (Comparable' => OutputsAgree')
<1>1. Cursor /\ WindowsHold /\ (Comparable => OutputsAgree)
  BY DEF FramesInv
<1>2. len \in Nat \ {0} /\ off \in Nat \ {0}
  BY FramesAssumption
<1>3. PICK l \in Nat : l = Len(plain)
  BY <1>1, CursorNumbers
<1>4. plain \in Seq(Int)
  BY <1>1 DEF Cursor
<1>5. /\ Room >= len /\ off <= N /\ posn' = posn + len
      /\ UNCHANGED <<total, filesize, frame, curpos>>
      /\ cwin' = CCopy(len, off) /\ pwin' = PyCopy(len, off) /\ plain' = Extended(len, off)
      /\ out' = out \o SubSeq(pwin', posn + 1, posn + len) /\ UNCHANGED written
  BY DEF Match, N
<1>6. off <= l
  <2>1. ~ (off > Len(plain))
    BY DEF Match
  <2>2. QED  BY <1>2, <1>3, <2>1
<1>7. /\ posn \in 0..(N - 1) /\ posn + len <= N /\ Len(plain) % N = posn
      /\ posn \in Nat /\ N \in Nat
  <2>1. posn \in 0..(N - 1) /\ posn + len <= N /\ Len(plain) % N = posn
    BY <1>1, <1>2, <1>5, RoomPlace
  <2>2. QED  BY <2>1, WindowSizes
<1>8. MatchFits(len, off)
  BY <1>2, <1>3, <1>4, <1>5, <1>6, <1>7 DEF MatchFits
<1>9. /\ plain' \in Seq(Int) /\ Len(plain') = Len(plain) + len
      /\ \A i \in 1..Len(plain) : plain'[i] = plain[i]
  BY <1>5, <1>8, ExtendedTyped
<1>10. Cursor' /\ Finished' = Finished
  BY <1>1, <1>2, <1>5, <1>9, GrownCursor
<1>11. WindowsHold'
  <2>1. cwin' \in Windows /\ Holds(cwin', plain')
    BY <1>1, <1>5, <1>8, CCopyHolds DEF WindowsHold
  <2>2. pwin' \in Windows /\ Holds(pwin', plain')
    BY <1>1, <1>5, <1>8, PyCopyHolds DEF WindowsHold
  <2>3. QED  BY <2>1, <2>2 DEF WindowsHold
<1>12. ASSUME Comparable' PROVE OutputsAgree'
  <2>1. Comparable
    BY <1>5, <1>12 DEF Comparable
  <2>2. OutputsAgree
    BY <1>1, <2>1
  <2>3. PICK x : x = SubSeq(pwin', posn + 1, posn + len)
    OBVIOUS
  <2>4. x \in Seq(Int) /\ Len(x) = len /\ \A k \in 1..len : x[k] = pwin'[posn + k]
    <3>1. pwin' \in Windows
      BY <1>11 DEF WindowsHold
    <3>2. PICK w \in Windows : w = pwin'
      BY <3>1
    <3>3. x = SubSeq(w, posn + 1, posn + len)
      BY <2>3, <3>2
    <3>4. /\ x \in Seq(Int) /\ Len(x) = len
          /\ \A k \in 1..len : x[k] = w[posn + k]
      <4>1. posn \in Nat /\ len \in Nat /\ posn + len <= N
        BY <1>2, <1>7
      <4>2. QED  BY ONLY <3>3, <4>1, w \in Windows, PartOfWindow
    <3>5. QED  BY <3>2, <3>4
  <2>5. ASSUME NEW k \in 1..len PROVE x[k] = plain'[Len(plain) + k]
    <3>1. posn + k = Place(Len(plain) + k)
      BY <1>8, CursorPlaces
    <3>2. PICK i : i = l + k
      OBVIOUS
    <3>3. Len(plain') = l + len
      BY <1>3, <1>9
    <3>4. i \in 1..Len(plain') /\ i > Len(plain') - N
      BY <1>2, <1>7, <3>2, <3>3
    <3>5. pwin'[Place(i)] = plain'[i]
      BY <1>11, <3>4 DEF WindowsHold, Holds
    <3>6. QED  BY <1>3, <2>4, <3>1, <3>2, <3>5
  <2>6. out' = out \o x
    BY <1>5, <2>3
  <2>7. QED  BY <1>1, <1>5, <1>9, <1>10, <2>2, <2>4, <2>5, <2>6, GrownOutputs
<1>13. QED  BY <1>10, <1>11, <1>12

(* The next frame begins where the last one ends, or at the window's start. *)
LEMMA NextCursor ==
  ASSUME Cursor, PutFrame
  PROVE  /\ Produced < total /\ Finished = Produced
         /\ FrameSize \in 1..FrameLength /\ Len(plain) = Produced + FrameSize
         /\ Finished' = Len(plain) /\ Cursor'
<1>1. PICK l \in Nat : l = Len(plain)
  BY CursorNumbers
<1>2. PICK p \in Nat : p = Produced
  BY CursorNumbers
<1>3. PICK m \in Nat : m = p % N
  BY <1>2, CursorNumbers
<1>4. PICK z : z = FrameSize
  OBVIOUS
<1>5. /\ total \in Nat \ {0} /\ posn \in Nat /\ FrameLength \in Nat \ {0} /\ N \in Nat \ {0}
      /\ m + FrameLength <= N /\ Finished = (IF p < total THEN p ELSE total)
      /\ (p < total => posn = m + (l - p))
      /\ z = (IF total - p < FrameLength THEN total - p ELSE FrameLength)
      /\ Room = z - (l - p)
  BY <1>1, <1>2, <1>3, <1>4, CursorNumbers
<1>6. /\ p < total /\ Room = 0 /\ frame' = frame + 1
      /\ posn' = (IF posn = N THEN 0 ELSE posn)
      /\ curpos' = (IF filesize # 0 THEN curpos + z ELSE curpos)
      /\ UNCHANGED <<total, filesize, plain>>
  BY <1>2, <1>4 DEF PutFrame, Counted, N
<1>7. Finished = p /\ z \in 1..FrameLength /\ z \in Nat /\ l = p + z /\ posn = m + z
  BY <1>5, <1>6
<1>8. Produced' = p + FrameLength
  <2>1. frame \in Nat
    BY DEF Cursor
  <2>2. (frame + 1) * FrameLength = p + FrameLength
    BY <1>2, <2>1, ProducedPlace
  <2>3. QED  BY <1>6, <2>2 DEF Produced
<1>9. Finished' = l
  <2>1. Finished' = IF p + FrameLength < total THEN p + FrameLength ELSE total
    BY <1>6, <1>8 DEF Finished
  <2>2. QED  BY <1>5, <1>6, <1>7, <2>1
<1>10. ASSUME p + FrameLength < total PROVE posn' = (p + FrameLength) % N /\ l = p + FrameLength
  <2>1. z = FrameLength /\ posn = m + FrameLength
    BY <1>5, <1>7, <1>10
  <2>2. CASE m + FrameLength < N
    <3>1. posn' = m + FrameLength
      BY <1>5, <1>6, <2>1, <2>2
    <3>2. m + FrameLength \in 0..(N - 1)
      BY <1>5, <2>2
    <3>3. (p + FrameLength) % N = m + FrameLength
      <4>1. p \in Int /\ FrameLength \in Int /\ N \in Nat \ {0} /\ (p % N) + FrameLength \in 0..(N - 1)
        BY <1>3, <1>5, <3>2
      <4>2. (p + FrameLength) % N = (p % N) + FrameLength
        BY ONLY <4>1, ModPlus
      <4>3. QED  BY <1>3, <4>2
    <3>4. QED  BY <1>7, <2>1, <3>1, <3>3
  <2>3. CASE m + FrameLength = N
    <3>1. posn' = 0
      BY <1>6, <2>1, <2>3
    <3>2. m % N = p % N
      <4>1. m = N * 0 + m /\ m \in 0..(N - 1)
        BY <1>5
      <4>2. m % N = m
        BY <1>5, <4>1, ModUnique
      <4>3. QED  BY <1>3, <4>2
    <3>3. (m + FrameLength) % N = (p + FrameLength) % N
      <4>1. p \in Int /\ m \in Int /\ FrameLength \in Int /\ N \in Nat \ {0}
        BY <1>5
      <4>2. QED  BY ONLY <3>2, <4>1, ModSame
    <3>4. N % N = 0
      <4>1. N = N * 1 + 0 /\ 0 \in 0..(N - 1)
        BY <1>5
      <4>2. QED  BY <1>5, <4>1, ModUnique
    <3>5. QED  BY <1>7, <2>1, <2>3, <3>1, <3>3, <3>4
  <2>4. QED  BY <1>5, <2>2, <2>3
<1>11. ASSUME Produced' < total' PROVE posn' = (Produced' % N) + (Len(plain') - Produced')
  <2>1. p + FrameLength < total
    BY <1>6, <1>8, <1>11
  <2>2. posn' = (p + FrameLength) % N /\ l = p + FrameLength
    BY <1>10, <2>1
  <2>3. Len(plain') - Produced' = 0
    BY <1>1, <1>5, <1>6, <1>8, <2>2
  <2>4. PICK q \in Int : q = p + FrameLength
    BY <1>5
  <2>5. q % N \in Int
    BY <1>5, ModFacts
  <2>6. QED  BY <1>8, <2>2, <2>3, <2>4, <2>5
<1>12. posn' \in Nat
  BY <1>5, <1>6
<1>13. curpos' \in Nat /\ (filesize' # 0 => curpos' = Finished')
  <2>1. curpos \in Nat /\ (filesize # 0 => curpos = p)
    BY <1>7 DEF Cursor
  <2>2. QED  BY <1>6, <1>7, <1>9, <2>1
<1>14. /\ total' \in Nat \ {0} /\ filesize' \in 0..(Base - 1) /\ frame' \in Nat
       /\ plain' \in Seq(Int) /\ Len(plain') >= Finished' /\ Len(plain') <= total'
       /\ Len(plain') <= Produced' + FrameLength
  <2>1. /\ total \in Nat \ {0} /\ filesize \in 0..(Base - 1) /\ frame \in Nat
        /\ plain \in Seq(Int) /\ l <= total
    BY <1>1 DEF Cursor
  <2>2. Len(plain') = l /\ l <= (p + FrameLength) + FrameLength
    BY <1>1, <1>5, <1>6, <1>7
  <2>3. /\ Len(plain') >= Finished' /\ Len(plain') <= total' /\ Len(plain') <= Produced' + FrameLength
    BY <1>6, <1>8, <1>9, <2>1, <2>2
  <2>4. QED  BY <1>6, <2>1, <2>3
<1>15. Cursor'
  BY <1>11, <1>12, <1>13, <1>14 DEF Cursor
<1>16. QED  BY <1>1, <1>2, <1>4, <1>6, <1>7, <1>9, <1>15

(* The frame of the window is the end of the output.                       *)
LEMMA SameFrame ==
  ASSUME Cursor, WindowsHold, OutputsAgree, PutFrame
  PROVE  CFrame = PyFrame /\ CFrame \in Seq(Int) /\ Len(CFrame) = FrameSize
<1>1. PICK l \in Nat : l = Len(plain)
  BY CursorNumbers
<1>2. PICK p \in Nat : p = Produced
  BY CursorNumbers
<1>3. PICK m \in Nat : m = p % N
  BY <1>2, CursorNumbers
<1>4. PICK z \in Nat : z = FrameSize
  BY NextCursor
<1>5. /\ l = p + z /\ z <= FrameLength /\ m + FrameLength <= N
      /\ FrameLength \in Nat \ {0} /\ N \in Nat \ {0}
  BY <1>1, <1>2, <1>3, <1>4, NextCursor, CursorNumbers
<1>6. PICK c : c = CFrame
  OBVIOUS
<1>7. c = SubSeq(cwin, m + 1, m + z)
  BY <1>2, <1>3, <1>4, <1>6 DEF CFrame, N
<1>8. c \in Seq(Int) /\ Len(c) = z /\ \A i \in 1..z : c[i] = cwin[m + i]
  <2>1. m + z <= N
    BY <1>5
  <2>2. PICK w \in Windows : w = cwin
    BY DEF WindowsHold
  <2>3. QED  BY <1>7, <2>1, <2>2, PartOfWindow
<1>9. ASSUME NEW i \in 1..z PROVE c[i] = plain[p + i]
  <2>1. PICK k \in Nat : k = i - 1
    OBVIOUS
  <2>2. p \in Int /\ k \in Int /\ N \in Nat \ {0} /\ (p % N) + k \in 0..(N - 1)
    BY <1>3, <1>5, <2>1
  <2>3. (p + k) % N = (p % N) + k
    BY ONLY <2>2, ModPlus
  <2>4. Place(p + i) = m + i
    <3>1. (p + i) - 1 = p + k /\ m + i = (m + k) + 1
      BY <2>1
    <3>2. QED  BY <1>3, <2>3, <3>1 DEF Place
  <2>5. PICK j : j = p + i
    OBVIOUS
  <2>6. j \in 1..l /\ j > l - N
    BY <1>5, <2>5
  <2>7. cwin[Place(j)] = plain[j]
    BY <1>1, <2>6 DEF WindowsHold, Holds
  <2>8. QED  BY <1>8, <2>4, <2>5, <2>7
<1>10. PICK y : y = PyFrame
  OBVIOUS
<1>11. out \in Seq(Int) /\ Len(out) = l /\ \A i \in (p + 1)..l : out[i] = plain[i]
  BY <1>1, <1>2, NextCursor DEF OutputsAgree
<1>12. y \in Seq(Int) /\ Len(y) = z /\ \A i \in 1..z : y[i] = out[p + i]
  <2>1. PICK lo \in Int : lo = p + 1
    OBVIOUS
  <2>2. PICK hi \in Int : hi = p + z
    OBVIOUS
  <2>3. y = SubSeq(out, lo, hi)
    BY <1>2, <1>4, <1>10, <2>1, <2>2 DEF PyFrame
  <2>4. \A i \in lo..hi : out[i] \in Int
    <3>1. \A i \in lo..hi : i \in 1..Len(out)
      BY <1>5, <1>11, <2>1, <2>2
    <3>2. QED  BY <1>11, <3>1, ElementOfSeq
  <2>5. /\ y \in Seq(Int) /\ Len(y) = IF lo <= hi THEN hi - lo + 1 ELSE 0
        /\ \A i \in 1..(hi - lo + 1) : y[i] = out[lo + i - 1]
    BY <2>3, <2>4, SubSeqProperties
  <2>6. hi - lo + 1 = z /\ \A i \in 1..z : lo + i - 1 = p + i
    BY <2>1, <2>2
  <2>7. Len(y) = z
    BY <2>1, <2>2, <2>5
  <2>8. QED  BY <2>5, <2>6, <2>7
<1>13. ASSUME NEW i \in 1..z PROVE y[i] = plain[p + i]
  <2>1. p + i \in (p + 1)..l
    BY <1>5
  <2>2. QED  BY <1>11, <1>12, <2>1
<1>14. c = y
  <2>1. Len(c) = Len(y) /\ \A i \in 1..Len(c) : c[i] = y[i]
    BY <1>8, <1>9, <1>12, <1>13
  <2>2. c \in Seq(Int) /\ y \in Seq(Int)
    BY <1>8, <1>12
  <2>3. QED  BY ONLY <2>1, <2>2, SeqEqual
<1>15. QED  BY <1>4, <1>6, <1>8, <1>10, <1>14

(* C translates with curpos and its signed file size, Python with the      *)
(* place in the output and the unsigned one.                               *)
LEMMA SamePut ==
  ASSUME Cursor, WindowsHold, OutputsAgree, PutFrame, frame < LastE8Frame, 2 * filesize < Base
  PROVE  CPut = PyPut /\ CPut \in Seq(Int) /\ Len(CPut) = FrameSize
<1>1. CFrame = PyFrame /\ CFrame \in Seq(Int) /\ Len(CFrame) = FrameSize
  BY SameFrame
<1>2. frame \in Nat /\ LastE8Frame \in Nat
  BY FramesAssumption DEF Cursor
<1>3. frame <= LastE8Frame
  BY <1>2
<1>4. filesize \in Int /\ Base \in Int
  BY FramesAssumption DEF Cursor
<1>5. Signed(filesize) = filesize
  BY <1>4 DEF Signed
<1>6. CASE started /\ filesize # 0 /\ FrameSize > TailLength
  <2>1. CPut = Translated(CFrame, curpos, Signed(filesize))
    BY <1>3, <1>6 DEF CPut
  <2>2. PyPut = Translated(PyFrame, Produced, filesize)
    BY <1>6 DEF PyPut
  <2>3. curpos = Produced /\ curpos \in Int
    BY <1>6, NextCursor DEF Cursor
  <2>4. PICK c \in Seq(Int) : c = CFrame
    BY <1>1
  <2>5. PICK t : t = Translated(c, curpos, filesize)
    OBVIOUS
  <2>6. Len(c) > TailLength
    BY <1>1, <1>6, <2>4
  <2>7. t \in Seq(Int) /\ Len(t) = Len(c)
    BY <1>4, <2>3, <2>5, <2>6, TranslatedTyped
  <2>8. CPut = t /\ PyPut = t
    BY <1>1, <1>5, <2>1, <2>2, <2>3, <2>4, <2>5
  <2>9. QED  BY <1>1, <2>4, <2>7, <2>8
<1>7. CASE ~ (started /\ filesize # 0 /\ FrameSize > TailLength)
  <2>1. CPut = CFrame
    BY <1>7 DEF CPut
  <2>2. PyPut = PyFrame
    BY <1>7 DEF PyPut
  <2>3. QED  BY <1>1, <2>1, <2>2
<1>8. QED  BY <1>6, <1>7

LEMMA PutKeeps ==
  ASSUME FramesInv, ~early, PutFrame
  PROVE  Cursor' /\ WindowsHold' /\ (Comparable' => OutputsAgree')
<1>1. Cursor /\ WindowsHold /\ (Comparable => OutputsAgree)
  BY DEF FramesInv
<1>2. Cursor'
  BY <1>1, NextCursor
<1>3. WindowsHold'
  <2>1. UNCHANGED <<cwin, pwin, plain>>
    BY DEF PutFrame
  <2>2. QED  BY <1>1, <2>1 DEF WindowsHold, Holds, Windows
<1>4. ASSUME Comparable' PROVE OutputsAgree'
  <2>1. frame + 1 <= LastE8Frame /\ 2 * filesize < Base
    BY <1>4 DEF Comparable, PutFrame
  <2>2. frame \in Nat /\ LastE8Frame \in Nat
    BY <1>1, FramesAssumption DEF Cursor
  <2>3. frame < LastE8Frame /\ frame <= LastE8Frame
    BY <2>1, <2>2
  <2>4. OutputsAgree
    BY <1>1, <2>1, <2>3 DEF Comparable
  <2>5. PICK q : q = CPut
    OBVIOUS
  <2>6. q = PyPut /\ q \in Seq(Int) /\ Len(q) = FrameSize
    BY <1>1, <2>1, <2>3, <2>4, <2>5, SamePut
  <2>7. PICK p \in Nat : p = Produced
    BY <1>1, CursorNumbers
  <2>8. Finished = p /\ Finished' = Len(plain) /\ Len(plain) = p + FrameSize
    BY <1>1, <2>7, NextCursor
  <2>9. written \in Seq(Int) /\ Len(written) = p /\ written = SubSeq(out, 1, p)
    BY <2>4, <2>8 DEF OutputsAgree
  <2>10. written' = written \o q /\ out' = written \o q /\ plain' = plain
    BY <2>5, <2>6, <2>7, <2>9 DEF PutFrame
  <2>11. PICK u : u = written \o q
    OBVIOUS
  <2>12. u \in Seq(Int) /\ Len(u) = Len(written) + Len(q)
    BY <2>6, <2>9, <2>11, ConcatProperties
  <2>13. Len(u) = Len(plain)
    BY <2>6, <2>8, <2>9, <2>12
  <2>14. SubSeq(u, 1, Len(u)) = u
    BY <2>12, SubSeqFull
  <2>15. Len(plain) \in Nat
    BY <1>1, CursorNumbers
  <2>16. \A i \in (Len(plain) + 1)..Len(plain) : FALSE
    BY <2>15
  <2>17. /\ out' = u /\ written' = u /\ Len(plain') = Len(plain) /\ Finished' = Len(plain)
         /\ u = SubSeq(u, 1, Len(plain))
    BY <2>8, <2>10, <2>11, <2>13, <2>14
  <2>18. QED  BY <2>12, <2>13, <2>16, <2>17 DEF OutputsAgree
<1>5. QED  BY <1>2, <1>3, <1>4

LEMMA QuietKeeps ==
  ASSUME FramesInv, ~early, StartE8 \/ UNCHANGED framevars
  PROVE  Cursor' /\ WindowsHold' /\ (Comparable' => OutputsAgree')
<1>1. Cursor /\ WindowsHold /\ (Comparable => OutputsAgree)
  BY DEF FramesInv
<1>2. UNCHANGED <<total, filesize, cwin, posn, curpos, written, pwin, out, frame, plain>>
  BY DEF StartE8, framevars
<1>3. Produced' = Produced /\ Finished' = Finished /\ Comparable' = Comparable
  BY <1>2 DEF Produced, Finished, Comparable
<1>4. Cursor'
  BY <1>1, <1>2, <1>3 DEF Cursor
<1>5. WindowsHold'
  BY <1>1, <1>2 DEF WindowsHold, Holds, Windows
<1>6. OutputsAgree => OutputsAgree'
  BY <1>2, <1>3 DEF OutputsAgree
<1>7. QED  BY <1>1, <1>3, <1>4, <1>5, <1>6

LEMMA StepKeeps ==
  ASSUME FramesInv, [FramesNext]_framevars
  PROVE  FramesInv'
<1> SUFFICES ASSUME ~early' PROVE Cursor' /\ WindowsHold' /\ (Comparable' => OutputsAgree')
  BY DEF FramesInv
<1>1. CASE StartE8
  <2>1. ~early
    BY <1>1 DEF StartE8
  <2>2. QED  BY <1>1, <2>1, QuietKeeps
<1>2. CASE \E b \in Bytes : Literal(b)
  <2>1. ~early
    BY <1>2 DEF Literal
  <2>2. QED  BY <1>2, <2>1, LiteralKeeps
<1>3. CASE \E len \in Lengths, off \in Distances : Match(len, off)
  <2>1. ~early
    BY <1>3 DEF Match
  <2>2. QED  BY <1>3, <2>1, MatchKeeps
<1>4. CASE PutFrame
  <2>1. ~early
    BY <1>4 DEF PutFrame
  <2>2. QED  BY <1>4, <2>1, PutKeeps
<1>5. CASE UNCHANGED framevars
  <2>1. ~early
    BY <1>5 DEF framevars
  <2>2. QED  BY <1>5, <2>1, QuietKeeps
<1>6. QED  BY <1>1, <1>2, <1>3, <1>4, <1>5 DEF FramesNext

LEMMA AlwaysFrames == FramesSpec => []FramesInv
<1>1. FramesInit => FramesInv
  BY InitFrames
<1>2. FramesInv /\ [FramesNext]_framevars => FramesInv'
  BY StepKeeps
<1>3. QED  BY <1>1, <1>2, PTL DEF FramesSpec

-----------------------------------------------------------------------------
(* Both windows always hold the bytes the tokens said, those of the last   *)
(* window's length, whatever the copies overlap: lzxd.c 658 to 680, lzx.py *)
(* 423 to 440.                                                             *)
THEOREM PlainWindows == FramesSpec => []WindowsArePlain
<1>1. FramesInv => WindowsArePlain
  <2> SUFFICES ASSUME FramesInv, ~early,
                      NEW i \in 1..Len(plain), i > Len(plain) - WindowLength
               PROVE  LET at == ((i - 1) % WindowLength) + 1
                      IN cwin[at] = plain[i] /\ pwin[at] = plain[i]
    BY DEF WindowsArePlain
  <2>1. Holds(cwin, plain) /\ Holds(pwin, plain)
    BY DEF FramesInv, WindowsHold
  <2>2. cwin[Place(i)] = plain[i] /\ pwin[Place(i)] = plain[i]
    BY <2>1 DEF Holds, N
  <2>3. QED  BY <2>2 DEF Place, N
<1>2. QED  BY <1>1, AlwaysFrames, PTL

(* Both decoders put out the same bytes, for every call in which no match  *)
(* reaches back before its first byte: lzxd.c 828 to 872, lzx.py 270 to    *)
(* 306.                                                                    *)
THEOREM EqualBytes == FramesSpec => []SameBytes
<1>1. FramesInv => SameBytes
  BY DEF FramesInv, SameBytes, Comparable, OutputsAgree
<1>2. QED  BY <1>1, AlwaysFrames, PTL

-----------------------------------------------------------------------------
(* Operands between -at and size change places among themselves.           *)
LEMMA RelativePermutes ==
  ASSUME Base \in Nat, NEW at \in Nat, NEW size \in Nat, 2 * at <= Base, 2 * size <= Base,
         NEW x \in Int, -Base <= 2 * x, 2 * x < Base
  PROVE  /\ Relative(x, at, size) \in Int
         /\ -Base <= 2 * Relative(x, at, size) /\ 2 * Relative(x, at, size) < Base
         /\ \A y \in Int : Relative(x, at, size) = Relative(y, at, size) => x = y
BY DEF Relative

LEMMA SignedFacts ==
  ASSUME Base \in Nat, NEW v \in 0..(Base - 1)
  PROVE  /\ Signed(v) \in Int /\ -Base <= 2 * Signed(v) /\ 2 * Signed(v) < Base
         /\ \A w \in 0..(Base - 1) : Signed(v) = Signed(w) => v = w
BY DEF Signed

LEMMA SignedMod ==
  ASSUME Base \in Nat \ {0}, NEW x \in Int, -Base <= 2 * x, 2 * x < Base
  PROVE  x % Base \in 0..(Base - 1) /\ Signed(x % Base) = x
<1>1. CASE x >= 0
  <2>1. x \in 0..(Base - 1) /\ x = Base * 0 + x
    BY <1>1
  <2>2. x % Base = x
    BY <2>1, ModUnique
  <2>3. QED  BY <1>1, <2>1, <2>2 DEF Signed
<1>2. CASE x < 0
  <2>1. x + Base \in 0..(Base - 1) /\ x = Base * (-1) + (x + Base) /\ -1 \in Int
    BY <1>2
  <2>2. x % Base = x + Base
    BY <2>1, ModUnique
  <2>3. QED  BY <1>2, <2>1, <2>2 DEF Signed
<1>3. QED  BY <1>1, <1>2

(* The E8 translation loses nothing: two call targets in one place never   *)
(* become the same operand, whatever the size of the file and the place,   *)
(* up to half of the values of an operand: lzxd.c 850 to 857, lzx.py 293   *)
(* to 296.                                                                 *)
THEOREM TranslationLosesNothing ==
  ASSUME NEW at \in Nat, NEW size \in Nat, 2 * at <= Base, 2 * size <= Base,
         NEW v \in 0..(Base - 1), NEW w \in 0..(Base - 1),
         Operand(v, at, size) = Operand(w, at, size)
  PROVE  v = w
<1>0. Base \in Nat \ {0} /\ Base \in Nat
  BY FramesAssumption
<1>1. PICK p \in Int, q \in Int : p = Signed(v) /\ q = Signed(w)
  BY <1>0, SignedFacts
<1>2. -Base <= 2 * p /\ 2 * p < Base /\ -Base <= 2 * q /\ 2 * q < Base
  BY <1>0, <1>1, SignedFacts
<1>3. PICK a, b : a = Relative(p, at, size) /\ b = Relative(q, at, size)
  OBVIOUS
<1>4. /\ a \in Int /\ -Base <= 2 * a /\ 2 * a < Base
      /\ b \in Int /\ -Base <= 2 * b /\ 2 * b < Base
      /\ a = b => p = q
  BY <1>0, <1>2, <1>3, RelativePermutes
<1>5. a % Base = b % Base
  BY <1>1, <1>3 DEF Operand
<1>6. a = b
  <2>1. Signed(a % Base) = a /\ Signed(b % Base) = b
    BY <1>0, <1>4, SignedMod
  <2>2. QED  BY <1>5, <2>1
<1>7. QED  BY <1>0, <1>1, <1>4, <1>6, SignedFacts

=============================================================================
