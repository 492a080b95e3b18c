------------------------------ MODULE TablesProofs -----------------------------
(***************************************************************************)
(* The parts of an AKC file an article is looked up with: first the bit    *)
(* readers, then the walk over the seek table, then the dictionary block.  *)
(***************************************************************************)
EXTENDS BitReader, SeekTable, AkcDictionary, SequenceTheorems, FiniteSetTheorems, TLAPS

(* The bit readers deliver the stream in order, for every word size, span  *)
(* length and set of widths.                                               *)
(***************************************************************************)
(* The inductive invariant.  While no error is flagged, the reader's count *)
(* is the number of loaded, unread bits -- or one word more, once the span *)
(* is exhausted -- and the window holds the unread bits, then zeros.  Only *)
(* a seek to the very end leaves an old window behind, with no bit in it   *)
(* that could still be read.                                               *)
(***************************************************************************)
OnWords == \E k \in 0..Size : ptr = k * Half

CountInv ==
  /\ bits \in 0..Word32
  /\ \/ asked + bits = ptr
     \/ ptr = Size /\ asked + bits = Size + Half
     \/ ptr = Size /\ bits = 0 /\ asked \in Size..(Size + Half)

WindowInv ==
  \/ bits = 0 /\ ptr = Size
  \/ \A i \in Pos : bitbuf[i] = IF asked + i <= ptr THEN asked + i ELSE 0

ReaderIInv ==
  /\ TypeOK
  /\ asked <= far
  /\ OnWords
  /\ ~error => CountInv /\ WindowInv
  /\ InOrder
  /\ OverrunReported

LEMMA ConstTypes ==
  /\ Half \in Nat /\ Half > 0 /\ Size \in Nat
  /\ Widths \subseteq 1..Word32
  /\ Word32 = Half + Half
BY ReaderAssumption DEF Word32

(* A pointer on a word boundary in front of the end has a whole word left. *)
LEMMA WordLeft ==
  ASSUME NEW p \in 0..Size, \E k \in 0..Size : p = k * Half, p < Size
  PROVE  p + Half <= Size
<1>1. PICK k \in 0..Size : p = k * Half
  OBVIOUS
<1>2. PICK n \in 0..Size : Size = n * Half
  BY ReaderAssumption
<1>3. k < n
  <2>1. CASE k >= n
    <3>1. k * Half >= n * Half
      BY <2>1, ConstTypes
    <3>2. QED  BY <3>1, <1>1, <1>2
  <2>2. QED  BY <2>1
<1>4. (k + 1) * Half <= n * Half
  BY <1>3, ConstTypes
<1>5. (k + 1) * Half = k * Half + Half
  BY ConstTypes
<1>6. QED  BY <1>1, <1>2, <1>4, <1>5, ConstTypes

LEMMA NextWord ==
  ASSUME NEW p \in 0..Size, \E k \in 0..Size : p = k * Half, p + Half <= Size
  PROVE  \E k \in 0..Size : p + Half = k * Half
<1>1. PICK k \in 0..Size : p = k * Half
  OBVIOUS
<1>2. (k + 1) * Half = k * Half + Half
  BY ConstTypes
<1>3. k + 1 <= (k + 1) * Half
  BY ConstTypes
<1>4. k + 1 \in 0..Size
  BY <1>1, <1>2, <1>3, ConstTypes
<1>5. QED  BY <1>1, <1>2, <1>4

(* What a load does to the pointer. *)
LEMMA LoadEndFacts ==
  ASSUME NEW p \in 0..Size, \E k \in 0..Size : p = k * Half
  PROVE  /\ LoadEnd(p) \in 0..Size
         /\ \E k \in 0..Size : LoadEnd(p) = k * Half
         /\ LoadEnd(p) = p => p = Size
         /\ \/ LoadEnd(p) = p
            \/ LoadEnd(p) = p + Word32
            \/ LoadEnd(p) = p + Half /\ LoadEnd(p) = Size
<1>1. CASE p + Word32 <= Size
  <2>1. LoadEnd(p) = p + Word32
    BY <1>1 DEF LoadEnd
  <2>2. p + Half \in 0..Size /\ (p + Half) + Half <= Size
    BY <1>1, ConstTypes
  <2>3. \E k \in 0..Size : p + Half = k * Half
    BY <2>2, NextWord
  <2>4. \E k \in 0..Size : (p + Half) + Half = k * Half
    BY <2>2, <2>3, NextWord
  <2>5. QED  BY <1>1, <2>1, <2>4, ConstTypes
<1>2. CASE ~(p + Word32 <= Size) /\ p + Half <= Size
  <2>1. LoadEnd(p) = p + Half
    BY <1>2 DEF LoadEnd
  <2>2. \E k \in 0..Size : p + Half = k * Half
    BY <1>2, NextWord
  <2>3. p + Half \in 0..Size
    BY <1>2, ConstTypes
  <2>4. p + Half = Size
    <3>1. SUFFICES ASSUME p + Half < Size PROVE FALSE
      BY <2>3, ConstTypes
    <3>2. (p + Half) + Half <= Size
      BY <3>1, <2>2, <2>3, WordLeft
    <3>3. QED  BY <3>2, <1>2, ConstTypes
  <2>5. QED  BY <2>1, <2>2, <2>3, <2>4, ConstTypes
<1>3. CASE ~(p + Word32 <= Size) /\ ~(p + Half <= Size)
  <2>1. LoadEnd(p) = p
    BY <1>3 DEF LoadEnd
  <2>2. p = Size
    <3>1. ~(p < Size)
      BY <1>3, WordLeft
    <3>2. QED  BY <3>1, ConstTypes
  <2>3. QED  BY <2>1, <2>2, ConstTypes
<1>4. QED  BY <1>1, <1>2, <1>3

LEMMA ReaderInitInv == Init => ReaderIInv
<1> SUFFICES ASSUME Init PROVE ReaderIInv
  OBVIOUS
<1>1. TypeOK
  BY ConstTypes DEF Init, TypeOK, Zeros, Pos, Word32
<1>2. OnWords
  <2>1. 0 = 0 * Half
    BY ConstTypes
  <2>2. QED  BY <2>1, ConstTypes DEF Init, OnWords
<1>3. CountInv /\ WindowInv
  BY ConstTypes DEF Init, CountInv, WindowInv, Zeros, Pos, Word32
<1>4. InOrder /\ OverrunReported
  BY ConstTypes DEF Init, InOrder, OverrunReported
<1>5. QED  BY <1>1, <1>2, <1>3, <1>4, ConstTypes DEF Init, ReaderIInv

(* The windows are functions over the 32 positions. *)
LEMMA WindowTypes ==
  /\ \A v, w \in [Pos -> Int] : Plus(v, w) \in [Pos -> Int]
  /\ \A w \in [Pos -> Int], n \in Nat : ShiftLeft(w, n) \in [Pos -> Int]
  /\ \A w \in [Pos -> Int], n \in Nat : ShiftRight(w, n) \in [Pos -> Int]
  /\ \A p, q \in Int : Loaded(p, q) \in [Pos -> Int]
  /\ Zeros \in [Pos -> Int]
<1>1. \A v, w \in [Pos -> Int] : Plus(v, w) \in [Pos -> Int]
  BY DEF Plus, Clash
<1>2. \A w \in [Pos -> Int], n \in Nat : ShiftLeft(w, n) \in [Pos -> Int]
  BY ConstTypes DEF ShiftLeft, Pos
<1>3. \A w \in [Pos -> Int], n \in Nat : ShiftRight(w, n) \in [Pos -> Int]
  BY ConstTypes DEF ShiftRight, Pos
<1>4. \A p, q \in Int : Loaded(p, q) \in [Pos -> Int]
  BY ConstTypes DEF Loaded, Pos
<1>5. Zeros \in [Pos -> Int]
  BY DEF Zeros
<1>6. QED  BY <1>1, <1>2, <1>3, <1>4, <1>5

(* What no action touches, or only ever raises. *)
LEMMA FurthestFacts ==
  ASSUME TypeOK, NEW n \in Nat
  PROVE  Furthest(n) \in Nat /\ Furthest(n) >= far /\ Furthest(n) >= asked + n
         /\ (Furthest(n) = far \/ Furthest(n) = asked + n)
BY DEF TypeOK, Furthest

(* A call that fails: the end of the span has been asked past. *)
LEMMA FailedCall ==
  ASSUME ReaderIInv, NEW n \in 1..Word32, ~error,
         bits < n, LoadEnd(ptr) = ptr
  PROVE  asked + n > Size
<1>1. ptr = Size
  BY LoadEndFacts DEF ReaderIInv, TypeOK, OnWords
<1>2. QED  BY <1>1, ConstTypes DEF ReaderIInv, TypeOK, CountInv

(* A refill that succeeds: the rest of the window, then the new words. *)
LEMMA RefillWindow ==
  ASSUME ReaderIInv, NEW n \in 1..Word32, ~error, bits < n, LoadEnd(ptr) # ptr
  PROVE  LET q == LoadEnd(ptr)
             v == Plus(bitbuf, ShiftRight(Loaded(ptr, q), bits))
         IN
         /\ asked + bits = ptr /\ bits \in 0..Word32
         /\ ptr < q /\ q <= ptr + Word32
         /\ \A i \in Pos : v[i] = IF asked + i <= q THEN asked + i ELSE 0
         /\ \A i \in Pos : Kept(n)[i] =
              IF asked + n + i <= q THEN asked + n + i ELSE 0
<1> DEFINE q == LoadEnd(ptr)
           v == Plus(bitbuf, ShiftRight(Loaded(ptr, q), bits))
<1>1. /\ q \in 0..Size
      /\ q = ptr + Word32 \/ (q = ptr + Half /\ q = Size)
  BY LoadEndFacts DEF ReaderIInv, TypeOK, OnWords
<1>2. ptr # Size
  BY <1>1, ConstTypes
<1>3. asked + bits = ptr /\ bits \in 0..Word32
  BY <1>2 DEF ReaderIInv, CountInv
<1>4. ptr < q /\ q <= ptr + Word32
  BY <1>1, ConstTypes DEF ReaderIInv, TypeOK
<1>5. \A i \in Pos : bitbuf[i] = IF asked + i <= ptr THEN asked + i ELSE 0
  BY <1>2 DEF ReaderIInv, WindowInv
<1>6. \A i \in Pos : v[i] = IF asked + i <= q THEN asked + i ELSE 0
  <2> SUFFICES ASSUME NEW i \in Pos
               PROVE  v[i] = IF asked + i <= q THEN asked + i ELSE 0
    OBVIOUS
  <2>1. v[i] = IF bitbuf[i] = 0 THEN ShiftRight(Loaded(ptr, q), bits)[i]
               ELSE IF ShiftRight(Loaded(ptr, q), bits)[i] = 0 THEN bitbuf[i]
               ELSE Clash
    BY DEF Plus
  <2>2. ShiftRight(Loaded(ptr, q), bits)[i] =
          IF i > bits THEN Loaded(ptr, q)[i - bits] ELSE 0
    BY DEF ShiftRight
  <2>3. i > bits => Loaded(ptr, q)[i - bits] =
          IF ptr + (i - bits) <= q THEN ptr + (i - bits) ELSE 0
    BY <1>3, ConstTypes DEF Loaded, Pos
  <2>4. i \in 1..Word32 /\ asked \in Nat /\ ptr \in Nat /\ q \in Nat
    BY <1>1, ConstTypes DEF Pos, ReaderIInv, TypeOK
  <2>5. CASE i <= bits
    BY <2>1, <2>2, <2>4, <2>5, <1>3, <1>4, <1>5
  <2>6. CASE i > bits
    BY <2>1, <2>2, <2>3, <2>4, <2>6, <1>3, <1>4, <1>5
  <2>7. QED  BY <2>4, <2>5, <2>6, <1>3
<1>7. \A i \in Pos : Kept(n)[i] =
        IF asked + n + i <= q THEN asked + n + i ELSE 0
  <2> SUFFICES ASSUME NEW i \in Pos
               PROVE  Kept(n)[i] = IF asked + n + i <= q THEN asked + n + i ELSE 0
    OBVIOUS
  <2>1. Kept(n)[i] = IF i + (n - bits) <= Word32
                     THEN Loaded(ptr, q)[i + (n - bits)] ELSE 0
    BY DEF Kept, ShiftLeft
  <2>2. i \in 1..Word32 /\ asked \in Nat /\ ptr \in Nat /\ q \in Nat /\ n \in Nat
    BY <1>1, ConstTypes DEF Pos, ReaderIInv, TypeOK
  <2>3. i + (n - bits) <= Word32 => Loaded(ptr, q)[i + (n - bits)] =
          IF ptr + (i + (n - bits)) <= q THEN ptr + (i + (n - bits)) ELSE 0
    BY <1>3, <2>2, ConstTypes DEF Loaded, Pos
  <2>4. Word32 \in Nat
    BY ConstTypes
  <2>5. ptr + (i + (n - bits)) = asked + n + i
    BY <2>2, <1>3
  <2>6. CASE i + (n - bits) <= Word32
    BY <2>1, <2>3, <2>5, <2>6
  <2>7. CASE ~(i + (n - bits) <= Word32)
    BY <2>1, <2>2, <2>4, <2>5, <2>7, <1>3, <1>4
  <2>8. QED  BY <2>6, <2>7
<1>8. QED  BY <1>3, <1>4, <1>6, <1>7

(* What the window answers while the reader has the bits it was asked for. *)
LEMMA WindowAnswers ==
  ASSUME NEW w, NEW a \in Nat, NEW q \in 0..Size, NEW n \in 1..Word32,
         \A i \in Pos : w[i] = IF a + i <= q THEN a + i ELSE 0,
         a + n <= q \/ q = Size
  PROVE  \A j \in 1..n : w[j] = StreamBit(a + j)
<1> SUFFICES ASSUME NEW j \in 1..n PROVE w[j] = StreamBit(a + j)
  OBVIOUS
<1>1. j \in Pos /\ a + j \in Nat
  BY ConstTypes DEF Pos
<1>2. w[j] = IF a + j <= q THEN a + j ELSE 0
  BY <1>1
<1>3. QED  BY <1>1, <1>2, ConstTypes DEF StreamBit

(* read(n), drop(n): while no error is flagged ... *)
LEMMA ReadSound ==
  ASSUME ReaderIInv, NEW n \in 1..Word32, Read(n), ~error'
  PROVE  CountInv' /\ WindowInv' /\ InOrder' /\ asked' <= Size + Half
<1>0. /\ ~error /\ TypeOK /\ CountInv /\ WindowInv
      /\ n \in Nat /\ asked \in Nat /\ ptr \in 0..Size /\ Word32 \in Nat
      /\ asked' = asked + n /\ asked' \in Nat
  BY ConstTypes DEF Read, Refill, ReaderIInv, TypeOK
<1>1. CASE bits >= n
  <2>1. /\ bits' = bits - n /\ ptr' = ptr
        /\ bitbuf' = ShiftLeft(bitbuf, n)
        /\ got' = [at |-> asked, n |-> n, val |-> bitbuf]
    BY <1>0, <1>1 DEF Read, CountInv
  <2>2. bits \in 0..Word32 /\ bits # 0
    BY <1>0, <1>1 DEF CountInv
  <2>3. \A i \in Pos : bitbuf[i] = IF asked + i <= ptr THEN asked + i ELSE 0
    BY <1>0, <2>2 DEF WindowInv
  <2>4. /\ \/ asked + bits = ptr
           \/ ptr = Size /\ asked + bits = Size + Half
    BY <1>0, <2>2 DEF CountInv
  <2>5. CountInv'
    BY <1>0, <1>1, <2>1, <2>2, <2>4, ConstTypes DEF CountInv
  <2>6. WindowInv'
    <3>1. SUFFICES ASSUME NEW i \in Pos
                   PROVE  bitbuf'[i] = IF asked' + i <= ptr' THEN asked' + i ELSE 0
      BY DEF WindowInv
    <3>2. bitbuf'[i] = IF i + n <= Word32 THEN bitbuf[i + n] ELSE 0
      BY <2>1 DEF ShiftLeft
    <3>3. i \in 1..Word32
      BY DEF Pos
    <3>4. CASE i + n <= Word32
      <4>1. i + n \in Pos
        BY <1>0, <3>3, <3>4 DEF Pos
      <4>2. bitbuf[i + n] = IF asked + (i + n) <= ptr THEN asked + (i + n) ELSE 0
        BY <2>3, <4>1
      <4>3. asked + (i + n) = asked' + i
        BY <1>0, <3>3
      <4>4. QED  BY <3>2, <3>4, <4>2, <4>3, <2>1
    <3>5. CASE i + n > Word32
      BY <1>0, <2>1, <2>2, <2>4, <3>2, <3>3, <3>5, ConstTypes
    <3>6. QED  BY <1>0, <3>3, <3>4, <3>5
  <2>7. InOrder'
    <3>1. asked + n <= ptr \/ ptr = Size
      BY <1>0, <1>1, <2>2, <2>4
    <3>2. \A j \in 1..n : bitbuf[j] = StreamBit(asked + j)
      BY <1>0, <2>3, <3>1, WindowAnswers
    <3>3. QED  BY <2>1, <3>2 DEF InOrder, StreamBit
  <2>8. asked' <= Size + Half
    BY <1>0, <1>1, <2>2, <2>4, ConstTypes
  <2>9. QED  BY <2>5, <2>6, <2>7, <2>8
<1>2. CASE bits < n
  <2> DEFINE q == LoadEnd(ptr)
             v == Plus(bitbuf, ShiftRight(Loaded(ptr, q), bits))
  <2>1. /\ q # ptr /\ ptr' = q /\ bits' = bits - n + Word32
        /\ bitbuf' = Kept(n)
        /\ got' = [at |-> asked, n |-> n, val |-> v]
    BY <1>0, <1>2 DEF Read, Refill, CountInv
  <2>2. /\ q \in 0..Size
        /\ q = ptr + Word32 \/ (q = ptr + Half /\ q = Size)
    BY <2>1, LoadEndFacts DEF ReaderIInv, TypeOK, OnWords
  <2>3. /\ asked + bits = ptr /\ bits \in 0..Word32
        /\ \A i \in Pos : v[i] = IF asked + i <= q THEN asked + i ELSE 0
        /\ \A i \in Pos : Kept(n)[i] =
             IF asked + n + i <= q THEN asked + n + i ELSE 0
    BY <1>0, <1>2, <2>1, RefillWindow
  <2>4. CountInv'
    BY <1>0, <1>2, <2>1, <2>2, <2>3, ConstTypes DEF CountInv
  <2>5. WindowInv'
    BY <1>0, <2>1, <2>3 DEF WindowInv
  <2>6. asked + n <= q \/ q = Size
    BY <1>0, <2>2, <2>3
  <2>7. \A j \in 1..n : v[j] = StreamBit(asked + j)
    <3> HIDE DEF v, q
    <3> QED  BY <1>0, <2>2, <2>3, <2>6, WindowAnswers
  <2>8. InOrder'
    BY <2>1, <2>7 DEF InOrder, StreamBit
  <2>9. asked' <= Size + Half
    BY <1>0, <1>2, <2>2, <2>3, ConstTypes
  <2>10. QED  BY <2>4, <2>5, <2>8, <2>9
<1>3. QED  BY <1>0, <1>1, <1>2 DEF CountInv

(* ... and an error is flagged only for bits behind the end. *)
LEMMA ReadInv ==
  ASSUME ReaderIInv, NEW n \in 1..Word32, Read(n)
  PROVE  ReaderIInv'
<1>1. n \in Nat /\ TypeOK /\ asked' = asked + n /\ far' = Furthest(n) /\ odd' = odd
  BY ConstTypes DEF ReaderIInv, Read
<1>2. LoadEnd(ptr) \in 0..Size /\ \E k \in 0..Size : LoadEnd(ptr) = k * Half
  BY LoadEndFacts DEF ReaderIInv, TypeOK, OnWords
<1>3. TypeOK'
  <2>1. asked' \in Nat /\ far' \in Nat /\ odd' \in BOOLEAN /\ Word32 \in Nat
    BY <1>1, FurthestFacts, ConstTypes DEF TypeOK
  <2>2. CASE bits >= n
    <3>1. ShiftLeft(bitbuf, n) \in [Pos -> Int]
      BY <1>1, WindowTypes DEF TypeOK
    <3>2. QED
      BY <1>1, <2>1, <2>2, <3>1 DEF Read, Refill, TypeOK
  <2>3. CASE bits < n /\ (error \/ LoadEnd(ptr) = ptr)
    <3>1. Zeros \in [Pos -> Int]
      BY WindowTypes
    <3>2. ~(bits >= n)
      BY <1>1, <2>3 DEF TypeOK
    <3>3. /\ error' = TRUE /\ bits' = bits - n
          /\ ptr' = ptr /\ bitbuf' = bitbuf
          /\ got' = [at |-> asked, n |-> n, val |-> Zeros]
      BY <2>3, <3>2 DEF Read, Refill
    <3>4. QED
      BY <1>1, <2>1, <3>1, <3>3 DEF TypeOK
  <2>4. CASE bits < n /\ ~error /\ LoadEnd(ptr) # ptr
    <3>1. bits \in Nat
      BY <2>4 DEF ReaderIInv, CountInv
    <3>2. Loaded(ptr, LoadEnd(ptr)) \in [Pos -> Int]
      BY <1>1, <1>2, WindowTypes DEF TypeOK
    <3>3. Kept(n) \in [Pos -> Int]
      <4>1. n - bits \in Nat
        BY <1>1, <2>4, <3>1
      <4>2. QED  BY <3>2, <4>1, WindowTypes DEF Kept
    <3>4. Plus(bitbuf, ShiftRight(Loaded(ptr, LoadEnd(ptr)), bits)) \in [Pos -> Int]
      BY <1>1, <3>1, <3>2, WindowTypes DEF TypeOK
    <3>5. QED
      BY <1>1, <1>2, <2>1, <2>4, <3>3, <3>4 DEF Read, Refill, TypeOK
  <2>5. QED
    BY <1>1, <2>2, <2>3, <2>4 DEF TypeOK
<1>4. asked' <= far'
  BY <1>1, FurthestFacts
<1>5. OnWords'
  BY <1>2 DEF Read, Refill, ReaderIInv, OnWords
<1>6. ~error' => CountInv' /\ WindowInv'
  BY ReadSound
<1>7. InOrder'
  <2>1. CASE error'
    BY <2>1 DEF InOrder
  <2>2. QED  BY <2>1, ReadSound
<1>8. OverrunReported'
  <2> SUFFICES ASSUME ~odd
               PROVE  /\ error' => far' > Size
                      /\ far' > Size + Half => error'
    BY <1>1 DEF OverrunReported
  <2>1. ASSUME error' PROVE far' > Size
    <3>1. CASE error
      BY <1>1, <3>1, FurthestFacts, ConstTypes DEF ReaderIInv, OverrunReported, TypeOK
    <3>2. CASE ~error
      <4>1. bits < n /\ LoadEnd(ptr) = ptr
        BY <2>1, <3>2 DEF Read, Refill
      <4>2. asked + n > Size
        BY <3>2, <4>1, FailedCall
      <4>3. QED  BY <1>1, <4>2, FurthestFacts, ConstTypes DEF TypeOK
    <3>3. QED  BY <3>1, <3>2
  <2>2. ASSUME ~error' PROVE ~(far' > Size + Half)
    <3>1. ~error /\ ~(far > Size + Half)
      BY <2>2 DEF Read, Refill, ReaderIInv, OverrunReported
    <3>2. asked + n <= Size + Half
      BY <1>1, <2>2, ReadSound
    <3>3. Furthest(n) = far \/ Furthest(n) = asked + n
      BY <1>1, FurthestFacts
    <3>4. Size + Half \in Nat /\ asked + n \in Nat
      BY <1>1, ConstTypes DEF TypeOK
    <3>5. QED  BY <1>1, <3>1, <3>2, <3>3, <3>4
  <2>3. QED  BY <2>1, <2>2
<1>9. QED  BY <1>3, <1>4, <1>5, <1>6, <1>7, <1>8 DEF ReaderIInv

(* peek(n). *)
LEMMA PeekInv ==
  ASSUME ReaderIInv, NEW n \in 1..Word32, Peek(n)
  PROVE  ReaderIInv'
<1>0. /\ n \in 1..Half /\ n \in Nat /\ TypeOK /\ Word32 \in Nat /\ asked \in Nat
      /\ asked' = asked /\ odd' = odd /\ far' = Furthest(n)
      /\ got' = [at |-> asked, n |-> n, val |-> bitbuf']
  BY ConstTypes DEF ReaderIInv, Peek, TypeOK
<1>1. CASE bits >= n \/ error
  <2>1. ptr' = ptr /\ bitbuf' = bitbuf /\ bits' = bits /\ error' = error
    BY <1>0, <1>1 DEF Peek, TypeOK
  <2>2. TypeOK'
    BY <1>0, <2>1, FurthestFacts DEF TypeOK
  <2>3. asked' <= far' /\ OnWords'
    BY <1>0, <2>1, FurthestFacts DEF ReaderIInv, OnWords, TypeOK
  <2>4. ~error' => CountInv' /\ WindowInv'
    BY <1>0, <2>1 DEF ReaderIInv, CountInv, WindowInv
  <2>5. ASSUME ~error
        PROVE  /\ \A j \in 1..n : bitbuf[j] = StreamBit(asked + j)
               /\ asked + n <= Size + Half
    <3>1. bits # 0 /\ bits >= n
      BY <1>0, <1>1, <2>5
    <3>2. \A i \in Pos : bitbuf[i] = IF asked + i <= ptr THEN asked + i ELSE 0
      BY <2>5, <3>1 DEF ReaderIInv, WindowInv
    <3>3. \/ asked + bits = ptr
          \/ ptr = Size /\ asked + bits = Size + Half
      BY <2>5, <3>1 DEF ReaderIInv, CountInv
    <3>4. ptr \in 0..Size /\ (asked + n <= ptr \/ ptr = Size)
      BY <1>0, <3>1, <3>3 DEF TypeOK
    <3>5. \A j \in 1..n : bitbuf[j] = StreamBit(asked + j)
      BY <1>0, <3>2, <3>4, WindowAnswers
    <3>6. asked + n <= Size + Half
      BY <1>0, <3>1, <3>3, <3>4, ConstTypes DEF TypeOK
    <3>7. QED  BY <3>5, <3>6
  <2>6. InOrder'
    BY <1>0, <2>1, <2>5 DEF InOrder, StreamBit
  <2>7. OverrunReported'
    <3>1. Furthest(n) \in Nat /\ Size + Half \in Nat /\ far \in Nat /\ asked + n \in Nat
      BY <1>0, FurthestFacts, ConstTypes DEF TypeOK
    <3>2. Furthest(n) >= far /\ (Furthest(n) = far \/ Furthest(n) = asked + n)
      BY <1>0, FurthestFacts
    <3>3. QED
      BY <1>0, <2>1, <2>5, <3>1, <3>2, ConstTypes DEF ReaderIInv, OverrunReported
  <2>8. QED  BY <2>2, <2>3, <2>4, <2>6, <2>7 DEF ReaderIInv
<1>2. CASE bits < n /\ ~error /\ ptr + Half > Size
  <2>1. ptr' = ptr /\ bitbuf' = bitbuf /\ bits' = bits /\ error' = TRUE
    BY <1>0, <1>2, ConstTypes DEF Peek, TypeOK
  <2>2. TypeOK'
    BY <1>0, <2>1, FurthestFacts DEF TypeOK
  <2>3. asked' <= far' /\ OnWords'
    BY <1>0, <2>1, FurthestFacts DEF ReaderIInv, OnWords, TypeOK
  <2>4. ptr = Size
    <3>1. ptr \in 0..Size /\ \E k \in 0..Size : ptr = k * Half
      BY DEF ReaderIInv, TypeOK, OnWords
    <3>2. ~(ptr < Size)
      BY <1>2, <3>1, WordLeft, ConstTypes
    <3>3. QED  BY <3>1, <3>2, ConstTypes
  <2>5. asked + n > Size
    BY <1>0, <1>2, <2>4, ConstTypes DEF ReaderIInv, CountInv
  <2>6. far' > Size
    BY <1>0, <2>5, FurthestFacts, ConstTypes
  <2>7. QED
    BY <2>1, <2>2, <2>3, <2>6 DEF ReaderIInv, InOrder, OverrunReported
<1>3. CASE bits < n /\ ~error /\ ptr + Half <= Size
  <2> DEFINE r == ptr + Half
             v == Plus(bitbuf, ShiftRight(Loaded(ptr, r), bits))
  <2>1. ptr' = r /\ bits' = bits + Half /\ bitbuf' = v /\ error' = error
    BY <1>0, <1>3, ConstTypes DEF Peek, TypeOK
  <2>2. /\ ptr # Size /\ asked + bits = ptr /\ bits \in 0..Word32
        /\ r \in 0..Size /\ ptr \in Nat
    BY <1>0, <1>3, ConstTypes DEF ReaderIInv, CountInv, TypeOK
  <2>3. \A i \in Pos : bitbuf[i] = IF asked + i <= ptr THEN asked + i ELSE 0
    BY <1>3, <2>2 DEF ReaderIInv, WindowInv
  <2>4. \A i \in Pos : v[i] = IF asked + i <= r THEN asked + i ELSE 0
    <3> SUFFICES ASSUME NEW i \in Pos
                 PROVE  v[i] = IF asked + i <= r THEN asked + i ELSE 0
      OBVIOUS
    <3>1. v[i] = IF bitbuf[i] = 0 THEN ShiftRight(Loaded(ptr, r), bits)[i]
                 ELSE IF ShiftRight(Loaded(ptr, r), bits)[i] = 0 THEN bitbuf[i]
                 ELSE Clash
      BY DEF Plus
    <3>2. ShiftRight(Loaded(ptr, r), bits)[i] =
            IF i > bits THEN Loaded(ptr, r)[i - bits] ELSE 0
      BY DEF ShiftRight
    <3>3. i > bits => Loaded(ptr, r)[i - bits] =
            IF ptr + (i - bits) <= r THEN ptr + (i - bits) ELSE 0
      BY <2>2, ConstTypes DEF Loaded, Pos
    <3>4. i \in 1..Word32
      BY DEF Pos
    <3>5. CASE i <= bits
      BY <1>0, <2>2, <2>3, <3>1, <3>2, <3>4, <3>5, ConstTypes
    <3>6. CASE i > bits
      BY <1>0, <2>2, <2>3, <3>1, <3>2, <3>3, <3>4, <3>6, ConstTypes
    <3>7. QED  BY <1>0, <2>2, <3>4, <3>5, <3>6
  <2>5. TypeOK'
    <3>1. Loaded(ptr, r) \in [Pos -> Int]
      BY <2>2, WindowTypes
    <3>2. ShiftRight(Loaded(ptr, r), bits) \in [Pos -> Int]
      <4>1. bits \in Nat
        BY <2>2
      <4>2. QED  BY <3>1, <4>1, WindowTypes
    <3>3. v \in [Pos -> Int]
      BY <1>0, <3>2, WindowTypes DEF TypeOK
    <3>4. QED
      BY <1>0, <2>1, <2>2, <3>3, FurthestFacts, ConstTypes DEF TypeOK
  <2>6. asked' <= far'
    BY <1>0, FurthestFacts DEF ReaderIInv
  <2>7. OnWords'
    BY <1>0, <1>3, <2>1, NextWord DEF ReaderIInv, OnWords, TypeOK
  <2>8. CountInv' /\ WindowInv'
    BY <1>0, <1>3, <2>1, <2>2, <2>4, ConstTypes DEF CountInv, WindowInv
  <2>9. asked + n <= r
    BY <1>0, <2>2, ConstTypes
  <2>10. InOrder'
    <3>1. \A j \in 1..n : v[j] = StreamBit(asked + j)
      <4> HIDE DEF v, r
      <4> QED  BY <1>0, <2>2, <2>4, <2>9, WindowAnswers
    <3>2. QED  BY <1>0, <2>1, <3>1 DEF InOrder, StreamBit
  <2>11. OverrunReported'
    <3>1. Furthest(n) = far \/ Furthest(n) = asked + n
      BY <1>0, FurthestFacts
    <3>2. ~error' /\ (~odd => ~(far > Size + Half))
      BY <1>3, <2>1 DEF ReaderIInv, OverrunReported
    <3>3. ~odd => ~(Furthest(n) > Size + Half)
      BY <1>0, <2>2, <2>9, <3>1, <3>2, ConstTypes
    <3>4. QED  BY <1>0, <3>2, <3>3 DEF OverrunReported
  <2>12. QED  BY <2>5, <2>6, <2>7, <2>8, <2>10, <2>11 DEF ReaderIInv
<1>4. QED
  <2>1. (bits >= n \/ bits < n) /\ (ptr + Half > Size \/ ptr + Half <= Size)
    BY <1>0, ConstTypes DEF TypeOK
  <2>2. QED  BY <1>1, <1>2, <1>3, <2>1

(* seek_bits(b): the bit offset inside the word. *)
LEMMA SeekStart ==
  ASSUME NEW b \in Nat
  PROVE  /\ b % Half \in 0..(Half - 1)
         /\ b - (b % Half) \in Nat
         /\ \E k \in Nat : b - (b % Half) = k * Half
<1>1. b % Half \in 0..(Half - 1) /\ b = (b \div Half) * Half + (b % Half)
  BY ConstTypes
<1>2. b \div Half \in Nat
  BY ConstTypes
<1>3. (b \div Half) * Half \in Nat
  BY <1>2, ConstTypes
<1>4. b - (b % Half) = (b \div Half) * Half
  BY <1>1, <1>3, ConstTypes
<1>5. QED  BY <1>1, <1>2, <1>3, <1>4

LEMMA SeekInv ==
  ASSUME ReaderIInv, NEW b \in Nat, Seek(b)
  PROVE  ReaderIInv'
<1> DEFINE s == b % Half
           start == b - s
           q == LoadEnd(start)
<1>1. s \in 0..(Half - 1) /\ start \in Nat /\ b = start + s
  BY SeekStart
<1>2. PICK k \in Nat : start = k * Half
  BY SeekStart
<1>3. /\ asked' = b /\ odd' = odd /\ far' \in Nat /\ far' >= far /\ far' >= b
      /\ far' = far \/ far' = b
      /\ got' = [at |-> b, n |-> 0, val |-> Zeros]
  BY DEF Seek, ReaderIInv, TypeOK
<1>4. InOrder' /\ asked' <= far' /\ got' \in [at : Nat, n : 0..Word32, val : [Pos -> Int]]
  <2>1. Zeros \in [Pos -> Int]
    BY WindowTypes
  <2>2. 0 \in 0..Word32
    BY ConstTypes
  <2>3. QED  BY <1>3, <2>1, <2>2 DEF InOrder
<1>5. CASE start >= Size
  <2>1. /\ ptr' = Size /\ bitbuf' = bitbuf
        /\ bits' = IF start = Size THEN 0 ELSE -Word32
        /\ error' = (error \/ start # Size)
    <3>1. ~(start < Size)
      BY <1>1, <1>5, ConstTypes
    <3>2. QED  BY <3>1 DEF Seek
  <2>2. TypeOK'
    BY <1>3, <1>4, <2>1, ConstTypes DEF ReaderIInv, TypeOK
  <2>3. OnWords'
    BY <2>1, ReaderAssumption DEF OnWords
  <2>4. ~error' => CountInv' /\ WindowInv'
    <3> HIDE DEF s, start
    <3> SUFFICES ASSUME ~error' PROVE CountInv' /\ WindowInv'
      OBVIOUS
    <3>1. start = Size /\ bits' = 0 /\ ptr' = Size
      BY <2>1
    <3>2. asked' \in Size..(Size + Half)
      BY <1>1, <1>3, <3>1, ConstTypes
    <3>3. 0 \in 0..Word32
      BY ConstTypes
    <3>4. CountInv'
      BY <3>1, <3>2, <3>3 DEF CountInv
    <3>5. WindowInv'
      BY <3>1 DEF WindowInv
    <3>6. QED  BY <3>4, <3>5
  <2>5. OverrunReported'
    <3>1. start # Size => start > Size
      BY <1>1, <1>5, ConstTypes
    <3>2. start = Size => ~(b > Size + Half)
      BY <1>1, ConstTypes
    <3>3. far \in Nat /\ Size + Half \in Nat
      BY ConstTypes DEF ReaderIInv, TypeOK
    <3> HIDE DEF s, start
    <3>4. error' => error \/ b > Size
      <4>1. start > Size => b > Size
        BY <1>1, ConstTypes
      <4>2. QED  BY <2>1, <3>1, <4>1
    <3>5. b > Size + Half => error'
      BY <2>1, <3>2
    <3>6. ~odd => (error => far > Size) /\ (far > Size + Half => error)
      BY DEF ReaderIInv, OverrunReported
    <3>7. error => error'
      BY <2>1
    <3>8. QED
      BY <1>1, <1>3, <3>3, <3>4, <3>5, <3>6, <3>7, ConstTypes DEF OverrunReported
  <2>6. QED  BY <1>4, <2>2, <2>3, <2>4, <2>5 DEF ReaderIInv
<1>6. CASE start < Size
  <2>1. /\ ptr' = q /\ bitbuf' = ShiftLeft(Loaded(start, q), s)
        /\ bits' = (q - start) - s /\ error' = error
    <3>1. ~(start >= Size)
      BY <1>1, <1>6, ConstTypes
    <3>2. QED  BY <3>1 DEF Seek
  <2>2. start \in 0..Size /\ \E m \in 0..Size : start = m * Half
    <3>1. k <= k * Half
      BY ConstTypes
    <3>2. QED  BY <1>1, <1>2, <1>6, <3>1, ConstTypes
  <2>3. /\ q \in 0..Size /\ \E m \in 0..Size : q = m * Half
        /\ q = start + Word32 \/ (q = start + Half /\ q = Size)
    <3>1. start # Size
      BY <1>1, <1>6, ConstTypes
    <3>2. QED  BY <2>2, <3>1, LoadEndFacts
  <2>4. TypeOK'
    <3>1. Loaded(start, q) \in [Pos -> Int]
      BY <2>2, <2>3, WindowTypes
    <3>2. ShiftLeft(Loaded(start, q), s) \in [Pos -> Int]
      <4>1. s \in Nat
        BY <1>1, ConstTypes
      <4>2. QED  BY <3>1, <4>1, WindowTypes
    <3>3. (q - start) - s \in Int
      BY <1>1, <2>3
    <3>4. QED  BY <1>3, <1>4, <2>1, <2>3, <3>2, <3>3 DEF ReaderIInv, TypeOK
  <2>5. OnWords'
    BY <2>1, <2>3 DEF OnWords
  <2>6. CountInv'
    BY <1>1, <1>3, <2>1, <2>3, ConstTypes DEF CountInv
  <2>7. WindowInv'
    <3>1. SUFFICES ASSUME NEW i \in Pos
                   PROVE  bitbuf'[i] = IF b + i <= q THEN b + i ELSE 0
      BY <1>3, <2>1 DEF WindowInv
    <3>2. bitbuf'[i] = IF i + s <= Word32 THEN Loaded(start, q)[i + s] ELSE 0
      BY <2>1 DEF ShiftLeft
    <3>3. i \in 1..Word32
      BY DEF Pos
    <3>4. CASE i + s <= Word32
      <4>1. i + s \in Pos
        BY <1>1, <3>3, <3>4, ConstTypes DEF Pos
      <4>2. Loaded(start, q)[i + s] =
              IF start + (i + s) <= q THEN start + (i + s) ELSE 0
        BY <4>1 DEF Loaded
      <4>3. start + (i + s) = b + i
        BY <1>1, <3>3
      <4>4. QED  BY <3>2, <3>4, <4>2, <4>3
    <3>5. CASE i + s > Word32
      <4>1. ~(b + i <= q)
        BY <1>1, <2>3, <3>3, <3>5, ConstTypes
      <4>2. ~(i + s <= Word32)
        BY <1>1, <3>3, <3>5, ConstTypes
      <4>3. QED  BY <3>2, <4>1, <4>2
    <3>6. QED  BY <1>1, <3>3, <3>4, <3>5, ConstTypes
  <2>8. OverrunReported'
    <3>1. ~(b > Size + Half)
      BY <1>1, <1>6, ConstTypes
    <3>2. far \in Nat /\ Size + Half \in Nat
      BY ConstTypes DEF ReaderIInv, TypeOK
    <3>3. QED
      BY <1>1, <1>3, <2>1, <3>1, <3>2, ConstTypes DEF ReaderIInv, OverrunReported
  <2>9. QED  BY <1>4, <2>4, <2>5, <2>6, <2>7, <2>8 DEF ReaderIInv
<1>7. QED  BY <1>1, <1>5, <1>6, ConstTypes

LEMMA StutterInv == ReaderIInv /\ UNCHANGED vars => ReaderIInv'
BY DEF ReaderIInv, vars, TypeOK, OnWords, CountInv, WindowInv, InOrder, OverrunReported,
       StreamBit

-----------------------------------------------------------------------------
(* akc_codec.BitReader: every reachable state satisfies the invariant. *)
THEOREM ReaderInvariant == Spec => []ReaderIInv
<1>1. ReaderIInv /\ [Next]_vars => ReaderIInv'
  <2> SUFFICES ASSUME ReaderIInv, [Next]_vars PROVE ReaderIInv'
    OBVIOUS
  <2>1. ASSUME NEW n \in Widths, Read(n) PROVE ReaderIInv'
    BY <2>1, ReadInv, ConstTypes
  <2>2. ASSUME NEW n \in Widths, Peek(n) PROVE ReaderIInv'
    BY <2>2, PeekInv, ConstTypes
  <2>3. QED  BY <2>1, <2>2, StutterInv DEF Next, Consume, LookAhead
<1>2. QED  BY ReaderInitInv, <1>1, PTL DEF Spec

(* portable_akc.LookupBitReader: the same, with seeks. *)
THEOREM LookupInvariant == LookupSpec => []ReaderIInv
<1>1. ReaderIInv /\ [LookupNext]_vars => ReaderIInv'
  <2> SUFFICES ASSUME ReaderIInv, [LookupNext]_vars PROVE ReaderIInv'
    OBVIOUS
  <2>1. ASSUME NEW n \in Widths, Read(n) PROVE ReaderIInv'
    BY <2>1, ReadInv, ConstTypes
  <2>2. ASSUME NEW b \in 0..MaxAsked, Seek(b) PROVE ReaderIInv'
    BY <2>2, SeekInv, ReaderAssumption
  <2>3. QED  BY <2>1, <2>2, StutterInv DEF LookupNext, Consume, Reposition
<1>2. LookupInit => ReaderIInv
  BY ReaderInitInv DEF LookupInit
<1>3. QED  BY <1>1, <1>2, PTL DEF LookupSpec

(* Any mix of reads and peeks delivers the stream bits in order. *)
THEOREM ReaderInOrder == Spec => []InOrder
<1>1. ReaderIInv => InOrder
  BY DEF ReaderIInv
<1>2. QED  BY ReaderInvariant, <1>1, PTL

(* So does any mix of reads and seeks. *)
THEOREM LookupInOrder == LookupSpec => []InOrder
<1>1. ReaderIInv => InOrder
  BY DEF ReaderIInv
<1>2. QED  BY LookupInvariant, <1>1, PTL

(* The error flag means an overrun, and an overrun of more than one word   *)
(* is always flagged.                                                      *)
THEOREM ReaderOverrun == Spec => []OverrunReported
<1>1. ReaderIInv => OverrunReported
  BY DEF ReaderIInv
<1>2. QED  BY ReaderInvariant, <1>1, PTL

(* The same for the seekable reader. *)
THEOREM LookupOverrun == LookupSpec => []OverrunReported
<1>1. ReaderIInv => OverrunReported
  BY DEF ReaderIInv
<1>2. QED  BY LookupInvariant, <1>1, PTL

-----------------------------------------------------------------------------
(* The walk over the seek table, for every size of the groups and of the   *)
(* table, every set of keys and faults and every query: what it answers    *)
(* when all records can be read, and what a fault can not spoil.           *)
WalkTypes ==
  /\ seekTable \in Tables
  /\ query.start \in Int /\ query.count \in Int /\ query.lookup \in BOOLEAN
  /\ query.lookup => query.count = 1
  /\ walkPhase \in {"walking", "returned", "raised"} /\ walkError \in BOOLEAN
  /\ entry \in Nat /\ place \in Nat /\ key \in Int
  /\ walked \subseteq 1..Records
  /\ windows \in Seq([key : Int, win : Int, at : Int])

(* The walk takes one record after the other, over all groups.             *)
AtRecord ==
  walkPhase = "walking" =>
    /\ Records > 0 /\ entry <= LastEntry /\ place < GroupCount
    /\ Record \in 1..Records /\ walked = 1..(Record - 1)

Faulty(i) == seekTable.faults[i] # "none"

(* The flag is up behind the first fault, and stays.                       *)
ErrorInv == walkError <=> HeaderBroken \/ \E i \in walked : Faulty(i)

(* Each group begins with the key of its entry.                            *)
GroupKeyInv == walkPhase = "walking" /\ place = 0 => key = seekTable.keys[Record]

(* Keys are distinct: as many windows as the range has keys are the range. *)
Spread(list) == \A n \in DOMAIN list : query.start + n - 1 <= list[n].key

WantedBefore(last) == {i \in 1..last : IsWanted(i)}
RightSoFar ==
  walkPhase = "walking" /\ ~walkError =>
    /\ key = seekTable.keys[Record]
    /\ Lists(windows, WantedBefore(Record - 1)) /\ Spread(windows)

WindowRight(w) ==
  /\ w.win # NoFields
  /\ Reached(w.at) => w.key = seekTable.keys[w.at] /\ (Readable(w.at) => w.win = w.at)
  /\ ~Reached(w.at) => ~NoPrimary /\ w.win \in {Garbage} \cup ({w.at} \cap seekTable.primary)
  /\ w.at \in {FirstRecord(e) : e \in 0..LastEntry} => w.key = seekTable.keys[w.at]
WindowsInv == \A n \in DOMAIN windows : WindowRight(windows[n])

EndInv ==
  ~walkError =>
    /\ walkPhase = "returned" => Lists(windows, Wanted)
    /\ walkPhase = "raised" => query.lookup /\ Wanted = {}

TableIInv ==
  WalkTypes /\ AtRecord /\ ErrorInv /\ GroupKeyInv /\ RightSoFar /\ WindowsInv /\ EndInv

-----------------------------------------------------------------------------
(* A number and its parts by the size of a group.                          *)
LEMMA Parts ==
  ASSUME NEW G \in Nat \ {0}, NEW x \in Nat
  PROVE  /\ x \div G \in Nat /\ x % G \in 0..(G - 1)
         /\ x = G * (x \div G) + (x % G)
OBVIOUS

LEMMA TimesMonotonic ==
  ASSUME NEW G \in Nat, NEW a \in Int, NEW b \in Int, a <= b
  PROVE  G * a <= G * b
<1>1. b - a \in Nat
  OBVIOUS
<1>2. G * (b - a) \in Nat
  BY <1>1
<1>3. G * (b - a) = G * b - G * a
  OBVIOUS
<1>4. G * a \in Int /\ G * b \in Int
  OBVIOUS
<1>5. QED  BY <1>2, <1>3, <1>4

LEMMA TableFacts ==
  ASSUME WalkTypes
  PROVE  /\ Group \in Nat /\ Group > 1
         /\ Records \in Nat /\ DOMAIN seekTable.keys = 1..Records
         /\ \A i \in 1..Records : /\ seekTable.keys[i] \in Nat
                                  /\ seekTable.faults[i] \in {"none", "index", "overrun", "delta"}
         /\ \A i, j \in 1..Records : i < j => seekTable.keys[i] < seekTable.keys[j]
<1>1. seekTable \in Tables
  BY DEF WalkTypes
<1>2. /\ seekTable.keys \in Seq(Nat) /\ DOMAIN seekTable.faults = DOMAIN seekTable.keys
      /\ \A i, j \in DOMAIN seekTable.keys : i < j => seekTable.keys[i] < seekTable.keys[j]
      /\ \A i \in DOMAIN seekTable.keys : seekTable.faults[i] \in {"none", "index", "overrun", "delta"}
  BY <1>1, TableAssumption
<1>3. Records \in Nat /\ DOMAIN seekTable.keys = 1..Records
  BY <1>2, LenProperties DEF Records
<1>4. \A i \in 1..Records : seekTable.keys[i] \in Nat
  BY <1>2, <1>3, ElementOfSeq DEF Records
<1>5. Group \in Nat /\ Group > 1
  BY TableAssumption
<1>6. \A i \in 1..Records : seekTable.faults[i] \in {"none", "index", "overrun", "delta"}
  BY <1>2, <1>3
<1>7. \A i, j \in 1..Records : i < j => seekTable.keys[i] < seekTable.keys[j]
  BY <1>2, <1>3
<1>8. QED  BY <1>3, <1>4, <1>5, <1>6, <1>7

(* The groups lie one behind the other, and the last one holds the last    *)
(* record: full groups, a remainder if there is one, and a single record.  *)
LEMMA LayoutFacts ==
  ASSUME Group \in Nat, Group > 1, Records \in Nat, Records > 0
  PROVE  /\ LastEntry \in Nat /\ FirstRecord(0) = 1
         /\ \A e \in Nat : e <= LastEntry => FirstRecord(e) \in 1..Records
         /\ entry \in Nat /\ entry <= LastEntry =>
              /\ GroupCount \in Nat /\ GroupCount > 0
              /\ entry = LastEntry => FirstRecord(entry) = Records /\ GroupCount = 1
              /\ entry < LastEntry => FirstRecord(entry) + GroupCount = FirstRecord(entry + 1)
<1>0. PICK G, N, L, q, r : /\ G = Group /\ N = Records /\ L = LastEntry
                           /\ q = (N - 1) \div G /\ r = (N - 1) % G
  OBVIOUS
<1>1. /\ G \in Nat /\ G > 1 /\ N \in Nat /\ N > 0 /\ G \in Nat \ {0} /\ N - 1 \in Nat
      /\ N + G - 2 \in Nat /\ L = (N + G - 2) \div G
  BY <1>0 DEF LastEntry
<1>2. q \in Nat /\ r \in 0..(G - 1) /\ N - 1 = G * q + r /\ G * q \in Nat
  <2>1. PICK x : x = N - 1
    OBVIOUS
  <2>2. x \in Nat /\ q = x \div G /\ r = x % G
    BY <1>0, <1>1, <2>1
  <2>3. q \in Nat /\ r \in 0..(G - 1) /\ x = G * q + r
    BY <1>1, <2>2, Parts
  <2>4. QED  BY <1>1, <2>1, <2>3
<1>3. L \in Nat /\ G * L \in Nat /\ G * L <= N + G - 2 /\ N + G - 2 < G * L + G
  <2>1. PICK m : m = (N + G - 2) % G
    OBVIOUS
  <2>2. L \in Nat /\ m \in 0..(G - 1) /\ N + G - 2 = G * L + m
    BY <1>1, <2>1, Parts
  <2>3. G * L \in Nat
    BY <1>1, <2>2
  <2>4. QED  BY <1>1, <2>2, <2>3
<1>4. G * (q + 1) = G * q + G /\ G * (L + 1) = G * L + G /\ G * (L - 1) = G * L - G
  BY <1>1, <1>2, <1>3
<1>5. L = IF r = 0 THEN q ELSE q + 1
  <2>1. ~(L < q)
    <3>1. SUFFICES ASSUME L < q PROVE FALSE
      OBVIOUS
    <3>2. L + 1 <= q
      BY <1>2, <1>3, <3>1
    <3>3. G * (L + 1) <= G * q
      BY <1>1, <1>2, <1>3, <3>2, TimesMonotonic
    <3>4. QED  BY <1>1, <1>2, <1>3, <1>4, <3>3
  <2>2. CASE r = 0
    <3>1. ~(L > q)
      <4>1. SUFFICES ASSUME L > q PROVE FALSE
        OBVIOUS
      <4>2. q + 1 <= L
        BY <1>2, <1>3, <4>1
      <4>3. G * (q + 1) <= G * L
        BY <1>1, <1>2, <1>3, <4>2, TimesMonotonic
      <4>4. QED  BY <1>1, <1>2, <1>3, <1>4, <2>2, <4>3
    <3>2. QED  BY <1>2, <1>3, <2>1, <2>2, <3>1
  <2>3. CASE r # 0
    <3>1. ~(L > q + 1)
      <4>1. SUFFICES ASSUME L > q + 1 PROVE FALSE
        OBVIOUS
      <4>2. q + 1 <= L - 1
        BY <1>2, <1>3, <4>1
      <4>3. G * (q + 1) <= G * (L - 1)
        BY <1>1, <1>2, <1>3, <4>2, TimesMonotonic
      <4>4. QED  BY <1>1, <1>2, <1>3, <1>4, <2>3, <4>3
    <3>2. L # q
      BY <1>1, <1>2, <1>3, <2>3
    <3>3. QED  BY <1>2, <1>3, <2>1, <2>3, <3>1, <3>2
  <2>4. QED  BY <1>2, <2>2, <2>3
<1>6. ASSUME NEW e \in Nat, e < L
      PROVE  /\ FirstRecord(e) = G * e + 1 /\ G * e \in Nat /\ G * e <= G * (L - 1)
             /\ G * (e + 1) = G * e + G
  <2>1. e <= L - 1
    BY <1>3, <1>6
  <2>2. e * Group = G * e
    BY <1>0, <1>1
  <2>3. G * e <= G * (L - 1)
    BY <1>1, <1>3, <2>1, TimesMonotonic
  <2>4. QED  BY <1>0, <1>1, <1>6, <2>2, <2>3 DEF FirstRecord
<1>7. FirstRecord(L) = N
  BY <1>0 DEF FirstRecord
<1>8. FirstRecord(0) = 1
  <2>1. CASE L = 0
    <3>1. G * L = 0
      BY <1>1, <2>1
    <3>2. QED  BY <1>1, <1>3, <1>7, <2>1, <3>1
  <2>2. CASE L # 0
    <3>1. FirstRecord(0) = G * 0 + 1
      BY <1>3, <1>6, <2>2
    <3>2. QED  BY <1>1, <3>1
  <2>3. QED  BY <2>1, <2>2
<1>9. ASSUME NEW e \in Nat, e <= L PROVE FirstRecord(e) \in 1..N
  <2>1. CASE e = L
    BY <1>1, <1>7, <2>1
  <2>2. CASE e < L
    BY <1>1, <1>3, <1>4, <1>6, <2>2
  <2>3. QED  BY <1>3, <1>9, <2>1, <2>2
<1>10. ASSUME NEW e \in Nat, e = entry, e <= L
       PROVE  /\ GroupCount \in Nat /\ GroupCount > 0
              /\ e = L => FirstRecord(e) = N /\ GroupCount = 1
              /\ e < L => FirstRecord(e) + GroupCount = FirstRecord(e + 1)
  <2>1. CASE e = L
    BY <1>0, <1>3, <1>7, <1>10, <2>1 DEF GroupCount
  <2>2. CASE e < L /\ e = L - 1 /\ r # 0
    <3>1. GroupCount = r /\ L = q + 1 /\ e = q
      BY <1>0, <1>2, <1>3, <1>5, <1>10, <2>2 DEF GroupCount
    <3>2. FirstRecord(e) = G * q + 1 /\ FirstRecord(e + 1) = N
      BY <1>2, <1>6, <1>7, <2>2, <3>1
    <3>3. QED  BY <1>1, <1>2, <2>2, <3>1, <3>2
  <2>3. CASE e < L /\ ~(e = L - 1 /\ r # 0)
    <3>1. GroupCount = G
      BY <1>0, <1>3, <1>10, <2>3 DEF GroupCount
    <3>2. FirstRecord(e) = G * e + 1 /\ G * e \in Nat /\ G * (e + 1) = G * e + G
      BY <1>6, <2>3
    <3>3. FirstRecord(e + 1) = G * e + G + 1
      <4>1. CASE e + 1 < L
        BY <1>6, <3>2, <4>1
      <4>2. CASE e + 1 = L
        <5>1. r = 0 /\ L = q
          BY <1>3, <1>5, <2>3, <4>2
        <5>2. G * (e + 1) = G * q
          BY <4>2, <5>1
        <5>3. QED  BY <1>1, <1>2, <1>7, <3>2, <4>2, <5>1, <5>2
      <4>3. QED  BY <1>3, <2>3, <4>1, <4>2
    <3>4. QED  BY <1>1, <2>3, <3>1, <3>2, <3>3
  <2>4. QED  BY <1>3, <1>10, <2>1, <2>2, <2>3
<1>11. QED  BY <1>0, <1>3, <1>8, <1>9, <1>10

(* No record inside a group is the first of another one.                   *)
LEMMA GroupStart ==
  ASSUME Group \in Nat, Group > 1, Records \in Nat, Records > 0,
         entry \in Nat, entry <= LastEntry, NEW p \in Nat, p < GroupCount,
         NEW e \in Nat, e <= LastEntry, FirstRecord(e) = FirstRecord(entry) + p
  PROVE  p = 0
<1>0. PICK G, L, N, f : G = Group /\ L = LastEntry /\ N = Records /\ f = entry
  OBVIOUS
<1>1. /\ G \in Nat /\ G > 1 /\ L \in Nat /\ N \in Nat /\ f \in Nat /\ f <= L /\ e <= L
      /\ f = L => GroupCount = 1
      /\ f < L => FirstRecord(f) + GroupCount = FirstRecord(f + 1)
      /\ \A g \in Nat : g <= L => FirstRecord(g) \in 1..N
      /\ GroupCount \in Nat
  BY <1>0, LayoutFacts
<1>2. FirstRecord(L) = N /\ \A g \in Nat : g < L => FirstRecord(g) = g * G + 1
  BY <1>0, <1>1 DEF FirstRecord
<1>3. CASE f = L
  BY <1>1, <1>3
<1>4. CASE f < L
  <2>1. FirstRecord(f + 1) \in 1..N
    BY <1>1, <1>4
  <2>2. FirstRecord(f) + p < N /\ FirstRecord(f) \in Nat
    BY <1>0, <1>1, <1>4, <2>1
  <2>3. e < L
    BY <1>0, <1>1, <1>2, <2>2
  <2>4. e * G = f * G + p
    <3>1. e * G + 1 = f * G + 1 + p
      BY <1>0, <1>2, <1>4, <2>3
    <3>2. e * G \in Nat /\ f * G \in Nat
      BY <1>1
    <3>3. QED  BY <3>1, <3>2
  <2>5. GroupCount <= G
    <3>1. (N - 1) % G < G
      <4>1. N - 1 \in Nat /\ G \in Nat \ {0}
        BY <1>0, <1>1
      <4>2. (N - 1) % G \in 0..(G - 1)
        BY <4>1, Parts
      <4>3. QED  BY <1>1, <4>2
    <3>2. QED  BY <1>0, <1>1, <1>4, <3>1 DEF GroupCount
  <2>6. (e - f) * G = p
    <3>1. (e - f) * G = e * G - f * G
      BY <1>1
    <3>2. e * G \in Nat /\ f * G \in Nat
      BY <1>1
    <3>3. QED  BY <2>4, <3>1, <3>2
  <2>7. ~(e > f)
    <3>1. SUFFICES ASSUME e > f PROVE FALSE
      OBVIOUS
    <3>2. G * 1 <= G * (e - f)
      BY <1>1, <3>1, TimesMonotonic
    <3>3. p < GroupCount
      OBVIOUS
    <3>4. QED  BY <1>1, <2>5, <2>6, <3>2, <3>3
  <2>8. ~(e < f)
    <3>1. SUFFICES ASSUME e < f PROVE FALSE
      OBVIOUS
    <3>2. G * (e - f) <= G * (0 - 1)
      BY <1>1, <3>1, TimesMonotonic
    <3>3. QED  BY <1>1, <2>6, <3>2
  <2>9. QED  BY <1>1, <2>6, <2>7, <2>8
<1>5. QED  BY <1>1, <1>3, <1>4

(* What a window is worth depends on the table alone.                      *)
LEMMA SameWindow == ASSUME seekTable' = seekTable, NEW w, WindowRight(w) PROVE WindowRight(w)'
BY DEF WindowRight, Reached, Readable, NoPrimary, HeaderBroken, FirstRecord, LastEntry, Records,
       NoFields, Garbage

-----------------------------------------------------------------------------
LEMMA TableInitInv == SeekInit => TableIInv
<1> SUFFICES ASSUME SeekInit PROVE TableIInv
  OBVIOUS
<1>1. /\ seekTable \in Tables /\ walkError = HeaderBroken /\ windows = <<>> /\ walked = {}
      /\ entry = 0 /\ place = 0 /\ walkError \in BOOLEAN
  BY DEF SeekInit, HeaderBroken
<1>2. /\ query.start \in Int /\ query.count \in Int /\ query.lookup \in BOOLEAN
      /\ query.lookup => query.count = 1
  <2>1. CASE query \in [start : Starts, count : Counts, lookup : {FALSE}]
    <3>1. Starts \subseteq Int /\ Counts \subseteq Int
      BY TableAssumption
    <3>2. query.start \in Starts /\ query.count \in Counts /\ query.lookup = FALSE
      BY <2>1
    <3>3. QED  BY <3>1, <3>2
  <2>2. CASE query \in [start : Starts, count : {1}, lookup : {TRUE}]
    <3>1. Starts \subseteq Int
      BY TableAssumption
    <3>2. query.start \in Starts /\ query.count = 1 /\ query.lookup = TRUE
      BY <2>2
    <3>3. query.start \in Int
      BY <3>1, <3>2, Zenon
    <3>4. 1 \in Int
      OBVIOUS
    <3>5. query.count \in Int
      BY <3>2, <3>4, Zenon
    <3>6. QED  BY <3>2, <3>3, <3>5, Zenon
  <2>3. \/ query \in [start : Starts, count : Counts, lookup : {FALSE}]
        \/ query \in [start : Starts, count : {1}, lookup : {TRUE}]
    BY Zenon DEF SeekInit
  <2>4. QED  BY <2>1, <2>2, <2>3, Zenon
<1>3. /\ seekTable.keys \in Seq(Nat) /\ Records \in Nat /\ DOMAIN seekTable.keys = 1..Records
      /\ \A i \in 1..Records : seekTable.keys[i] \in Nat
      /\ Group \in Nat /\ Group > 1
      /\ seekTable.keys = <<>> <=> Records = 0
  BY <1>1, TableAssumption, LenProperties, ElementOfSeq, EmptySeq DEF Records
<1>4. CASE Records = 0
  <2>1. /\ walkPhase = (IF query.lookup THEN "raised" ELSE "returned") /\ key = 0
    BY <1>3, <1>4 DEF SeekInit
  <2>2. WalkTypes
    <3>1. key \in Int /\ entry \in Nat /\ place \in Nat
      BY <1>1, <2>1
    <3>2. windows \in Seq([key : Int, win : Int, at : Int]) /\ walked \subseteq 1..Records
      BY <1>1, EmptySeq
    <3>3. walkPhase \in {"walking", "returned", "raised"} /\ walkError \in BOOLEAN
      BY <1>1, <2>1
    <3>4. QED  BY <1>1, <1>2, <3>1, <3>2, <3>3 DEF WalkTypes
  <2>3. Wanted = {} /\ DOMAIN windows = {}
    BY <1>1, <1>3, <1>4 DEF Wanted
  <2>4. Lists(windows, Wanted)
    BY <2>3 DEF Lists
  <2>5. QED
    BY <1>1, <2>1, <2>2, <2>3, <2>4
    DEF TableIInv, AtRecord, ErrorInv, GroupKeyInv, RightSoFar, WindowsInv, EndInv
<1>5. CASE Records # 0
  <2>1. walkPhase = "walking" /\ key = seekTable.keys[FirstRecord(0)]
    BY <1>3, <1>5 DEF SeekInit
  <2>2. /\ LastEntry \in Nat /\ FirstRecord(0) = 1 /\ GroupCount \in Nat /\ GroupCount > 0
    BY <1>1, <1>3, <1>5, LayoutFacts
  <2>3. Record = 1
    BY <1>1, <2>2 DEF Record
  <2>4. key \in Int /\ key = seekTable.keys[1]
    BY <1>3, <1>5, <2>1, <2>2
  <2>5. WalkTypes
    BY <1>1, <1>2, <1>3, <2>1, <2>4, EmptySeq DEF WalkTypes
  <2>6. AtRecord
    BY <1>1, <1>3, <1>5, <2>2, <2>3 DEF AtRecord
  <2>7. WantedBefore(Record - 1) = {} /\ DOMAIN windows = {}
    BY <1>1, <2>3 DEF WantedBefore
  <2>8. RightSoFar
    BY <2>3, <2>4, <2>7 DEF RightSoFar, Lists, Spread
  <2>9. ErrorInv /\ GroupKeyInv /\ WindowsInv /\ EndInv
    BY <1>1, <2>1, <2>3, <2>4, <2>7 DEF ErrorInv, GroupKeyInv, WindowsInv, EndInv
  <2>10. QED  BY <2>5, <2>6, <2>8, <2>9 DEF TableIInv
<1>6. QED  BY <1>4, <1>5

-----------------------------------------------------------------------------
(* What a record adds to what was walked, whatever it makes of it.         *)
LEMMA WalkFacts ==
  ASSUME TableIInv, NEW fields, Walk(fields), NEW r, r = Record
  PROVE  /\ walkPhase = "walking" /\ UNCHANGED <<seekTable, query>>
         /\ r \in 1..Records /\ walked' = 1..r /\ walkError' = Failed /\ Failed \in BOOLEAN
         /\ Failed <=> HeaderBroken \/ \E i \in walked' : Faulty(i)
         /\ ~Failed => /\ ~walkError /\ fields = r /\ key = seekTable.keys[r]
                       /\ Lists(windows, WantedBefore(r - 1)) /\ Spread(windows)
         /\ fields \in {NoFields, Garbage, r}
<1>1. /\ walkPhase = "walking" /\ UNCHANGED <<seekTable, query>> /\ fields \in Fields
      /\ walked' = walked \cup {r}
  BY DEF Walk
<1>2. walkError' = Failed
  BY DEF Walk, Advance, NextGroup
<1>3. /\ r \in 1..Records /\ walked = 1..(r - 1) /\ Records \in Nat
      /\ seekTable.faults[r] \in {"none", "index", "overrun", "delta"}
  BY <1>1, TableFacts DEF TableIInv, AtRecord
<1>4. walked' = 1..r
  BY <1>1, <1>3
<1>5. /\ walkError \in BOOLEAN /\ (walkError <=> HeaderBroken \/ \E i \in walked : Faulty(i))
      /\ ~walkError => /\ key = seekTable.keys[r]
                       /\ Lists(windows, WantedBefore(r - 1)) /\ Spread(windows)
  BY <1>1 DEF TableIInv, WalkTypes, ErrorInv, RightSoFar
<1>6. Failed \in BOOLEAN /\ (Failed <=> HeaderBroken \/ \E i \in walked' : Faulty(i))
  BY <1>1, <1>5 DEF Failed, Faulty
<1>7. fields \in {NoFields, Garbage, r} /\ (~Failed => fields = r)
  BY <1>1, <1>3 DEF Fields, Failed
<1>8. QED  BY <1>1, <1>2, <1>3, <1>4, <1>5, <1>6, <1>7 DEF Failed

(* The window of a record is right, whatever lies before the record.       *)
LEMMA NewWindow ==
  ASSUME TableIInv, NEW fields, Walk(fields), fields # NoFields
  PROVE  WindowRight([key |-> key, win |-> fields, at |-> Record])
<1>0. PICK r : r = Record
  OBVIOUS
<1>1. /\ walkPhase = "walking" /\ fields \in Fields /\ WalkTypes /\ AtRecord /\ GroupKeyInv /\ ErrorInv
      /\ RightSoFar
  BY DEF Walk, TableIInv
<1>2. r \in 1..Records /\ walked = 1..(r - 1) /\ Records \in Nat
  BY <1>0, <1>1, TableFacts DEF AtRecord
<1>3. Reached(r) <=> ~walkError
  BY <1>1, <1>2 DEF ErrorInv, Reached, Faulty
<1>4. ~walkError => key = seekTable.keys[r] /\ (Readable(r) => fields = r)
  BY <1>0, <1>1, <1>2 DEF Fields, Readable, RightSoFar
<1>5. walkError => ~NoPrimary /\ fields \in {Garbage} \cup ({r} \cap seekTable.primary)
  BY <1>0, <1>1 DEF Fields
<1>6. r \in {FirstRecord(e) : e \in 0..LastEntry} => key = seekTable.keys[r]
  <2>1. SUFFICES ASSUME NEW e \in 0..LastEntry, r = FirstRecord(e) PROVE key = seekTable.keys[r]
    OBVIOUS
  <2>2. /\ Group \in Nat /\ Group > 1 /\ Records > 0 /\ entry \in Nat /\ entry <= LastEntry
        /\ place \in Nat /\ place < GroupCount
    BY <1>1, TableFacts DEF AtRecord, WalkTypes
  <2>3. LastEntry \in Nat
    BY <1>2, <2>2, LayoutFacts
  <2>4. e \in Nat /\ e <= LastEntry /\ FirstRecord(e) = FirstRecord(entry) + place
    BY <1>0, <2>1, <2>3 DEF Record
  <2>5. place = 0
    BY <1>2, <2>2, <2>4, GroupStart
  <2>6. QED  BY <1>0, <1>1, <2>5 DEF GroupKeyInv
<1>7. PICK w : w = [key |-> key, win |-> fields, at |-> r]
  OBVIOUS
<1>8. w.key = key /\ w.win = fields /\ w.at = r
  BY <1>7
<1>9. WindowRight(w)
  BY <1>3, <1>4, <1>5, <1>6, <1>8 DEF WindowRight
<1>10. QED  BY <1>0, <1>7, <1>9

(* One record more in the list, or not, as its key wants it.               *)
LEMMA ListMore ==
  ASSUME NEW list \in Seq([key : Int, win : Int, at : Int]), NEW r \in Int, r > 0, NEW w,
         w = [key |-> seekTable.keys[r], win |-> r, at |-> r], seekTable.keys[r] \in Int,
         query.start \in Int, IsWanted(r),
         \A n \in DOMAIN list : list[n].key < seekTable.keys[r],
         Lists(list, WantedBefore(r - 1)), Spread(list)
  PROVE  Lists(Append(list, w), WantedBefore(r)) /\ Spread(Append(list, w))
<1>1. PICK more, m : more = Append(list, w) /\ m = Len(list)
  OBVIOUS
<1>2. /\ m \in Nat /\ DOMAIN list = 1..m
      /\ \A n \in 1..m : list[n].key \in Int /\ list[n].win \in Int
  <2>1. \A n \in 1..m : list[n] \in [key : Int, win : Int, at : Int]
    BY <1>1, ElementOfSeq
  <2>2. QED  BY <1>1, <2>1, LenProperties
<1>3. /\ DOMAIN more = 1..(m + 1) /\ more[m + 1] = w
      /\ \A n \in 1..m : more[n] = list[n]
  <2>1. w \in [key : Int, win : Int, at : Int]
    OBVIOUS
  <2>2. QED  BY <1>1, <2>1, AppendProperties, LenProperties
<1>4. /\ {list[n].win : n \in 1..m} = WantedBefore(r - 1)
      /\ \A n \in 1..m : list[n].key = seekTable.keys[list[n].win]
      /\ \A n, k \in 1..m : n < k => list[n].win < list[k].win
      /\ \A n \in 1..m : query.start + n - 1 <= list[n].key
  BY <1>2 DEF Lists, Spread
<1>5. WantedBefore(r) = WantedBefore(r - 1) \cup {r}
  BY DEF WantedBefore
<1>6. {more[n].win : n \in 1..(m + 1)} = WantedBefore(r)
  <2>1. {more[n].win : n \in 1..(m + 1)} = {list[n].win : n \in 1..m} \cup {r}
    <3>1. 1..(m + 1) = (1..m) \cup {m + 1}
      BY <1>2
    <3>2. {more[n].win : n \in (1..m) \cup {m + 1}} = {more[n].win : n \in 1..m} \cup {more[m + 1].win}
      OBVIOUS
    <3>3. {more[n].win : n \in 1..m} = {list[n].win : n \in 1..m}
      BY <1>3
    <3>4. more[m + 1].win = r
      BY <1>3
    <3>5. QED  BY <3>1, <3>2, <3>3, <3>4
  <2>2. QED  BY <1>4, <1>5, <2>1
<1>7. \A n \in 1..(m + 1) : more[n].key = seekTable.keys[more[n].win]
  <2>1. ASSUME NEW n \in 1..(m + 1) PROVE more[n].key = seekTable.keys[more[n].win]
    <3>1. CASE n = m + 1
      BY <1>3, <3>1
    <3>2. CASE n # m + 1
      <4>1. n \in 1..m
        BY <1>2, <3>2
      <4>2. QED  BY <1>3, <1>4, <4>1
    <3>3. QED  BY <3>1, <3>2
  <2>2. QED  BY <2>1
<1>8. ASSUME NEW n \in 1..(m + 1), NEW k \in 1..(m + 1), n < k PROVE more[n].win < more[k].win
  <2>1. n \in 1..m
    BY <1>2, <1>8
  <2>2. CASE k = m + 1
    <3>1. list[n].win \in WantedBefore(r - 1)
      BY <1>4, <2>1
    <3>2. list[n].win < r
      BY <3>1 DEF WantedBefore
    <3>3. QED  BY <1>3, <2>1, <2>2, <3>2
  <2>3. CASE k # m + 1
    <3>1. k \in 1..m
      BY <1>2, <2>3
    <3>2. QED  BY <1>3, <1>4, <1>8, <2>1, <3>1
  <2>4. QED  BY <2>2, <2>3
<1>9. ASSUME NEW n \in 1..(m + 1) PROVE query.start + n - 1 <= more[n].key
  <2>1. CASE n = m + 1
    <3>1. more[n].key = seekTable.keys[r]
      BY <1>3, <2>1
    <3>2. CASE m = 0
      BY <2>1, <3>1, <3>2 DEF IsWanted
    <3>3. CASE m # 0
      <4>1. m \in 1..m
        BY <1>2, <3>3
      <4>2. /\ query.start + m - 1 <= list[m].key /\ list[m].key < seekTable.keys[r]
            /\ list[m].key \in Int
        BY <1>2, <1>4, <4>1
      <4>3. query.start + m <= seekTable.keys[r]
        BY <1>2, <4>2
      <4>4. QED  BY <1>2, <2>1, <3>1, <4>3
    <3>4. QED  BY <3>2, <3>3
  <2>2. CASE n # m + 1
    <3>1. n \in 1..m
      BY <1>2, <2>2
    <3>2. QED  BY <1>3, <1>4, <3>1
  <2>3. QED  BY <2>1, <2>2
<1>10. QED  BY <1>1, <1>3, <1>6, <1>7, <1>8, <1>9 DEF Lists, Spread

LEMMA ListFacts ==
  ASSUME TableIInv, NEW fields, Walk(fields), NEW r, r = Record, ~(InRange /\ fields = NoFields),
         NEW list,
         list = IF InRange THEN Append(windows, [key |-> key, win |-> fields, at |-> Record]) ELSE windows
  PROVE  /\ list \in Seq([key : Int, win : Int, at : Int])
         /\ \A n \in DOMAIN list : WindowRight(list[n])
         /\ ~Failed => /\ Lists(list, WantedBefore(r)) /\ Spread(list)
                       /\ InRange => list[Len(list)].key = key /\ Len(list) > 0
<1>1. PICK w : w = [key |-> key, win |-> fields, at |-> r]
  OBVIOUS
<1>2. /\ WalkTypes /\ WindowsInv /\ windows \in Seq([key : Int, win : Int, at : Int]) /\ key \in Int
      /\ query.start \in Int
  BY DEF TableIInv, WalkTypes
<1>3. /\ walkPhase = "walking" /\ UNCHANGED <<seekTable, query>>
      /\ r \in 1..Records /\ Failed \in BOOLEAN
      /\ ~Failed => /\ ~walkError /\ fields = r /\ key = seekTable.keys[r]
                    /\ Lists(windows, WantedBefore(r - 1)) /\ Spread(windows)
      /\ fields \in {NoFields, Garbage, r}
  BY WalkFacts
<1>4. /\ Records \in Nat /\ DOMAIN seekTable.keys = 1..Records
      /\ \A i \in 1..Records : seekTable.keys[i] \in Nat
      /\ \A i, j \in 1..Records : i < j => seekTable.keys[i] < seekTable.keys[j]
  BY <1>2, TableFacts
<1>5. w \in [key : Int, win : Int, at : Int]
  BY <1>1, <1>2, <1>3, <1>4 DEF NoFields, Garbage
<1>6. /\ list \in Seq([key : Int, win : Int, at : Int])
      /\ InRange => /\ DOMAIN list = 1..(Len(windows) + 1) /\ Len(list) = Len(windows) + 1
                    /\ list[Len(windows) + 1] = w
                    /\ \A n \in 1..Len(windows) : list[n] = windows[n]
      /\ ~InRange => list = windows
      /\ Len(windows) \in Nat /\ DOMAIN windows = 1..Len(windows)
  <2>1. Len(windows) \in Nat /\ DOMAIN windows = 1..Len(windows)
    BY <1>2, LenProperties
  <2>2. CASE InRange
    <3>1. list = Append(windows, w)
      BY <1>1, <2>2
    <3>2. /\ list \in Seq([key : Int, win : Int, at : Int]) /\ Len(list) = Len(windows) + 1
          /\ list[Len(windows) + 1] = w
          /\ \A n \in 1..Len(windows) : list[n] = windows[n]
      <4>1. PICK S : S = [key : Int, win : Int, at : Int]
        OBVIOUS
      <4>2. windows \in Seq(S) /\ w \in S
        BY <1>2, <1>5, <4>1
      <4>3. /\ Append(windows, w) \in Seq(S) /\ Len(Append(windows, w)) = Len(windows) + 1
            /\ Append(windows, w)[Len(windows) + 1] = w
            /\ \A n \in 1..Len(windows) : Append(windows, w)[n] = windows[n]
        BY <4>2, AppendProperties
      <4>4. QED  BY <3>1, <4>1, <4>3
    <3>3. DOMAIN list = 1..(Len(windows) + 1)
      BY <3>2, LenProperties
    <3>4. QED  BY <2>1, <2>2, <3>2, <3>3
  <2>3. CASE ~InRange
    BY <1>2, <2>1, <2>3
  <2>4. QED  BY <2>2, <2>3
<1>9. ASSUME NEW n \in DOMAIN list PROVE WindowRight(list[n])
  <2>1. CASE InRange /\ n = Len(windows) + 1
    <3>1. WindowRight(w)
      BY <1>1, <2>1, NewWindow
    <3>2. QED  BY <1>6, <2>1, <3>1
  <2>2. CASE ~(InRange /\ n = Len(windows) + 1)
    <3>1. n \in DOMAIN windows /\ list[n] = windows[n]
      <4>1. CASE InRange
        <5>1. n \in 1..Len(windows)
          BY <1>6, <2>2, <4>1
        <5>2. QED  BY <1>6, <4>1, <5>1
      <4>2. CASE ~InRange
        BY <1>6, <4>2
      <4>3. QED  BY <4>1, <4>2
    <3>2. QED  BY <1>2, <3>1 DEF WindowsInv
  <2>3. QED  BY <2>1, <2>2
<1>10. ASSUME ~Failed
       PROVE  /\ Lists(list, WantedBefore(r)) /\ Spread(list)
              /\ InRange => list[Len(list)].key = key /\ Len(list) > 0
  <2>1. /\ key = seekTable.keys[r] /\ fields = r
        /\ Lists(windows, WantedBefore(r - 1)) /\ Spread(windows)
    BY <1>3, <1>10
  <2>2. InRange <=> IsWanted(r)
    BY <2>1 DEF InRange, IsWanted
  <2>3. CASE InRange
    <3>1. ASSUME NEW n \in DOMAIN windows PROVE windows[n].key < seekTable.keys[r]
      <4>1. windows[n].win \in WantedBefore(r - 1) /\ windows[n].key = seekTable.keys[windows[n].win]
        BY <2>1 DEF Lists
      <4>2. windows[n].win \in 1..(r - 1)
        BY <4>1 DEF WantedBefore
      <4>3. windows[n].win \in 1..Records /\ windows[n].win < r
        BY <1>3, <1>4, <4>2
      <4>4. QED  BY <1>3, <1>4, <4>1, <4>3
    <3>2. list = Append(windows, w) /\ w = [key |-> seekTable.keys[r], win |-> r, at |-> r]
      BY <1>1, <2>1, <2>3
    <3>3. r \in Int /\ r > 0 /\ seekTable.keys[r] \in Int
      BY <1>3, <1>4
    <3>4. Lists(list, WantedBefore(r)) /\ Spread(list)
      BY <1>2, <2>1, <2>2, <2>3, <3>1, <3>2, <3>3, ListMore
    <3>5. QED  BY <1>1, <1>6, <2>3, <3>4
  <2>4. CASE ~InRange
    <3>1. WantedBefore(r) = WantedBefore(r - 1)
      BY <1>3, <1>4, <2>2, <2>4 DEF WantedBefore
    <3>2. QED  BY <1>6, <2>1, <2>4, <3>1
  <2>5. QED  BY <2>3, <2>4
<1>11. QED  BY <1>6, <1>9, <1>10

(* A walk that stops has seen all that is wanted.                          *)
LEMMA CompleteFacts ==
  ASSUME TableIInv, NEW r \in 1..Records, key = seekTable.keys[r], NEW list,
         list \in Seq([key : Int, win : Int, at : Int]), Lists(list, WantedBefore(r)), Spread(list),
         InRange => list[Len(list)].key = key /\ Len(list) > 0,
         Complete(list) \/ r = Records
  PROVE  Lists(list, Wanted)
<1>1. /\ query.start \in Int /\ query.count \in Int /\ key \in Int
      /\ Records \in Nat /\ DOMAIN seekTable.keys = 1..Records
      /\ \A i \in 1..Records : seekTable.keys[i] \in Nat
      /\ \A i, j \in 1..Records : i < j => seekTable.keys[i] < seekTable.keys[j]
  BY TableFacts DEF TableIInv, WalkTypes
<1>2. Len(list) \in Nat /\ DOMAIN list = 1..Len(list)
  BY LenProperties
<1>3. CASE r = Records
  BY <1>1, <1>3 DEF Wanted, WantedBefore
<1>4. CASE key >= query.start + query.count - 1
  <2>1. ASSUME NEW i \in 1..Records, IsWanted(i) PROVE i <= r
    <3>1. seekTable.keys[i] < query.start + query.count
      BY <2>1 DEF IsWanted, WantedEnd
    <3>2. seekTable.keys[i] <= seekTable.keys[r]
      <4>1. seekTable.keys[i] \in Nat
        BY <1>1
      <4>2. QED  BY ONLY <1>1, <1>4, <3>1, <4>1, key = seekTable.keys[r]
    <3>3. QED  BY <1>1, <3>2
  <2>2. Wanted = WantedBefore(r)
    BY <1>1, <2>1 DEF Wanted, WantedBefore
  <2>3. QED  BY <2>2
<1>5. key >= WantedEnd => key >= query.start + query.count - 1
  BY <1>1 DEF WantedEnd
<1>6. InRange /\ Len(list) = query.count => key >= query.start + query.count - 1
  <2>1. SUFFICES ASSUME InRange, Len(list) = query.count
                 PROVE  key >= query.start + query.count - 1
    OBVIOUS
  <2>2. query.start + Len(list) - 1 <= list[Len(list)].key
    BY <1>2, <2>1 DEF Spread
  <2>3. QED  BY <1>1, <2>1, <2>2
<1>7. QED  BY <1>3, <1>4, <1>5, <1>6 DEF Complete

(* A lookup that answers nothing was for a key that is not in the table.   *)
LEMMA LookupFacts ==
  ASSUME TableIInv, query.lookup, NEW list, list \in Seq([key : Int, win : Int, at : Int]),
         Lists(list, Wanted), Spread(list), ~(Len(list) = 1 /\ list[1].key = query.start)
  PROVE  Wanted = {}
<1> SUFFICES ASSUME NEW i \in Wanted PROVE FALSE
  OBVIOUS
<1>1. /\ query.start \in Int /\ query.count = 1
      /\ \A j \in Wanted : seekTable.keys[j] = query.start
  <2>1. query.start \in Int /\ query.count = 1
    BY DEF TableIInv, WalkTypes
  <2>2. ASSUME NEW j \in Wanted PROVE seekTable.keys[j] = query.start
    <3>1. seekTable.keys[j] \in Nat
      BY TableFacts DEF Wanted, TableIInv
    <3>2. seekTable.keys[j] >= query.start /\ seekTable.keys[j] < query.start + 1
      BY <2>1 DEF Wanted, IsWanted, WantedEnd
    <3>3. QED  BY <2>1, <3>1, <3>2
  <2>3. QED  BY <2>1, <2>2
<1>2. Len(list) \in Nat /\ DOMAIN list = 1..Len(list)
  BY LenProperties
<1>3. PICK n \in 1..Len(list) : list[n].win = i
  BY <1>2 DEF Lists
<1>4. ASSUME NEW m \in 1..Len(list) PROVE list[m].key = query.start /\ m = 1
  <2>1. list[m].win \in Wanted /\ list[m].key = seekTable.keys[list[m].win]
    BY <1>2 DEF Lists
  <2>2. list[m].key = query.start
    BY <1>1, <2>1
  <2>3. query.start + m - 1 <= query.start
    BY <1>2, <2>2 DEF Spread
  <2>4. QED  BY <1>1, <1>2, <2>2, <2>3
<1>5. Len(list) = 1
  <2>1. Len(list) \in 1..Len(list)
    BY <1>2, <1>3
  <2>2. QED  BY <1>4, <2>1
<1>6. QED  BY <1>4, <1>5

-----------------------------------------------------------------------------
(* The three ways a step can leave the walk.                               *)
LEMMA StopInv ==
  ASSUME TableIInv, NEW fields, Walk(fields), InRange, fields = NoFields,
         walkPhase' = "raised", UNCHANGED <<entry, place, key, windows>>
  PROVE  TableIInv'
<1>0. PICK r : r = Record
  OBVIOUS
<1>1. /\ UNCHANGED <<seekTable, query>>
      /\ r \in 1..Records /\ walked' = 1..r /\ walkError' = Failed /\ walkError' \in BOOLEAN
      /\ walkError' <=> HeaderBroken \/ \E i \in walked' : Faulty(i)
      /\ ~walkError' => fields = r
  BY <1>0, WalkFacts
<1>2. Records \in Nat /\ WalkTypes /\ WindowsInv
  BY TableFacts DEF TableIInv
<1>3. walkError' = TRUE
  BY <1>1, <1>2 DEF NoFields
<1>4. WalkTypes'
  BY <1>1, <1>2 DEF WalkTypes, Records
<1>5. ErrorInv' /\ AtRecord' /\ GroupKeyInv' /\ RightSoFar' /\ EndInv'
  BY <1>1, <1>3 DEF ErrorInv, HeaderBroken, AtRecord, GroupKeyInv, RightSoFar, EndInv, Faulty
<1>6. WindowsInv'
  BY <1>1, <1>2, SameWindow DEF WindowsInv
<1>7. QED  BY <1>4, <1>5, <1>6 DEF TableIInv

LEMMA ReturnInv ==
  ASSUME TableIInv, NEW fields, Walk(fields), ~(InRange /\ fields = NoFields), NEW list,
         list = IF InRange THEN Append(windows, [key |-> key, win |-> fields, at |-> Record]) ELSE windows,
         windows' = list, Return(list), UNCHANGED <<entry, place, key>>,
         Complete(list) \/ Record = Records
  PROVE  TableIInv'
<1>0. PICK r : r = Record
  OBVIOUS
<1>1. /\ UNCHANGED <<seekTable, query>>
      /\ r \in 1..Records /\ walked' = 1..r /\ walkError' = Failed /\ walkError' \in BOOLEAN
      /\ walkError' <=> HeaderBroken \/ \E i \in walked' : Faulty(i)
      /\ ~walkError' => key = seekTable.keys[r]
  BY <1>0, WalkFacts
<1>2. /\ list \in Seq([key : Int, win : Int, at : Int])
      /\ \A n \in DOMAIN list : WindowRight(list[n])
      /\ ~walkError' => /\ Lists(list, WantedBefore(r)) /\ Spread(list)
                        /\ InRange => list[Len(list)].key = key /\ Len(list) > 0
  BY <1>0, <1>1, ListFacts
<1>3. Records \in Nat /\ WalkTypes
  BY TableFacts DEF TableIInv
<1>4. walkPhase' = IF query.lookup /\ ~(Len(list) = 1 /\ list[1].key = query.start)
                   THEN "raised" ELSE "returned"
  BY DEF Return
<1>5. WalkTypes'
  BY <1>1, <1>2, <1>3, <1>4 DEF WalkTypes, Records
<1>6. ErrorInv' /\ AtRecord' /\ GroupKeyInv' /\ RightSoFar'
  BY <1>1, <1>4 DEF ErrorInv, HeaderBroken, AtRecord, GroupKeyInv, RightSoFar, Faulty
<1>7. WindowsInv'
  BY <1>1, <1>2, SameWindow DEF WindowsInv
<1>8. EndInv'
  <2>1. ASSUME ~walkError' PROVE Lists(list, Wanted)
    BY <1>0, <1>1, <1>2, <2>1, CompleteFacts
  <2>2. ASSUME ~walkError', walkPhase' = "raised" PROVE query.lookup /\ Wanted = {}
    BY <1>2, <1>4, <2>1, <2>2, LookupFacts
  <2>3. Wanted' = Wanted /\ query' = query /\ (Lists(list, Wanted) => Lists(windows, Wanted)')
    BY <1>1 DEF Wanted, IsWanted, WantedEnd, Lists
  <2>4. QED  BY <2>1, <2>2, <2>3 DEF EndInv
<1>9. QED  BY <1>5, <1>6, <1>7, <1>8 DEF TableIInv

LEMMA OnwardInv ==
  ASSUME TableIInv, NEW fields, Walk(fields), ~(InRange /\ fields = NoFields), NEW list,
         list = IF InRange THEN Append(windows, [key |-> key, win |-> fields, at |-> Record]) ELSE windows,
         windows' = list, walkPhase' = walkPhase,
         \/ /\ place < GroupCount - 1 /\ \E delta \in Deltas : key' = key + delta
            /\ place' = place + 1 /\ entry' = entry
         \/ /\ place >= GroupCount - 1 /\ entry < LastEntry
            /\ entry' = entry + 1 /\ place' = 0 /\ key' = EntryKey(entry + 1)
  PROVE  TableIInv'
<1>0. PICK r : r = Record
  OBVIOUS
<1>1. /\ UNCHANGED <<seekTable, query>> /\ walkPhase = "walking"
      /\ r \in 1..Records /\ walked' = 1..r /\ walkError' = Failed /\ walkError' \in BOOLEAN
      /\ walkError' <=> HeaderBroken \/ \E i \in walked' : Faulty(i)
      /\ ~walkError' => key = seekTable.keys[r]
  BY <1>0, WalkFacts
<1>2. /\ list \in Seq([key : Int, win : Int, at : Int])
      /\ \A n \in DOMAIN list : WindowRight(list[n])
      /\ ~walkError' => Lists(list, WantedBefore(r)) /\ Spread(list)
  BY <1>0, <1>1, ListFacts
<1>3. /\ WalkTypes /\ entry \in Nat /\ place \in Nat /\ key \in Int
      /\ Group \in Nat /\ Group > 1
      /\ Records \in Nat /\ Records > 0 /\ DOMAIN seekTable.keys = 1..Records
      /\ \A i \in 1..Records : seekTable.keys[i] \in Nat
      /\ \A i, j \in 1..Records : i < j => seekTable.keys[i] < seekTable.keys[j]
      /\ entry <= LastEntry /\ place < GroupCount
  BY <1>1, TableFacts DEF TableIInv, WalkTypes, AtRecord
<1>4. /\ LastEntry \in Nat /\ GroupCount \in Nat /\ GroupCount > 0
      /\ \A e \in Nat : e <= LastEntry => FirstRecord(e) \in 1..Records
      /\ entry = LastEntry => GroupCount = 1
      /\ entry < LastEntry => FirstRecord(entry) + GroupCount = FirstRecord(entry + 1)
  BY <1>3, LayoutFacts
<1>5. r = FirstRecord(entry) + place /\ FirstRecord(entry) \in 1..Records
  BY <1>0, <1>3, <1>4 DEF Record
<1>6. /\ Records' = Records /\ LastEntry' = LastEntry
      /\ \A e : (IF e = LastEntry THEN Records ELSE e * Group + 1) = FirstRecord(e)
  BY <1>1 DEF Records, LastEntry, FirstRecord
(* The next record is the next in the table, and its group holds it.       *)
<1>7. /\ Record' = r + 1 /\ r + 1 \in 1..Records
      /\ entry' \in Nat /\ place' \in Nat /\ entry' <= LastEntry /\ place' < GroupCount'
  <2>1. CASE place < GroupCount - 1 /\ place' = place + 1 /\ entry' = entry
    <3>1. entry < LastEntry
      BY <1>3, <1>4, <2>1
    <3>2. entry + 1 \in Nat /\ entry + 1 <= LastEntry
      BY <1>3, <1>4, <3>1
    <3>3. FirstRecord(entry + 1) \in 1..Records
      BY <1>4, <3>2
    <3>4. GroupCount' = GroupCount /\ FirstRecord(entry)' = FirstRecord(entry)
      BY <1>6, <2>1 DEF GroupCount, FirstRecord
    <3>5. Record' = FirstRecord(entry)' + place'
      BY DEF Record
    <3>6. QED  BY <1>3, <1>4, <1>5, <2>1, <3>1, <3>3, <3>4, <3>5
  <2>2. CASE place >= GroupCount - 1 /\ entry < LastEntry /\ entry' = entry + 1 /\ place' = 0
    <3>1. place = GroupCount - 1
      <4>1. place \in Nat /\ GroupCount \in Nat /\ place < GroupCount /\ place >= GroupCount - 1
        BY <1>3, <1>4, <2>2
      <4>2. QED  BY ONLY <4>1
    <3>2. entry + 1 \in Nat /\ entry + 1 <= LastEntry
      BY <1>3, <1>4, <2>2
    <3>3. FirstRecord(entry + 1) \in 1..Records /\ FirstRecord(entry + 1) = r + 1
      BY <1>3, <1>4, <1>5, <2>2, <3>1, <3>2
    <3>4. Record' = FirstRecord(entry)'
      <4>1. Record' = FirstRecord(entry)' + 0
        BY <2>2 DEF Record
      <4>2. FirstRecord(entry)' = FirstRecord(entry + 1)
        BY <1>6, <2>2 DEF FirstRecord
      <4>3. QED  BY <3>3, <4>1, <4>2
    <3>5. FirstRecord(entry)' = FirstRecord(entry + 1)
      BY <1>6, <2>2 DEF FirstRecord
    <3>6. GroupCount' \in Nat /\ GroupCount' > 0
      <4>1. PICK rest : rest = (Records - 1) % Group
        OBVIOUS
      <4>2. rest \in Nat
        BY <1>3, <4>1
      <4>3. GroupCount' \in {1, rest, Group} /\ (GroupCount' = rest => rest # 0 \/ rest = 1 \/ rest = Group)
        BY <1>6, <4>1 DEF GroupCount
      <4>4. QED  BY <1>3, <4>2, <4>3
    <3>7. QED  BY <1>3, <1>4, <2>2, <3>2, <3>3, <3>4, <3>5, <3>6
  <2>3. QED  BY <2>1, <2>2
(* Without a fault, and at the start of a group, the key is the next one.  *)
<1>8. /\ key' \in Int
      /\ ~walkError' \/ place' = 0 => key' = seekTable.keys[r + 1]
  <2>1. CASE /\ place < GroupCount - 1 /\ \E delta \in Deltas : key' = key + delta
             /\ place' = place + 1 /\ entry' = entry
    <3>1. PICK delta \in Deltas : key' = key + delta
      BY <2>1
    <3>2. /\ seekTable.keys[r + 1] - seekTable.keys[r] \in Nat
          /\ seekTable.keys[r] \in Nat /\ seekTable.keys[r + 1] \in Nat
      <4>1. r \in 1..Records /\ r + 1 \in 1..Records /\ r < r + 1
        BY <1>1, <1>3, <1>7
      <4>2. /\ seekTable.keys[r] \in Nat /\ seekTable.keys[r + 1] \in Nat
            /\ seekTable.keys[r] < seekTable.keys[r + 1]
        BY <1>3, <4>1
      <4>3. QED  BY <4>2
    <3>3. /\ delta \in Int
          /\ ~walkError' => delta = seekTable.keys[r + 1] - seekTable.keys[r]
      <4>1. Jumps \subseteq Nat
        BY TableAssumption
      <4>2. QED  BY <1>0, <1>1, <3>1, <3>2, <4>1 DEF Deltas
    <3>4. key' \in Int /\ place' # 0
      BY <1>3, <2>1, <3>1, <3>3
    <3>5. QED  BY <1>1, <3>1, <3>2, <3>3, <3>4
  <2>2. CASE /\ place >= GroupCount - 1 /\ entry < LastEntry
             /\ entry' = entry + 1 /\ place' = 0 /\ key' = EntryKey(entry + 1)
    <3>1. key' = seekTable.keys[r + 1]
      <4>0. place = GroupCount - 1
        BY <1>3, <1>4, <2>2
      <4>1. FirstRecord(entry + 1) = r + 1
        BY <1>3, <1>4, <1>5, <2>2, <4>0
      <4>2. QED  BY <2>2, <4>1 DEF EntryKey
    <3>2. key' \in Int
      BY <1>3, <1>7, <3>1
    <3>3. QED  BY <3>1, <3>2
  <2>3. QED  BY <2>1, <2>2
<1>9. WalkTypes'
  BY <1>1, <1>2, <1>3, <1>7, <1>8 DEF WalkTypes, Records
<1>10. AtRecord'
  <2>1. r + 1 - 1 = r
    BY <1>1, <1>3
  <2>2. QED  BY <1>1, <1>3, <1>6, <1>7, <2>1 DEF AtRecord
<1>11. ErrorInv' /\ GroupKeyInv'
  BY <1>1, <1>7, <1>8 DEF ErrorInv, HeaderBroken, GroupKeyInv, Faulty
<1>12. WindowsInv'
  BY <1>1, <1>2, SameWindow DEF WindowsInv
<1>13. RightSoFar'
  <2>1. r + 1 - 1 = r
    BY <1>1, <1>3
  <2>2. ASSUME ~walkError' PROVE Lists(windows', WantedBefore(r)) /\ Spread(windows')
    BY <1>2, <2>2
  <2>3. ASSUME Lists(windows', WantedBefore(r)) PROVE Lists(windows, WantedBefore(Record - 1))'
    <3>1. Record' - 1 = r
      BY <1>1, <1>3, <1>7
    <3>2. WantedBefore(Record - 1)' = WantedBefore(r)
      BY <1>1, <3>1 DEF WantedBefore, IsWanted, WantedEnd
    <3>3. QED  BY <1>1, <2>3, <3>2 DEF Lists
  <2>4. ASSUME Spread(windows') PROVE Spread(windows)'
    BY <1>1, <2>4 DEF Spread
  <2>5. QED  BY <1>1, <1>7, <1>8, <2>2, <2>3, <2>4 DEF RightSoFar
<1>14. EndInv'
  BY <1>1 DEF EndInv
<1>15. QED  BY <1>9, <1>10, <1>11, <1>12, <1>13, <1>14 DEF TableIInv

-----------------------------------------------------------------------------
LEMMA WalkInv == ASSUME TableIInv, NEW fields, Walk(fields) PROVE TableIInv'
<1>1. CASE InRange /\ fields = NoFields
  BY <1>1, StopInv DEF Walk
<1>2. CASE ~(InRange /\ fields = NoFields)
  <2>0. PICK list :
          list = IF InRange THEN Append(windows, [key |-> key, win |-> fields, at |-> Record]) ELSE windows
    OBVIOUS
  <2>1. /\ windows' = list
        /\ \/ Complete(list) /\ Return(list) /\ UNCHANGED <<entry, place, key>>
           \/ Advance
    BY <1>2, <2>0 DEF Walk
  <2>2. CASE Complete(list) /\ Return(list) /\ UNCHANGED <<entry, place, key>>
    BY <1>2, <2>0, <2>1, <2>2, ReturnInv
  <2>3. CASE /\ place >= GroupCount - 1 /\ entry = LastEntry
             /\ Return(list) /\ UNCHANGED <<entry, place, key>>
    <3>1. Record = Records
      <4>1. /\ walkPhase = "walking" /\ WalkTypes /\ AtRecord /\ place \in Nat /\ entry \in Nat
        BY DEF Walk, TableIInv, WalkTypes
      <4>2. Group \in Nat /\ Group > 1 /\ Records \in Nat /\ Records > 0 /\ place < GroupCount
        BY <4>1, TableFacts DEF AtRecord
      <4>3. entry <= LastEntry
        BY <4>1 DEF AtRecord
      <4>4. GroupCount = 1 /\ FirstRecord(entry) = Records
        BY <2>3, <4>1, <4>2, <4>3, LayoutFacts
      <4>5. place = 0
        BY <4>1, <4>2, <4>4
      <4>6. QED  BY <4>2, <4>4, <4>5 DEF Record
    <3>2. QED  BY <1>2, <2>0, <2>1, <2>3, <3>1, ReturnInv
  <2>4. CASE /\ walkPhase' = walkPhase
             /\ \/ /\ place < GroupCount - 1 /\ \E delta \in Deltas : key' = key + delta
                   /\ place' = place + 1 /\ entry' = entry
                \/ /\ place >= GroupCount - 1 /\ entry < LastEntry
                   /\ entry' = entry + 1 /\ place' = 0 /\ key' = EntryKey(entry + 1)
    BY <1>2, <2>0, <2>1, <2>4, OnwardInv
  <2>5. QED  BY <2>1, <2>2, <2>3, <2>4 DEF Advance, NextGroup
<1>3. QED  BY <1>1, <1>2

LEMMA TableNextInv == TableIInv /\ [SeekNext]_seekvars => TableIInv'
<1> SUFFICES ASSUME TableIInv, [SeekNext]_seekvars PROVE TableIInv'
  OBVIOUS
<1>1. CASE SeekNext
  BY <1>1, WalkInv DEF SeekNext
<1>2. CASE UNCHANGED seekvars
  <2>1. UNCHANGED <<seekTable, query, walkPhase, entry, place, key, walkError, windows, walked>>
    BY <1>2 DEF seekvars
  <2>2. WalkTypes'
    BY <2>1 DEF TableIInv, WalkTypes, Records
  <2>3. AtRecord'
    BY <2>1 DEF TableIInv, AtRecord, Records, LastEntry, GroupCount, Record, FirstRecord
  <2>4. ErrorInv' /\ WindowsInv'
    BY <2>1, SameWindow DEF TableIInv, ErrorInv, HeaderBroken, WindowsInv, Faulty
  <2>5. RightSoFar' /\ GroupKeyInv'
    <3>1. Record' = Record
      BY <2>1 DEF Record, FirstRecord, LastEntry, Records
    <3>2. QED  BY <2>1, <3>1
          DEF TableIInv, GroupKeyInv, RightSoFar, Lists, Spread, WantedBefore, IsWanted, WantedEnd
  <2>6. EndInv'
    BY <2>1 DEF TableIInv, EndInv, Lists, Wanted, IsWanted, WantedEnd
  <2>7. QED  BY <2>2, <2>3, <2>4, <2>5, <2>6 DEF TableIInv
<1>3. QED  BY <1>1, <1>2

(* The walk takes the records of the table in order, one by one            *)
(* (iter_lookup_windows).                                                  *)
THEOREM SeekInvariant == SeekSpec => []TableIInv
<1>1. QED  BY TableInitInv, TableNextInv, PTL DEF SeekSpec

(* If all records on the way can be read, an iteration answers exactly the *)
(* records of the range, in order, for every size of group and table, and  *)
(* a lookup fails only for a key the table does not have                   *)
(* (iter_lookup_windows, lookup_window).                                   *)
THEOREM AnswerAlwaysRange == SeekSpec => []AnswerIsRange
<1>1. TableIInv => AnswerIsRange
  <2> SUFFICES ASSUME TableIInv, Faultless
               PROVE  /\ walkPhase = "returned" => Lists(windows, Wanted)
                      /\ walkPhase = "raised" => query.lookup /\ Wanted = {}
    BY DEF AnswerIsRange
  <2>1. ~walkError
    BY DEF TableIInv, ErrorInv, Faultless, Faulty
  <2>2. QED  BY <2>1 DEF TableIInv, EndInv
<1>2. QED  BY <1>1, SeekInvariant, PTL

(* Wherever records, deltas or the header cannot be read, and whatever     *)
(* deltas a reader in error gives: behind a fault no secondary record is   *)
(* ever answered, in no later group either, a table without primary ones   *)
(* answers nothing more, and the windows before the fault and the keys of  *)
(* the groups' first records are right (LookupBitReader,                   *)
(* _decode_lookup_fields, iter_lookup_windows).                            *)
THEOREM FaultsAlwaysStay == SeekSpec => []FaultsStay
<1>1. TableIInv => FaultsStay
  BY DEF TableIInv, WindowsInv, WindowRight, FaultsStay
<1>2. QED  BY <1>1, SeekInvariant, PTL

-----------------------------------------------------------------------------
(* What an accepted dictionary holds, for every partition of the entries,  *)
(* every number and length of records and every order in which the slots   *)
(* are filled: each entry slices out the payload of its own record.        *)
SlotTypes == [count : Nat, used : Nat, end : Nat, pos : Nat]

DictionaryTypes ==
  /\ dictPhase \in {"segments", "records", "done", "failed"}
  /\ n2d00 \in Nat /\ n2d00 <= Ends[Len(Ends)] /\ n2d04 \in Nat
  /\ slots \in Seq(SlotTypes)
  /\ buf \in [1..MaxLen -> Bytes] /\ prevLen \in 0..MaxLen
  /\ outData \in [1..n2d04 -> Bytes \cup {Unset}]
  /\ outTable \in [0..n2d00 -> Int]
  /\ prev \in Seq(Bytes) /\ recs \in [0..n2d00 -> Seq(Bytes)]

(* The segment of slot s starts where that of the slot before ends.        *)
StartOf(s) == IF s = 1 THEN 0 ELSE slots[s - 1].end
EntriesEnd(s) == IF n2d00 < Ends[s + 1] THEN n2d00 ELSE Ends[s + 1]

SlotsApart ==
  \A s, t \in 1..Len(slots) :
    s < t => slots[s].end <= StartOf(t) /\ Ends[s + 1] <= Ends[t]
SlotsInBounds ==
  \A s \in 1..Len(slots) :
    /\ slots[s].count = EntriesEnd(s) - Ends[s] /\ slots[s].used <= slots[s].count
    /\ StartOf(s) <= slots[s].pos /\ slots[s].pos <= slots[s].end /\ slots[s].end <= n2d04
    /\ s < Len(slots) => Ends[s + 1] < n2d00
EntriesHaveSlots ==
  \A i \in 0..(n2d00 - 1) :
    Len(slots) > 0 /\ i < EntriesEnd(Len(slots)) =>
      \E s \in 1..Len(slots) : Ends[s] <= i /\ i < Ends[s] + slots[s].count

SlotsInv ==
  /\ Len(slots) < Len(Ends)
  /\ SlotsApart /\ SlotsInBounds /\ EntriesHaveSlots
  /\ dictPhase = "segments" =>
       /\ \A s \in 1..Len(slots) : Ends[s + 1] < n2d00 /\ slots[s].used = 0
       /\ \A k \in 1..n2d04 : outData[k] = Unset
  /\ dictPhase \in {"records", "done"} =>
       /\ Len(slots) > 0 /\ n2d00 <= Ends[Len(slots) + 1]
       /\ slots[Len(slots)].end = n2d04

(* Where the payload of entry i starts, and its length.                    *)
FromOf(i) == outTable[i] \div 16
PayloadLen(rec) == IF Len(rec) > 1 THEN Len(rec) - 1 ELSE 0

(* Entry u of slot s: its payload is in place, and the next one's, or the  *)
(* slot's position, is behind it.                                          *)
EntryInPlace(s, u) ==
  LET i == Ends[s] + u IN
  /\ outTable[i] \in Nat
  /\ StartOf(s) <= FromOf(i) /\ FromOf(i) + PayloadLen(recs[i]) <= slots[s].pos
  /\ FromOf(i) + PayloadLen(recs[i])
       = IF u + 1 = slots[s].used THEN slots[s].pos ELSE FromOf(i + 1)
  /\ \A j \in 1..PayloadLen(recs[i]) : outData[FromOf(i) + j] = recs[i][j + 1]

TableInv ==
  \A s \in 1..Len(slots) :
    /\ slots[s].used = 0 => slots[s].pos = StartOf(s)
    /\ slots[s].used > 0 => FromOf(Ends[s]) = StartOf(s)
    /\ \A u \in 0..(slots[s].used - 1) : EntryInPlace(s, u)
    /\ \A k \in (slots[s].pos + 1)..slots[s].end : outData[k] = Unset

DoneInv ==
  dictPhase = "done" =>
    /\ \A s \in 1..Len(slots) : slots[s].used = slots[s].count /\ slots[s].pos = slots[s].end
    /\ outTable[n2d00] = n2d04 * 16

BufferInv == prevLen = Len(prev) /\ \A i \in 1..prevLen : buf[i] = prev[i]

DictionaryIInv == DictionaryTypes /\ SlotsInv /\ TableInv /\ DoneInv /\ BufferInv

-----------------------------------------------------------------------------
LEMMA EndsFacts ==
  /\ Len(Ends) \in Nat /\ Len(Ends) > 1 /\ Ends[1] = 0 /\ MaxLen \in Nat /\ MaxLen > 0
  /\ \A s \in 1..Len(Ends) : Ends[s] \in Nat
  /\ \A s \in 1..(Len(Ends) - 1) : Ends[s] < Ends[s + 1]
  /\ Bytes \subseteq 0..255 /\ 0 \in Bytes
<1>1. Len(Ends) \in Nat /\ \A s \in 1..Len(Ends) : Ends[s] \in Nat
  BY DictionaryAssumption, LenProperties, ElementOfSeq
<1>2. QED  BY <1>1, DictionaryAssumption

LEMMA SlotFacts ==
  ASSUME DictionaryTypes
  PROVE  /\ Len(slots) \in Nat
         /\ \A s \in 1..Len(slots) :
              /\ slots[s] \in SlotTypes
              /\ slots[s].count \in Nat /\ slots[s].used \in Nat
              /\ slots[s].end \in Nat /\ slots[s].pos \in Nat /\ StartOf(s) \in Nat
<1>1. Len(slots) \in Nat /\ DOMAIN slots = 1..Len(slots)
  BY LenProperties DEF DictionaryTypes
<1>2. ASSUME NEW s \in 1..Len(slots)
      PROVE  /\ slots[s] \in SlotTypes
             /\ slots[s].count \in Nat /\ slots[s].used \in Nat
             /\ slots[s].end \in Nat /\ slots[s].pos \in Nat
  <2>1. slots[s] \in SlotTypes
    BY ElementOfSeq DEF DictionaryTypes
  <2>2. QED  BY <2>1 DEF SlotTypes
<1>3. ASSUME NEW s \in 1..Len(slots) PROVE StartOf(s) \in Nat
  <2>1. CASE s = 1
    BY <2>1 DEF StartOf
  <2>2. CASE s # 1
    <3>1. s - 1 \in 1..Len(slots)
      BY <1>1, <2>2
    <3>2. QED  BY <1>2, <2>2, <3>1 DEF StartOf
  <2>3. QED  BY <2>1, <2>2
<1>4. QED  BY <1>1, <1>2, <1>3

LEMMA DictionaryInitInv == DictionaryInit => DictionaryIInv
<1> SUFFICES ASSUME DictionaryInit PROVE DictionaryIInv
  OBVIOUS
<1>1. DictionaryTypes
  <2>1. n2d00 \in Nat /\ n2d00 <= Ends[Len(Ends)] /\ n2d04 \in Nat
    <3>1. Ends[Len(Ends)] \in Nat
      BY EndsFacts
    <3>2. QED  BY <3>1, DictionaryAssumption DEF DictionaryInit
  <2>2. slots \in Seq(SlotTypes) /\ prev \in Seq(Bytes)
    BY EmptySeq DEF DictionaryInit
  <2>3. buf \in [1..MaxLen -> Bytes] /\ prevLen \in 0..MaxLen
    BY EndsFacts DEF DictionaryInit
  <2>4. outData \in [1..n2d04 -> Bytes \cup {Unset}] /\ outTable \in [0..n2d00 -> Int]
    BY DEF DictionaryInit, Unset
  <2>5. recs \in [0..n2d00 -> Seq(Bytes)]
    BY EmptySeq DEF DictionaryInit
  <2>6. QED  BY <2>1, <2>2, <2>3, <2>4, <2>5 DEF DictionaryInit, DictionaryTypes
<1>2. Len(slots) = 0 /\ Len(prev) = 0
  BY EmptySeq DEF DictionaryInit
<1>3. SlotsInv
  BY <1>2, EndsFacts
  DEF DictionaryInit, SlotsInv, SlotsApart, SlotsInBounds, EntriesHaveSlots
<1>4. TableInv /\ DoneInv /\ BufferInv
  BY <1>2 DEF DictionaryInit, TableInv, DoneInv, BufferInv
<1>5. QED  BY <1>1, <1>3, <1>4 DEF DictionaryIInv

LEMMA RejectInv ==
  ASSUME DictionaryIInv, RejectBlock PROVE DictionaryIInv'
<1>1. /\ dictPhase' = "failed"
      /\ UNCHANGED <<n2d00, n2d04, slots, buf, prevLen, outData, outTable, prev, recs>>
  BY DEF RejectBlock
<1>2. DictionaryTypes' /\ BufferInv' /\ DoneInv'
  BY <1>1 DEF DictionaryIInv, DictionaryTypes, BufferInv, DoneInv
<1>3. SlotsInv'
  BY <1>1 DEF DictionaryIInv, SlotsInv, SlotsApart, SlotsInBounds, EntriesHaveSlots, StartOf, EntriesEnd
<1>4. TableInv'
  BY <1>1 DEF DictionaryIInv, TableInv, EntryInPlace, StartOf, FromOf
<1>5. QED  BY <1>2, <1>3, <1>4 DEF DictionaryIInv

-----------------------------------------------------------------------------
(* A segment more: the slot gets the entries and the bytes that follow     *)
(* those of the slots before.                                              *)
LEMMA ReadSegmentInv ==
  ASSUME DictionaryIInv, NEW delta \in Nat, ReadSegment(delta) PROVE DictionaryIInv'
<1>0. PICK n : n = Len(slots)
  OBVIOUS
<1> DEFINE new == SegmentSlot(delta)
<1>1. CASE RejectBlock
  BY <1>1, RejectInv
<1>2. CASE /\ DataPos + delta <= n2d04
           /\ n2d00 <= Ends[n + 2] => SumMatches(DataPos + delta)
           /\ slots' = Append(slots, new)
           /\ dictPhase' = IF n2d00 <= Ends[n + 2] THEN "records" ELSE dictPhase
           /\ UNCHANGED <<n2d00, n2d04, buf, prevLen, recordsRead, outData, outTable, prev, recs>>
  <2>1. /\ dictPhase = "segments" /\ DictionaryTypes /\ SlotsInv /\ TableInv /\ BufferInv
        /\ n \in Nat /\ n2d00 \in Nat /\ n2d04 \in Nat /\ n2d00 <= Ends[Len(Ends)]
        /\ slots \in Seq(SlotTypes)
    BY <1>0, SlotFacts DEF ReadSegment, DictionaryIInv, DictionaryTypes
  <2>2. /\ \A s \in 1..n : Ends[s + 1] < n2d00 /\ slots[s].used = 0
        /\ \A k \in 1..n2d04 : outData[k] = Unset
        /\ n < Len(Ends)
    BY <1>0, <2>1 DEF SlotsInv
  <2>3. n + 2 <= Len(Ends) /\ Ends[n + 1] <= n2d00
    <3>1. CASE n = 0
      BY <2>1, <3>1, EndsFacts
    <3>2. CASE n > 0
      <4>1. n \in 1..n /\ Ends[n + 1] < n2d00
        BY <2>1, <2>2, <3>2
      <4>2. n + 1 # Len(Ends)
        BY <2>1, <4>1, EndsFacts
      <4>3. QED  BY <2>1, <2>2, <4>1, <4>2, EndsFacts
    <3>3. QED  BY <2>1, <3>1, <3>2
  <2>4. /\ Ends[n + 1] \in Nat /\ Ends[n + 2] \in Nat /\ Ends[n + 1] < Ends[n + 2]
        /\ EntriesEnd(n + 1) \in Nat /\ Ends[n + 1] <= EntriesEnd(n + 1)
    <3>1. n + 1 \in 1..(Len(Ends) - 1) /\ n + 2 \in 1..Len(Ends) /\ n + 1 + 1 = n + 2
      BY <2>1, <2>3, EndsFacts
    <3>2. Ends[n + 1] \in Nat /\ Ends[n + 2] \in Nat /\ Ends[n + 1] < Ends[n + 2]
      BY <3>1, EndsFacts
    <3>3. QED  BY <2>1, <2>3, <3>1, <3>2 DEF EntriesEnd
  <2>5. /\ n = 0 => DataPos = 0
        /\ n > 0 => DataPos = slots[n].end
        /\ DataPos \in Nat
    <3>1. n = 0 <=> slots = <<>>
      BY <1>0, <2>1, EmptySeq
    <3>2. n > 0 => slots[n].end \in Nat
      BY <1>0, <2>1, SlotFacts
    <3>3. QED  BY <1>0, <2>1, <3>1, <3>2 DEF DataPos, Last
  <2>6. /\ new \in SlotTypes /\ new.count = EntriesEnd(n + 1) - Ends[n + 1] /\ new.used = 0
        /\ new.end = DataPos + delta /\ new.pos = DataPos
    <3>1. n + 1 + 1 = n + 2
      BY <2>1
    <3>2. new = [count |-> EntriesEnd(n + 1) - Ends[n + 1], used |-> 0,
                 end |-> DataPos + delta, pos |-> DataPos]
      BY <1>0, <3>1 DEF SegmentSlot, EntriesEnd
    <3>3. EntriesEnd(n + 1) - Ends[n + 1] \in Nat /\ DataPos + delta \in Nat
      BY <2>4, <2>5
    <3>4. QED  BY <2>5, <3>2, <3>3 DEF SlotTypes
  <2> HIDE DEF new
  <2>7. /\ slots' \in Seq(SlotTypes) /\ Len(slots') = n + 1
        /\ \A s \in 1..n : slots'[s] = slots[s]
        /\ slots'[n + 1] = new
    BY <1>0, <1>2, <2>1, <2>6, AppendProperties
  <2>8. /\ \A s \in 1..n : StartOf(s)' = StartOf(s)
        /\ StartOf(n + 1)' = DataPos
    <3>1. ASSUME NEW s \in 1..n PROVE StartOf(s)' = StartOf(s)
      <4>1. s # 1 => s - 1 \in 1..n
        BY <2>1
      <4>2. QED  BY <2>7, <4>1 DEF StartOf
    <3>2. n > 0 => slots'[n] = slots[n]
      BY <2>1, <2>7
    <3>3. StartOf(n + 1)' = DataPos
      BY <2>1, <2>5, <3>2 DEF StartOf
    <3>4. QED  BY <3>1, <3>3
  <2>9. DictionaryTypes'
    BY <1>2, <2>1, <2>7 DEF DictionaryTypes
  <2>10. SlotsApart'
    <3>1. ASSUME NEW s \in 1..Len(slots'), NEW t \in 1..Len(slots'), s < t
          PROVE  slots'[s].end <= StartOf(t)' /\ Ends[s + 1] <= Ends[t]
      <4>1. CASE t <= n
        <5>1. s \in 1..n /\ t \in 1..n
          BY <2>1, <2>7, <3>1, <4>1
        <5>2. QED  BY <1>0, <2>1, <2>7, <2>8, <3>1, <5>1 DEF SlotsInv, SlotsApart
      <4>2. CASE t = n + 1
        <5>1. s \in 1..n /\ n \in 1..n
          BY <2>1, <2>7, <3>1, <4>2
        <5>2. CASE s = n
          <6>1. slots'[s].end = DataPos /\ StartOf(t)' = DataPos
            BY <2>1, <2>5, <2>7, <2>8, <4>2, <5>1, <5>2
          <6>2. Ends[s + 1] = Ends[t]
            BY <4>2, <5>2
          <6>3. QED  BY <2>4, <2>5, <4>2, <6>1, <6>2
        <5>3. CASE s < n
          <6>1. slots[s].end <= StartOf(n) /\ Ends[s + 1] <= Ends[n]
            BY <1>0, <2>1, <5>1, <5>3 DEF SlotsInv, SlotsApart
          <6>2. StartOf(n) <= slots[n].pos /\ slots[n].pos <= slots[n].end
            BY <1>0, <2>1, <5>1 DEF SlotsInv, SlotsInBounds
          <6>3. n \in 1..(Len(Ends) - 1) /\ s + 1 \in 1..Len(Ends)
            BY <2>1, <2>3, <5>1, EndsFacts
          <6>4. Ends[n] < Ends[n + 1] /\ Ends[n] \in Nat /\ Ends[s + 1] \in Nat
            BY <6>3, EndsFacts
          <6>5. slots[s].end <= slots[n].end
            BY <2>1, <5>1, <6>1, <6>2, <1>0, SlotFacts
          <6>6. slots'[s].end = slots[s].end /\ StartOf(t)' = slots[n].end
            BY <2>1, <2>5, <2>7, <2>8, <4>2, <5>1
          <6>7. QED  BY <2>4, <4>2, <6>1, <6>4, <6>5, <6>6
        <5>4. QED  BY <2>1, <5>1, <5>2, <5>3
      <4>3. QED  BY <2>1, <2>7, <4>1, <4>2
    <3>2. QED  BY <3>1 DEF SlotsApart
  <2>11. SlotsInBounds'
    <3>1. ASSUME NEW s \in 1..Len(slots')
          PROVE  /\ slots'[s].count = EntriesEnd(s)' - Ends[s] /\ slots'[s].used <= slots'[s].count
                 /\ StartOf(s)' <= slots'[s].pos /\ slots'[s].pos <= slots'[s].end
                 /\ slots'[s].end <= n2d04'
                 /\ s < Len(slots') => Ends[s + 1] < n2d00'
      <4>1. EntriesEnd(s)' = EntriesEnd(s) /\ n2d04' = n2d04 /\ n2d00' = n2d00
        BY <1>2 DEF EntriesEnd
      <4>2. CASE s <= n
        <5>1. s \in 1..n
          BY <2>1, <2>7, <4>2
        <5>2. QED  BY <1>0, <2>1, <2>2, <2>7, <2>8, <4>1, <5>1 DEF SlotsInv, SlotsInBounds
      <4>3. CASE s = n + 1
        BY <1>2, <2>4, <2>5, <2>6, <2>7, <2>8, <4>1, <4>3
      <4>4. QED  BY <2>1, <2>7, <4>2, <4>3
    <3>2. QED  BY <3>1 DEF SlotsInBounds
  <2>12. EntriesHaveSlots'
    <3>1. ASSUME NEW i \in 0..(n2d00 - 1), i < EntriesEnd(n + 1)
          PROVE  \E s \in 1..(n + 1) : Ends[s] <= i /\ i < Ends[s] + slots'[s].count
      <4>1. CASE i >= Ends[n + 1]
        <5>1. Ends[n + 1] <= i /\ i < Ends[n + 1] + slots'[n + 1].count
          BY <2>1, <2>4, <2>6, <2>7, <3>1, <4>1
        <5>2. QED  BY <2>1, <5>1
      <4>2. CASE i < Ends[n + 1]
        <5>1. n > 0
          BY <2>1, <4>2, EndsFacts
        <5>2. Ends[n + 1] < n2d00
          BY <2>1, <2>2, <5>1
        <5>3. i < EntriesEnd(n)
          BY <2>1, <2>4, <4>2, <5>2 DEF EntriesEnd
        <5>4. PICK s \in 1..n : Ends[s] <= i /\ i < Ends[s] + slots[s].count
          BY <1>0, <2>1, <5>1, <5>3 DEF SlotsInv, EntriesHaveSlots
        <5>5. s \in 1..(n + 1) /\ slots'[s] = slots[s]
          BY <2>1, <2>7
        <5>6. QED  BY <5>4, <5>5
      <4>3. QED  BY <2>1, <2>4, <4>1, <4>2
    <3>2. EntriesEnd(n + 1)' = EntriesEnd(n + 1) /\ n2d00' = n2d00
      BY <1>2 DEF EntriesEnd
    <3>3. QED  BY <2>7, <3>1, <3>2 DEF EntriesHaveSlots
  <2>13. SlotsInv'
    <3>1. CASE n2d00 <= Ends[n + 2]
      <4>1. dictPhase' = "records" /\ DataPos + delta = n2d04
        BY <1>2, <3>1 DEF SumMatches
      <4>2. Len(slots') > 0 /\ slots'[Len(slots')].end = n2d04' /\ Len(slots') + 1 = n + 2
        BY <1>2, <2>1, <2>6, <2>7, <4>1
      <4>3. n2d00' <= Ends[Len(slots') + 1]
        BY <1>2, <3>1, <4>2
      <4>4. Len(slots') < Len(Ends)
        BY <2>1, <2>3, <2>7, EndsFacts
      <4>5. QED  BY <2>10, <2>11, <2>12, <4>1, <4>2, <4>3, <4>4 DEF SlotsInv
    <3>2. CASE ~(n2d00 <= Ends[n + 2])
      <4>1. dictPhase' = "segments" /\ Ends[n + 1 + 1] < n2d00
        <5>1. n + 1 + 1 = n + 2
          BY <2>1
        <5>2. QED  BY <1>2, <2>1, <2>4, <3>2, <5>1
      <4>2. ASSUME NEW s \in 1..Len(slots') PROVE Ends[s + 1] < n2d00' /\ slots'[s].used = 0
        <5>1. CASE s <= n
          BY <1>2, <2>1, <2>2, <2>7, <5>1
        <5>2. CASE s = n + 1
          BY <1>2, <2>6, <2>7, <4>1, <5>2
        <5>3. QED  BY <2>1, <2>7, <5>1, <5>2
      <4>3. Len(slots') < Len(Ends)
        BY <2>1, <2>3, <2>7, EndsFacts
      <4>4. \A k \in 1..n2d04' : outData'[k] = Unset
        BY <1>2, <2>2
      <4>5. QED
        BY <2>10, <2>11, <2>12, <4>1, <4>2, <4>3, <4>4 DEF SlotsInv
    <3>3. QED  BY <3>1, <3>2
  <2>14. TableInv'
    <3>1. ASSUME NEW s \in 1..Len(slots')
          PROVE  slots'[s].used = 0 /\ slots'[s].pos = StartOf(s)' /\ slots'[s].end <= n2d04
      <4>1. CASE s <= n
        <5>1. s \in 1..n
          BY <2>1, <2>7, <4>1
        <5>2. slots[s].used = 0 /\ slots[s].pos = StartOf(s) /\ slots[s].end <= n2d04
          BY <1>0, <2>1, <2>2, <5>1 DEF TableInv, SlotsInv, SlotsInBounds
        <5>3. QED  BY <2>7, <2>8, <5>1, <5>2
      <4>2. CASE s = n + 1
        BY <1>2, <2>6, <2>7, <2>8, <4>2
      <4>3. QED  BY <2>1, <2>7, <4>1, <4>2
    <3>2. ASSUME NEW s \in 1..Len(slots') PROVE slots'[s].pos \in Nat /\ slots'[s].end \in Nat
      <4>1. slots'[s] \in SlotTypes
        BY <2>7, ElementOfSeq
      <4>2. QED  BY <4>1 DEF SlotTypes
    <3>3. ASSUME NEW s \in 1..Len(slots')
          PROVE  /\ \A u \in 0..(slots'[s].used - 1) : EntryInPlace(s, u)'
                 /\ \A k \in (slots'[s].pos + 1)..slots'[s].end : outData'[k] = Unset
      <4>1. 0..(slots'[s].used - 1) = {}
        BY <3>1
      <4>2. \A k \in (slots'[s].pos + 1)..slots'[s].end : k \in 1..n2d04
        BY <2>1, <3>1, <3>2
      <4>3. QED  BY <1>2, <2>2, <4>1, <4>2
    <3>4. QED  BY <3>1, <3>3 DEF TableInv
  <2>15. DoneInv' /\ BufferInv'
    BY <1>2, <2>1 DEF DoneInv, BufferInv
  <2>16. QED  BY <2>9, <2>13, <2>14, <2>15 DEF DictionaryIInv
<1>3. QED  BY <1>0, <1>1, <1>2 DEF ReadSegment

-----------------------------------------------------------------------------
(* The piece of a sequence of bytes that a slice takes.                    *)
LEMMA PieceFacts ==
  ASSUME NEW b, NEW L \in Nat, NEW first \in Nat \ {0}, \A i \in 1..L : b[i] \in Bytes
  PROVE  /\ SubSeq(b, first, L) \in Seq(Bytes)
         /\ Len(SubSeq(b, first, L)) = IF first <= L THEN L - first + 1 ELSE 0
         /\ \A i \in 1..(L - first + 1) : SubSeq(b, first, L)[i] = b[first + i - 1]
<1>1. \A i \in first..L : b[i] \in Bytes
  OBVIOUS
<1>2. QED  BY <1>1, SubSeqProperties

(* What Store does, with the record in the place of the buffer.            *)
RecordStored(s, rec) ==
  LET from == slots[s].pos
      index == Ends[s] + slots[s].used
      len == PayloadLen(rec)
  IN
  /\ s \in 1..Len(slots) /\ rec \in Seq(Bytes)
  /\ slots[s].used < slots[s].count /\ from + len <= slots[s].end
  /\ \E op \in 0..10 : outTable' = [outTable EXCEPT ![index] = from * 16 + op]
  /\ slots' = [slots EXCEPT ![s].used = @ + 1, ![s].pos = @ + len]
  /\ outData' = [k \in 1..n2d04 |->
                   IF k \in (from + 1)..(from + len) THEN rec[k - from + 1] ELSE outData[k]]
  /\ recs' = [recs EXCEPT ![index] = rec]

LEMMA StoreFacts ==
  ASSUME DictionaryTypes, BufferInv, NEW shared \in Nat, NEW suffix \in Seq(Bytes), NEW s,
         Storable(shared, suffix, s), Store(shared, suffix, s)
  PROVE  /\ RecordStored(s, prev') /\ BufferInv'
         /\ buf' \in [1..MaxLen -> Bytes] /\ prevLen' \in 0..MaxLen /\ prev' \in Seq(Bytes)
<1> DEFINE L == shared + Len(suffix)
           buffer == Overlay(shared, suffix)
           rec == SubSeq(buffer, 1, L)
           payload == SubSeq(buffer, 2, L)
<1>1. /\ MaxLen \in Nat /\ MaxLen > 0 /\ Bytes \subseteq 0..255
      /\ Len(suffix) \in Nat /\ \A i \in 1..Len(suffix) : suffix[i] \in Bytes
      /\ buf \in [1..MaxLen -> Bytes] /\ prev \in Seq(Bytes) /\ prevLen \in 0..MaxLen
      /\ prevLen = Len(prev) /\ \A i \in 1..prevLen : buf[i] = prev[i] /\ prev[i] \in Bytes
  BY EndsFacts, LenProperties, ElementOfSeq DEF DictionaryTypes, BufferInv
<1>2. /\ L \in Nat /\ L <= MaxLen /\ shared <= prevLen
  BY <1>1 DEF Storable, SharedFits
<1>3. /\ buffer \in [1..MaxLen -> Bytes]
      /\ \A i \in 1..L : buffer[i] = IF i <= shared THEN buf[i] ELSE suffix[i - shared]
  <2>1. ASSUME NEW i \in 1..MaxLen
        PROVE  /\ i \in (shared + 1)..(shared + Len(suffix)) => i - shared \in 1..Len(suffix)
               /\ (IF i \in (shared + 1)..(shared + Len(suffix)) THEN suffix[i - shared] ELSE buf[i])
                     \in Bytes
    BY <1>1
  <2>2. buffer \in [1..MaxLen -> Bytes]
    BY <2>1 DEF Overlay
  <2>3. ASSUME NEW i \in 1..L
        PROVE  buffer[i] = IF i <= shared THEN buf[i] ELSE suffix[i - shared]
    <3>1. i \in 1..MaxLen /\ (i \in (shared + 1)..(shared + Len(suffix)) <=> ~(i <= shared))
      BY <1>1, <1>2
    <3>2. QED  BY <3>1 DEF Overlay
  <2>4. QED  BY <2>2, <2>3
<1>4. /\ prev' \in Seq(Bytes) /\ Len(prev') = L
      /\ \A i \in 1..L : prev'[i] = buffer[i]
  <2>1. Min({shared, Len(prev)}) = shared
    BY <1>1, <1>2 DEF Min
  <2>2. /\ SubSeq(prev, 1, shared) \in Seq(Bytes) /\ Len(SubSeq(prev, 1, shared)) = shared
        /\ \A i \in 1..shared : SubSeq(prev, 1, shared)[i] = prev[i]
    <3>1. \A i \in 1..shared : prev[i] \in Bytes
      BY <1>1, <1>2
    <3>2. QED  BY <3>1, PieceFacts
  <2> DEFINE start == SubSeq(prev, 1, shared)
  <2>3. prev' = start \o suffix
    BY <2>1 DEF Store
  <2> HIDE DEF start
  <2>4. start \in Seq(Bytes) /\ Len(start) = shared /\ \A i \in 1..shared : start[i] = prev[i]
    BY <2>2 DEF start
  <2>5. /\ prev' \in Seq(Bytes) /\ Len(prev') = L
        /\ \A i \in 1..L : prev'[i] = IF i <= shared THEN start[i] ELSE suffix[i - shared]
    BY <2>3, <2>4, ConcatProperties
  <2>6. ASSUME NEW i \in 1..L PROVE prev'[i] = buffer[i]
    <3>1. CASE i <= shared
      <4>1. i \in 1..shared /\ i \in 1..prevLen
        BY <1>1, <1>2, <3>1
      <4>2. QED  BY <1>1, <1>3, <2>4, <2>5, <3>1, <4>1
    <3>2. CASE ~(i <= shared)
      BY <1>3, <2>5, <3>2
    <3>3. QED  BY <3>1, <3>2
  <2>7. QED  BY <2>5, <2>6
<1>5. /\ Len(payload) = PayloadLen(prev')
      /\ \A i \in 1..PayloadLen(prev') : payload[i] = prev'[i + 1]
      /\ Len(SubSeq(rec, 2, Len(rec))) = PayloadLen(prev')
  <2> HIDE DEF buffer
  <2>1. ASSUME NEW i \in 1..L PROVE buffer[i] \in Bytes
    <3>1. i \in 1..MaxLen
      BY <1>1, <1>2
    <3>2. QED  BY <1>3, <3>1
  <2>2. /\ Len(payload) = IF 2 <= L THEN L - 2 + 1 ELSE 0
        /\ \A i \in 1..(L - 2 + 1) : payload[i] = buffer[2 + i - 1]
    BY <1>2, <2>1, PieceFacts
  <2>3. /\ Len(rec) = L /\ \A i \in 1..L : rec[i] = buffer[1 + i - 1]
    BY <1>2, <2>1, PieceFacts
  <2>4. \A i \in 1..L : rec[i] \in Bytes
    BY <1>2, <2>1, <2>3
  <2> HIDE DEF rec
  <2>5. Len(SubSeq(rec, 2, L)) = IF 2 <= L THEN L - 2 + 1 ELSE 0
    BY <1>2, <2>4, PieceFacts
  <2>6. PayloadLen(prev') = IF 2 <= L THEN L - 2 + 1 ELSE 0
    BY <1>2, <1>4 DEF PayloadLen
  <2>7. ASSUME NEW i \in 1..PayloadLen(prev') PROVE payload[i] = prev'[i + 1]
    <3>1. i \in 1..(L - 2 + 1) /\ i + 1 \in 1..L /\ 2 + i - 1 = i + 1
      BY <1>2, <2>6
    <3>2. QED  BY <1>4, <2>2, <3>1
  <2>8. QED  BY <2>2, <2>3, <2>5, <2>6, <2>7
<1>6. /\ s \in DOMAIN slots /\ slots[s].used < slots[s].count
      /\ slots[s].pos + PayloadLen(prev') <= slots[s].end /\ buffer[1] \in 0..10
  BY <1>5 DEF Storable, Slot, DataFits, Valid
<1>7. s \in 1..Len(slots)
  BY <1>6, LenProperties DEF DictionaryTypes
<1> DEFINE from == slots[s].pos
           index == Ends[s] + slots[s].used
<1>8. /\ buf' = buffer /\ prevLen' = L
      /\ outTable' = [outTable EXCEPT ![index] = from * 16 + buffer[1]]
      /\ slots' = [slots EXCEPT ![s].used = @ + 1, ![s].pos = @ + Len(payload)]
      /\ recs' = [recs EXCEPT ![index] = prev']
      /\ outData' = [k \in 1..n2d04 |->
                       IF k \in (from + 1)..(from + Len(payload)) THEN payload[k - from]
                       ELSE outData[k]]
  BY DEF Store, Slot
<1>9. outData' = [k \in 1..n2d04 |->
                   IF k \in (from + 1)..(from + PayloadLen(prev')) THEN prev'[k - from + 1]
                   ELSE outData[k]]
  <2>1. from \in Nat
    BY <1>7, SlotFacts
  <2>2. ASSUME NEW k \in 1..n2d04, k \in (from + 1)..(from + Len(payload))
        PROVE  payload[k - from] = prev'[k - from + 1]
    <3>1. k - from \in 1..PayloadLen(prev')
      BY <1>2, <1>4, <1>5, <2>1, <2>2 DEF PayloadLen
    <3>2. QED  BY <1>5, <3>1
  <2>3. QED  BY <1>5, <1>8, <2>2
<1>10. BufferInv'
  BY <1>4, <1>8 DEF BufferInv
<1>11. RecordStored(s, prev')
  BY <1>4, <1>5, <1>6, <1>7, <1>8, <1>9 DEF RecordStored
<1>12. QED  BY <1>2, <1>3, <1>4, <1>8, <1>10, <1>11

-----------------------------------------------------------------------------
(* A record more: its slot has room for one entry and for its payload, and *)
(* nothing that is in the table or in the data lies there.                 *)
LEMMA StoreInv ==
  ASSUME DictionaryIInv, dictPhase = "records", UNCHANGED <<dictPhase, n2d00, n2d04>>,
         NEW s, NEW rec, RecordStored(s, rec),
         BufferInv', buf' \in [1..MaxLen -> Bytes], prevLen' \in 0..MaxLen, prev' \in Seq(Bytes)
  PROVE  DictionaryIInv'
<1>0. PICK n, from, index, len :
        n = Len(slots) /\ from = slots[s].pos /\ index = Ends[s] + slots[s].used
        /\ len = PayloadLen(rec)
  OBVIOUS
<1>1. PICK op \in 0..10 : outTable' = [outTable EXCEPT ![index] = from * 16 + op]
  BY <1>0 DEF RecordStored
<1>2. /\ s \in 1..n /\ rec \in Seq(Bytes)
      /\ slots[s].used < slots[s].count /\ from + len <= slots[s].end
      /\ slots' = [slots EXCEPT ![s].used = @ + 1, ![s].pos = @ + len]
      /\ outData' = [k \in 1..n2d04 |->
                       IF k \in (from + 1)..(from + len) THEN rec[k - from + 1] ELSE outData[k]]
      /\ recs' = [recs EXCEPT ![index] = rec]
      /\ n2d00' = n2d00 /\ n2d04' = n2d04 /\ dictPhase' = dictPhase
  BY <1>0 DEF RecordStored
<1>3. /\ DictionaryTypes /\ SlotsInv /\ TableInv /\ DoneInv
      /\ n \in Nat /\ n2d00 \in Nat /\ n2d04 \in Nat /\ slots \in Seq(SlotTypes)
      /\ n < Len(Ends) /\ DOMAIN slots = 1..n
      /\ outData \in [1..n2d04 -> Bytes \cup {Unset}]
      /\ outTable \in [0..n2d00 -> Int] /\ recs \in [0..n2d00 -> Seq(Bytes)]
  BY <1>0, LenProperties DEF DictionaryIInv, DictionaryTypes, SlotsInv
<1>a. n \in Nat /\ n2d00 \in Nat /\ n2d04 \in Nat /\ index = Ends[s] + slots[s].used
  BY <1>0, <1>3
<1>b. s \in 1..n /\ slots[s].used < slots[s].count /\ from + len <= slots[s].end
  BY <1>2
<1>4. \A t \in 1..n :
        /\ slots[t] \in SlotTypes
        /\ slots[t].count \in Nat /\ slots[t].used \in Nat
        /\ slots[t].end \in Nat /\ slots[t].pos \in Nat /\ StartOf(t) \in Nat
  BY <1>0, <1>3, SlotFacts
<1>5. /\ Len(rec) \in Nat /\ len \in Nat /\ from \in Nat
      /\ \A j \in 1..Len(rec) : rec[j] \in Bytes
      /\ len > 0 => len = Len(rec) - 1
      /\ \A j \in 1..len : j + 1 \in 1..Len(rec)
  <2>1. Len(rec) \in Nat /\ \A j \in 1..Len(rec) : rec[j] \in Bytes
    BY <1>2, LenProperties, ElementOfSeq
  <2>2. QED  BY <1>0, <1>2, <1>4, <2>1 DEF PayloadLen
<1>6. \A t \in 1..n :
        /\ Ends[t] \in Nat /\ Ends[t + 1] \in Nat /\ Ends[t] < Ends[t + 1]
        /\ slots[t].count = EntriesEnd(t) - Ends[t] /\ slots[t].used <= slots[t].count
        /\ StartOf(t) <= slots[t].pos /\ slots[t].pos <= slots[t].end /\ slots[t].end <= n2d04
        /\ EntriesEnd(t) <= n2d00 /\ EntriesEnd(t) <= Ends[t + 1] /\ EntriesEnd(t) \in Nat
  <2>1. ASSUME NEW t \in 1..n
        PROVE  /\ Ends[t] \in Nat /\ Ends[t + 1] \in Nat /\ Ends[t] < Ends[t + 1]
               /\ EntriesEnd(t) <= n2d00 /\ EntriesEnd(t) <= Ends[t + 1] /\ EntriesEnd(t) \in Nat
    <3>1. t \in 1..(Len(Ends) - 1) /\ t \in 1..Len(Ends) /\ t + 1 \in 1..Len(Ends)
      BY <1>3, EndsFacts
    <3>2. Ends[t] \in Nat /\ Ends[t + 1] \in Nat /\ Ends[t] < Ends[t + 1]
      BY <3>1, EndsFacts
    <3>3. QED  BY <1>3, <3>2 DEF EntriesEnd
  <2>2. QED  BY <1>0, <1>3, <2>1 DEF SlotsInv, SlotsInBounds
<1>7. /\ index \in 0..(n2d00 - 1) /\ index \in Nat
      /\ outTable'[index] = from * 16 + op /\ recs'[index] = rec
      /\ \A i \in 0..n2d00 : i # index => outTable'[i] = outTable[i] /\ recs'[i] = recs[i]
  <2>1. index \in 0..(n2d00 - 1) /\ index \in Nat
    <3>1. /\ slots[s].used \in Nat /\ slots[s].count \in Nat /\ Ends[s] \in Nat
          /\ slots[s].count = EntriesEnd(s) - Ends[s] /\ EntriesEnd(s) <= n2d00
          /\ EntriesEnd(s) \in Nat
      BY <1>b, <1>4, <1>6
    <3>2. QED  BY <1>a, <1>b, <3>1
  <2>2. QED  BY <1>1, <1>2, <1>3, <2>1
<1>8. /\ slots' \in Seq(SlotTypes) /\ Len(slots') = n
      /\ slots'[s].used = slots[s].used + 1 /\ slots'[s].pos = from + len
      /\ \A t \in 1..n : /\ slots'[t].count = slots[t].count /\ slots'[t].end = slots[t].end
                         /\ t # s => slots'[t] = slots[t]
  <2>1. slots' = [slots EXCEPT ![s] = [slots[s] EXCEPT !.used = @ + 1, !.pos = @ + len]]
    BY <1>2
  <2> DEFINE slot == [slots[s] EXCEPT !.used = @ + 1, !.pos = @ + len]
  <2>2. /\ slot \in SlotTypes /\ slot.used = slots[s].used + 1 /\ slot.pos = from + len
        /\ slot.count = slots[s].count /\ slot.end = slots[s].end
    <3>1. slots[s] \in SlotTypes /\ slots[s].used + 1 \in Nat /\ slots[s].pos + len \in Nat
      BY <1>2, <1>4, <1>5
    <3>2. QED  BY <1>0, <3>1 DEF SlotTypes
  <2>3. slots' = [slots EXCEPT ![s] = slot]
    BY <2>1
  <2> HIDE DEF slot
  <2>4. slots' \in Seq(SlotTypes) /\ Len(slots') = n
    <3>1. s \in 1..Len(slots)
      BY <1>0, <1>2
    <3>2. [slots EXCEPT ![s] = slot] \in Seq(SlotTypes)
          /\ Len([slots EXCEPT ![s] = slot]) = Len(slots)
      BY <1>3, <2>2, <3>1, ExceptSeq
    <3>3. QED  BY <1>0, <2>3, <3>2
  <2>5. \A t \in 1..n : slots'[t] = IF t = s THEN slot ELSE slots[t]
    BY <1>3, <2>3
  <2>6. QED  BY <1>2, <2>2, <2>4, <2>5
<1>9. \A t \in 1..n : StartOf(t)' = StartOf(t) /\ EntriesEnd(t)' = EntriesEnd(t)
  <2>1. ASSUME NEW t \in 1..n PROVE StartOf(t)' = StartOf(t)
    <3>1. t # 1 => t - 1 \in 1..n
      BY <1>3
    <3>2. QED  BY <1>8, <3>1 DEF StartOf
  <2>2. QED  BY <1>2, <2>1 DEF EntriesEnd
<1>10. DictionaryTypes'
  <2>1. outTable' \in [0..n2d00 -> Int] /\ recs' \in [0..n2d00 -> Seq(Bytes)]
    <3>1. from * 16 + op \in Int
      BY <1>5
    <3>2. QED  BY <1>1, <1>2, <1>3, <3>1
  <2>2. ASSUME NEW k \in 1..n2d04, k \in (from + 1)..(from + len)
        PROVE  rec[k - from + 1] \in Bytes
    <3>1. k - from + 1 \in 1..Len(rec)
      BY <1>3, <1>5, <2>2
    <3>2. QED  BY <1>5, <3>1
  <2>3. outData' \in [1..n2d04 -> Bytes \cup {Unset}]
    BY <1>2, <1>3, <2>2
  <2>4. QED  BY <1>2, <1>3, <1>8, <2>1, <2>3 DEF DictionaryTypes
<1>11. SlotsInv'
  <2>1. SlotsApart'
    BY <1>0, <1>3, <1>8, <1>9 DEF SlotsInv, SlotsApart
  <2>2. SlotsInBounds'
    <3>1. ASSUME NEW t \in 1..n
          PROVE  /\ slots'[t].count = EntriesEnd(t)' - Ends[t] /\ slots'[t].used <= slots'[t].count
                 /\ StartOf(t)' <= slots'[t].pos /\ slots'[t].pos <= slots'[t].end
                 /\ slots'[t].end <= n2d04'
                 /\ t < Len(slots') => Ends[t + 1] < n2d00'
      <4>1. t < n => Ends[t + 1] < n2d00
        BY <1>0, <1>3 DEF SlotsInv, SlotsInBounds
      <4>2. CASE t = s
        <5>1. /\ slots'[t].count = slots[t].count /\ slots'[t].end = slots[t].end
              /\ slots'[t].used = slots[t].used + 1 /\ slots'[t].pos = from + len
              /\ StartOf(t)' = StartOf(t) /\ EntriesEnd(t)' = EntriesEnd(t)
              /\ n2d00' = n2d00 /\ n2d04' = n2d04 /\ Len(slots') = n
          BY <1>2, <1>8, <1>9, <4>2
        <5>2. /\ slots[t].used \in Nat /\ slots[t].count \in Nat /\ StartOf(t) \in Nat
              /\ slots[t].pos \in Nat /\ slots[t].count = EntriesEnd(t) - Ends[t]
              /\ StartOf(t) <= slots[t].pos /\ slots[t].end <= n2d04
          BY <1>4, <1>6
        <5>3. /\ slots[t].used < slots[t].count /\ from + len <= slots[t].end
              /\ from = slots[t].pos /\ len \in Nat
          BY <1>0, <1>b, <1>5, <4>2
        <5>4. QED  BY ONLY <4>1, <5>1, <5>2, <5>3
      <4>3. CASE t # s
        <5>1. slots'[t] = slots[t] /\ n2d00' = n2d00 /\ n2d04' = n2d04 /\ Len(slots') = n
          BY <1>2, <1>8, <4>3
        <5>2. StartOf(t)' = StartOf(t) /\ EntriesEnd(t)' = EntriesEnd(t)
          BY <1>9
        <5>3. /\ slots[t].count = EntriesEnd(t) - Ends[t] /\ slots[t].used <= slots[t].count
              /\ StartOf(t) <= slots[t].pos /\ slots[t].pos <= slots[t].end
              /\ slots[t].end <= n2d04
          BY <1>6
        <5>4. QED  BY ONLY <4>1, <5>1, <5>2, <5>3
      <4>4. QED  BY <4>2, <4>3
    <3>2. QED  BY <1>8, <3>1 DEF SlotsInBounds
  <2>3. EntriesHaveSlots'
    <3>1. ASSUME NEW i \in 0..(n2d00 - 1), n > 0, i < EntriesEnd(n)
          PROVE  \E t \in 1..n : Ends[t] <= i /\ i < Ends[t] + slots'[t].count
      <4>1. PICK t \in 1..n : Ends[t] <= i /\ i < Ends[t] + slots[t].count
        BY <1>0, <1>3, <3>1 DEF SlotsInv, EntriesHaveSlots
      <4>2. QED  BY <1>8, <4>1
    <3>2. n > 0 => EntriesEnd(n)' = EntriesEnd(n)
      BY <1>3, <1>9
    <3>3. QED  BY <1>2, <1>8, <3>1, <3>2 DEF EntriesHaveSlots
  <2>4. n > 0 /\ n2d00 <= Ends[n + 1] /\ slots[n].end = n2d04 /\ n \in 1..n
    BY <1>0, <1>3 DEF SlotsInv
  <2>5. QED  BY <1>2, <1>3, <1>8, <2>1, <2>2, <2>3, <2>4 DEF SlotsInv
<1>12. ASSUME NEW k \in 1..n2d04, ~(k > from /\ k <= from + len) PROVE outData'[k] = outData[k]
  BY <1>2, <1>5, <1>12
<1>13. ASSUME NEW j \in 1..len PROVE outData'[from + j] = rec[j + 1]
  <2>1. slots[s].end \in Nat /\ slots[s].end <= n2d04
    BY <1>2, <1>4, <1>6
  <2>2. PICK k : k = from + j
    OBVIOUS
  <2>3. k \in 1..n2d04 /\ k \in (from + 1)..(from + len) /\ k - from + 1 = j + 1
    <3>1. from \in Nat /\ len \in Nat /\ n2d04 \in Nat /\ from + len <= slots[s].end
      BY <1>a, <1>b, <1>5
    <3>2. QED  BY ONLY <2>1, <2>2, <3>1, j \in 1..len
  <2>4. outData'[k] = rec[k - from + 1]
    BY <1>2, <2>3
  <2>5. QED  BY <2>2, <2>3, <2>4
(* The entries that were there: elsewhere in the table and in the data.    *)
<1>14. ASSUME NEW t \in 1..n, NEW u \in 0..(slots[t].used - 1)
       PROVE  /\ Ends[t] + u \in 0..(n2d00 - 1) /\ Ends[t] + u # index
              /\ u \in Nat /\ u + 1 <= slots[t].used
  <2>1. /\ Ends[t] \in Nat /\ Ends[t + 1] \in Nat
        /\ slots[t].used \in Nat /\ slots[t].used <= EntriesEnd(t) - Ends[t]
        /\ EntriesEnd(t) \in Nat /\ EntriesEnd(t) <= n2d00 /\ EntriesEnd(t) <= Ends[t + 1]
    BY <1>4, <1>6
  <2>2. /\ Ends[s] \in Nat /\ Ends[s + 1] \in Nat
        /\ slots[s].used \in Nat /\ slots[s].used < EntriesEnd(s) - Ends[s]
        /\ EntriesEnd(s) \in Nat /\ EntriesEnd(s) <= Ends[s + 1]
    BY <1>b, <1>4, <1>6
  <2>3. /\ Ends[t] + u \in 0..(n2d00 - 1) /\ u \in Nat /\ u + 1 <= slots[t].used
        /\ Ends[t] <= Ends[t] + u /\ Ends[t] + u < EntriesEnd(t)
    <3>1. n2d00 \in Nat
      BY <1>a
    <3>2. QED  BY ONLY <2>1, <3>1, u \in 0..(slots[t].used - 1)
  <2>4. index \in Nat /\ Ends[s] <= index /\ index < EntriesEnd(s)
    BY <1>a, <2>2
  <2>5. CASE t = s
    BY <1>a, <2>2, <2>3, <2>5
  <2>6. CASE t < s
    <3>1. Ends[t + 1] <= Ends[s]
      BY <1>0, <1>2, <1>3, <2>6 DEF SlotsInv, SlotsApart
    <3>2. EntriesEnd(t) <= Ends[s]
      BY <2>1, <2>2, <3>1
    <3>3. QED  BY <2>1, <2>2, <2>3, <2>4, <3>2
  <2>7. CASE s < t
    <3>1. Ends[s + 1] <= Ends[t]
      BY <1>0, <1>2, <1>3, <2>7 DEF SlotsInv, SlotsApart
    <3>2. EntriesEnd(s) <= Ends[t]
      BY <2>1, <2>2, <3>1
    <3>3. QED  BY <2>1, <2>2, <2>3, <2>4, <3>2
  <2>8. QED  BY <1>a, <1>b, <2>3, <2>5, <2>6, <2>7
<1>15. ASSUME NEW t \in 1..n, t # s, NEW k \in (StartOf(t) + 1)..slots[t].end
       PROVE  k \in 1..n2d04 /\ outData'[k] = outData[k]
  <2>1. k \in 1..n2d04
    <3>1. StartOf(t) \in Nat /\ slots[t].end \in Nat /\ slots[t].end <= n2d04
      BY <1>4, <1>6
    <3>2. QED  BY <1>3, <1>15, <3>1
  <2>2. ~(k > from /\ k <= from + len)
    <3>1. CASE t < s
      <4>1. slots[t].end <= StartOf(s)
        BY <1>0, <1>2, <1>3, <3>1 DEF SlotsInv, SlotsApart
      <4>2. QED  BY <1>0, <1>2, <1>4, <1>6, <4>1
    <3>2. CASE s < t
      <4>1. slots[s].end <= StartOf(t)
        BY <1>0, <1>2, <1>3, <3>2 DEF SlotsInv, SlotsApart
      <4>2. QED  BY <1>2, <1>4, <1>5, <4>1
    <3>3. QED  BY <1>2, <1>15, <3>1, <3>2
  <2>3. QED  BY <1>12, <2>1, <2>2
<1>16. ASSUME NEW t \in 1..n, NEW u \in 0..(slots[t].used - 1)
       PROVE  /\ u \in Nat /\ u + 1 <= slots[t].used
              /\ Ends[t] + u \in 0..(n2d00 - 1)
              /\ FromOf(Ends[t] + u) \in Int /\ PayloadLen(recs[Ends[t] + u]) \in Nat
              /\ outTable'[Ends[t] + u] = outTable[Ends[t] + u]
              /\ FromOf(Ends[t] + u)' = FromOf(Ends[t] + u)
              /\ recs'[Ends[t] + u] = recs[Ends[t] + u]
  <2>1. u \in Nat /\ u + 1 <= slots[t].used
    BY <1>14
  <2>2. PICK i : i = Ends[t] + u
    OBVIOUS
  <2>3. i \in 0..(n2d00 - 1) /\ i # index /\ i \in 0..n2d00
    BY <1>a, <1>14, <2>2
  <2>4. outTable'[i] = outTable[i] /\ recs'[i] = recs[i] /\ outTable[i] \in Int
    BY <1>3, <1>7, <2>3
  <2>5. Len(recs[i]) \in Nat
    BY <1>3, <2>3, LenProperties
  <2>6. FromOf(i) \in Int /\ FromOf(i)' = FromOf(i) /\ PayloadLen(recs[i]) \in Nat
    BY <2>4, <2>5 DEF FromOf, PayloadLen
  <2>7. FromOf(Ends[t] + u)' = FromOf(Ends[t] + u)
    BY <2>2, <2>4 DEF FromOf
  <2>8. QED  BY <2>1, <2>2, <2>3, <2>4, <2>6, <2>7
<1>17. FromOf(index)' = from
  <2>1. (from * 16 + op) \div 16 = from
    BY <1>5
  <2>2. QED  BY <1>7, <2>1 DEF FromOf
<1>18. ASSUME NEW t \in 1..n, NEW u \in 0..(slots[t].used - 1)
       PROVE  EntryInPlace(t, u)'
  <2>0. PICK i : i = Ends[t] + u
    OBVIOUS
  <2>1. /\ outTable[i] \in Nat
        /\ StartOf(t) <= FromOf(i) /\ FromOf(i) + PayloadLen(recs[i]) <= slots[t].pos
        /\ FromOf(i) + PayloadLen(recs[i])
             = IF u + 1 = slots[t].used THEN slots[t].pos ELSE FromOf(i + 1)
        /\ \A j \in 1..PayloadLen(recs[i]) : outData[FromOf(i) + j] = recs[i][j + 1]
    <3>1. EntryInPlace(t, u)
      BY <1>0, <1>3 DEF TableInv
    <3>2. QED  BY <2>0, <3>1 DEF EntryInPlace
  <2>a. /\ slots[t].used \in Nat /\ slots[t].end \in Nat /\ slots[t].pos \in Nat
        /\ StartOf(t) \in Nat /\ slots[t].pos <= slots[t].end /\ slots[t].end <= n2d04
        /\ Ends[t] \in Nat
    BY <1>4, <1>6
  <2>b. /\ u \in Nat /\ u + 1 <= slots[t].used
        /\ FromOf(i) \in Int /\ PayloadLen(recs[i]) \in Nat
    BY <1>16, <2>0
  <2>2. slots[t].pos <= slots'[t].pos
    <3>1. CASE t = s
      BY <1>0, <1>5, <1>8, <3>1
    <3>2. CASE t # s
      BY <1>4, <1>8, <3>2
    <3>3. QED  BY <3>1, <3>2
  <2>3. ASSUME NEW j \in 1..PayloadLen(recs[i])
        PROVE  outData'[FromOf(i) + j] = outData[FromOf(i) + j]
    <3>1. /\ FromOf(i) + j \in (StartOf(t) + 1)..slots[t].pos
          /\ FromOf(i) + j \in (StartOf(t) + 1)..slots[t].end
      <4>1. FromOf(i) + j > StartOf(t) /\ FromOf(i) + j <= slots[t].pos /\ FromOf(i) + j \in Int
        <5>1. /\ StartOf(t) <= FromOf(i)
              /\ FromOf(i) + PayloadLen(recs[i]) <= slots[t].pos
          BY <2>1
        <5>2. j \in Int /\ j > 0 /\ j <= PayloadLen(recs[i])
          BY <2>b
        <5>3. QED  BY <2>a, <2>b, <5>1, <5>2
      <4>2. QED  BY <2>a, <4>1
    <3>2. CASE t = s
      <4>1. FromOf(i) + j \in 1..n2d04 /\ ~(FromOf(i) + j > from)
        BY <1>0, <1>a, <2>a, <3>1, <3>2
      <4>2. QED  BY <1>12, <4>1
    <3>3. CASE t # s
      BY <1>15, <3>1, <3>3
    <3>4. QED  BY <3>2, <3>3
  <2>4. FromOf(i) + PayloadLen(recs[i])
          = IF u + 1 = slots'[t].used THEN slots'[t].pos ELSE FromOf(i + 1)'
    <3>1. CASE t = s /\ u + 1 = slots[t].used
      <4>1. i + 1 = index /\ u + 1 # slots'[t].used
        <5>1. slots'[t].used = slots[t].used + 1
          BY <1>8, <3>1
        <5>2. u \in Nat /\ Ends[t] \in Nat /\ u + 1 = slots[s].used /\ i = Ends[s] + u /\ t = s
          BY <2>0, <2>a, <2>b, <3>1
        <5>3. i + 1 = Ends[s] + (u + 1)
          <6>1. PICK e \in Nat : e = Ends[s]
            BY <5>2
          <6>2. u \in Nat /\ i = e + u
            BY <5>2, <6>1
          <6>3. i + 1 = e + (u + 1)
            BY ONLY <6>2, e \in Nat
          <6>4. QED  BY <6>1, <6>3
        <5>4. u + 1 # u + 1 + 1
          BY <5>2
        <5>5. QED  BY <1>a, <3>1, <5>1, <5>2, <5>3, <5>4
      <4>2. FromOf(i + 1)' = from
        BY <1>17, <4>1 DEF FromOf
      <4>3. QED  BY <1>0, <2>1, <3>1, <4>1, <4>2
    <3>2. CASE t # s /\ u + 1 = slots[t].used
      BY <1>8, <2>1, <3>2
    <3>3. CASE u + 1 # slots[t].used
      <4>1. u + 1 \in 0..(slots[t].used - 1) /\ Ends[t] + (u + 1) = i + 1
        <5>1. u + 1 < slots[t].used
          BY <2>a, <2>b, <3>3
        <5>2. u \in Nat /\ Ends[t] \in Nat /\ slots[t].used \in Nat
          BY <2>a, <2>b
        <5>3. u + 1 \in 0..(slots[t].used - 1)
          BY <5>1, <5>2
        <5>4. QED  BY <2>0, <5>2, <5>3
      <4>2. FromOf(Ends[t] + (u + 1))' = FromOf(Ends[t] + (u + 1))
        BY <1>16, <4>1
      <4>3. FromOf(i + 1)' = FromOf(i + 1)
        BY <4>1, <4>2 DEF FromOf
      <4>4. u + 1 # slots'[t].used
        <5>1. CASE t = s
          BY <1>8, <2>a, <2>b, <3>3, <5>1
        <5>2. CASE t # s
          BY <1>8, <3>3, <5>2
        <5>3. QED  BY <5>1, <5>2
      <4>5. QED  BY <2>1, <3>3, <4>3, <4>4
    <3>4. QED  BY <3>1, <3>2, <3>3
  <2>5. /\ outTable'[i] = outTable[i] /\ recs'[i] = recs[i] /\ FromOf(i)' = FromOf(i)
    <3>1. outTable'[i] = outTable[i] /\ recs'[i] = recs[i]
      BY <1>16, <2>0
    <3>2. QED  BY <3>1 DEF FromOf
  <2>6. PayloadLen(recs[i])' = PayloadLen(recs[i]) /\ StartOf(t)' = StartOf(t)
    BY <1>9, <2>5 DEF PayloadLen
  <2>7. FromOf(i) + PayloadLen(recs[i]) <= slots'[t].pos
    <3>1. slots[t].pos \in Nat /\ slots'[t].pos \in Nat
      <4>1. slots[t].pos \in Nat
        BY <1>4
      <4>2. from + len \in Nat
        BY <1>5
      <4>3. t = s => slots'[t].pos = from + len
        BY <1>8
      <4>4. t # s => slots'[t] = slots[t]
        BY <1>8
      <4>5. QED  BY ONLY <4>1, <4>2, <4>3, <4>4
    <3>2. QED  BY <2>1, <2>2, <2>b, <3>1
  <2>8. /\ outTable'[i] \in Nat
        /\ StartOf(t)' <= FromOf(i)' /\ FromOf(i)' + PayloadLen(recs'[i]) <= slots'[t].pos
        /\ FromOf(i)' + PayloadLen(recs'[i])
             = IF u + 1 = slots'[t].used THEN slots'[t].pos ELSE FromOf(i + 1)'
        /\ \A j \in 1..PayloadLen(recs'[i]) : outData'[FromOf(i)' + j] = recs'[i][j + 1]
    BY <2>1, <2>3, <2>4, <2>5, <2>6, <2>7
  <2>9. QED  BY <2>0, <2>8 DEF EntryInPlace, FromOf, PayloadLen, StartOf
<1>19. PICK last : last = slots[s].used /\ EntryInPlace(s, last)'
  <2>1. outTable'[index] \in Nat /\ FromOf(index)' = from /\ recs'[index] = rec
    BY <1>5, <1>7, <1>17
  <2>2. StartOf(s)' <= from /\ slots'[s].pos = from + len /\ slots'[s].used = slots[s].used + 1
    BY <1>0, <1>2, <1>6, <1>8, <1>9
  <2>3. PayloadLen(rec) = len /\ index = Ends[s] + slots[s].used
    BY <1>0
  <2>4. \A j \in 1..len : outData'[from + j] = rec[j + 1]
    BY <1>13
  <2>5. from + len <= from + len
    BY <1>5
  <2>6. /\ outTable'[index] \in Nat
        /\ StartOf(s)' <= FromOf(index)' /\ FromOf(index)' + PayloadLen(recs'[index]) <= slots'[s].pos
        /\ FromOf(index)' + PayloadLen(recs'[index]) = slots'[s].pos
        /\ \A j \in 1..PayloadLen(recs'[index]) :
              outData'[FromOf(index)' + j] = recs'[index][j + 1]
    BY <2>1, <2>2, <2>3, <2>4, <2>5
  <2>7. EntryInPlace(s, index - Ends[s])'
    <3>1. index - Ends[s] + 1 = slots'[s].used /\ Ends[s] + (index - Ends[s]) = index
      BY <1>a, <1>4, <1>6, <1>b, <1>8
    <3>2. QED  BY <2>6, <3>1 DEF EntryInPlace, FromOf, PayloadLen, StartOf
  <2>8. index - Ends[s] = slots[s].used
    BY <1>a, <1>4, <1>6, <1>b
  <2>9. PICK last : last = slots[s].used
    OBVIOUS
  <2>10. EntryInPlace(s, last)'
    BY <2>7, <2>8, <2>9 DEF EntryInPlace, FromOf, PayloadLen, StartOf
  <2>11. QED  BY <2>9, <2>10
<1>20. TableInv'
  <2>1. ASSUME NEW t \in 1..n
        PROVE  /\ slots'[t].used = 0 => slots'[t].pos = StartOf(t)'
               /\ slots'[t].used > 0 => FromOf(Ends[t])' = StartOf(t)'
               /\ \A u \in 0..(slots'[t].used - 1) : EntryInPlace(t, u)'
               /\ \A k \in (slots'[t].pos + 1)..slots'[t].end : outData'[k] = Unset
    <3>1. /\ slots[t].used = 0 => slots[t].pos = StartOf(t)
          /\ slots[t].used > 0 => FromOf(Ends[t]) = StartOf(t)
          /\ \A k \in (slots[t].pos + 1)..slots[t].end : outData[k] = Unset
      BY <1>0, <1>3 DEF TableInv
    <3>2. slots[t].used > 0 => FromOf(Ends[t])' = FromOf(Ends[t])
      <4>1. SUFFICES ASSUME slots[t].used > 0 PROVE FromOf(Ends[t])' = FromOf(Ends[t])
        OBVIOUS
      <4>2. 0 \in 0..(slots[t].used - 1) /\ Ends[t] + 0 = Ends[t]
        BY <1>4, <1>6, <4>1
      <4>3. outTable'[Ends[t]] = outTable[Ends[t]]
        BY <1>16, <4>2
      <4>4. QED  BY <4>3 DEF FromOf
    <3>3. CASE t # s
      <4>1. slots'[t] = slots[t] /\ StartOf(t)' = StartOf(t)
        BY <1>8, <1>9, <3>3
      <4>2. ASSUME NEW k \in (slots[t].pos + 1)..slots[t].end PROVE outData'[k] = outData[k]
        <5>1. k \in (StartOf(t) + 1)..slots[t].end
          BY <1>4, <1>6
        <5>2. QED  BY <1>15, <3>3, <5>1
      <4>3. QED  BY <1>18, <3>1, <3>2, <4>1, <4>2
    <3>4. CASE t = s
      <4>1. slots'[t].used # 0
        BY <1>4, <1>8, <3>4
      <4>2. FromOf(Ends[t])' = StartOf(t)'
        <5>1. CASE slots[t].used = 0
          <6>1. index = Ends[t] /\ from = StartOf(t)
            BY <1>0, <1>6, <3>1, <3>4, <5>1
          <6>2. FromOf(Ends[t])' = FromOf(index)'
            BY <6>1 DEF FromOf
          <6>3. QED  BY <1>9, <1>17, <6>1, <6>2
        <5>2. CASE slots[t].used > 0
          BY <1>9, <3>1, <3>2, <5>2
        <5>3. QED  BY <1>4, <5>1, <5>2
      <4>3. ASSUME NEW u \in 0..(slots'[t].used - 1) PROVE EntryInPlace(t, u)'
        <5>1. u \in 0..(slots[t].used - 1) \/ u = slots[s].used
          BY <1>4, <1>8, <3>4
        <5>2. CASE u \in 0..(slots[t].used - 1)
          BY <1>18, <5>2
        <5>3. CASE u = slots[s].used
          <6>1. t = s /\ u = last
            BY <1>19, <3>4, <5>3
          <6>2. QED  BY <1>19, <6>1 DEF EntryInPlace, FromOf, StartOf, PayloadLen
        <5>4. QED  BY <5>1, <5>2, <5>3
      <4>4. ASSUME NEW k \in (slots'[t].pos + 1)..slots'[t].end PROVE outData'[k] = Unset
        <5>1. /\ k \in (slots[t].pos + 1)..slots[t].end /\ k \in 1..n2d04
              /\ ~(k > from /\ k <= from + len)
          <6>1. /\ slots'[t].pos = from + len /\ slots'[t].end = slots[t].end
                /\ slots[t].pos = from /\ slots[t].end \in Nat /\ slots[t].end <= n2d04
            BY <1>0, <1>4, <1>6, <1>8, <3>4
          <6>2. QED  BY <1>a, <1>5, <6>1
        <5>2. QED  BY <1>12, <3>1, <5>1
      <4>5. QED  BY <4>1, <4>2, <4>3, <4>4
    <3>5. QED  BY <3>3, <3>4
  <2>2. QED  BY <1>8, <2>1 DEF TableInv
<1>21. DoneInv'
  BY <1>2 DEF DoneInv
<1>22. QED  BY <1>10, <1>11, <1>20, <1>21 DEF DictionaryIInv

-----------------------------------------------------------------------------
(* The sentinel goes behind the last entry, into a place no record has.    *)
LEMMA FinishBlockInv ==
  ASSUME DictionaryIInv, FinishBlock PROVE DictionaryIInv'
<1>1. CASE RejectBlock
  BY <1>1, RejectInv
<1>2. CASE /\ AllSlotsFull /\ dictPhase' = "done"
           /\ outTable' = [outTable EXCEPT ![n2d00] = n2d04 * 16]
           /\ UNCHANGED <<n2d00, n2d04, slots, buf, prevLen, recordsRead, outData, prev, recs>>
  <2>0. PICK n : n = Len(slots)
    OBVIOUS
  <2>1. /\ DictionaryTypes /\ SlotsInv /\ TableInv /\ BufferInv /\ dictPhase = "records"
        /\ n \in Nat /\ n2d00 \in Nat /\ n2d04 \in Nat /\ DOMAIN slots = 1..n
        /\ outTable \in [0..n2d00 -> Int] /\ n < Len(Ends)
    BY <2>0, LenProperties DEF DictionaryIInv, DictionaryTypes, SlotsInv, FinishBlock
  <2>2. /\ outTable' \in [0..n2d00 -> Int] /\ outTable'[n2d00] = n2d04 * 16
        /\ \A i \in 0..n2d00 : i # n2d00 => outTable'[i] = outTable[i]
    <3>1. n2d04 * 16 \in Int /\ n2d00 \in 0..n2d00
      BY <2>1
    <3>2. QED  BY <1>2, <2>1, <3>1
  <2>3. DictionaryTypes' /\ BufferInv'
    BY <1>2, <2>1, <2>2 DEF DictionaryTypes, BufferInv
  <2>4. SlotsInv'
    <3>1. SlotsApart' /\ SlotsInBounds' /\ EntriesHaveSlots'
      BY <1>2, <2>1 DEF SlotsInv, SlotsApart, SlotsInBounds, EntriesHaveSlots, StartOf, EntriesEnd
    <3>2. QED  BY <1>2, <2>1, <3>1 DEF SlotsInv
  <2>5. DoneInv'
    BY <1>2, <2>1, <2>0, <2>2 DEF DoneInv, AllSlotsFull, AllSlotsCounted
  <2>6. \A t \in 1..n : /\ slots[t].used \in Nat /\ slots[t].pos \in Nat /\ slots[t].end \in Nat
    BY <2>0, <2>1, SlotFacts
  <2>7. ASSUME NEW t \in 1..n, NEW u \in 0..(slots[t].used - 1)
        PROVE  Ends[t] + u \in 0..n2d00 /\ Ends[t] + u # n2d00 /\ u + 1 <= slots[t].used /\ u \in Nat
    <3>1. /\ slots[t].count = EntriesEnd(t) - Ends[t] /\ slots[t].used <= slots[t].count
      BY <2>0, <2>1 DEF SlotsInv, SlotsInBounds
    <3>2. t \in 1..Len(Ends) /\ t + 1 \in 1..Len(Ends)
      BY <2>1, EndsFacts
    <3>3. Ends[t] \in Nat /\ Ends[t + 1] \in Nat
      BY <3>2, EndsFacts
    <3>4. EntriesEnd(t) <= n2d00 /\ EntriesEnd(t) \in Nat
      BY <2>1, <3>3 DEF EntriesEnd
    <3>5. slots[t].used \in Nat /\ slots[t].used <= EntriesEnd(t) - Ends[t]
      BY <2>6, <3>1
    <3>6. PICK e \in Nat : e = Ends[t]
      BY <3>3
    <3>7. PICK d \in Nat : d = slots[t].used
      BY <3>5
    <3>8. u \in Nat /\ u + 1 <= d
      BY <3>7
    <3>9. e + d <= n2d00 /\ n2d00 \in Nat
      BY <2>1, <3>4, <3>5, <3>6, <3>7
    <3>10. e + u \in 0..n2d00 /\ e + u # n2d00
      BY ONLY <3>8, <3>9, e \in Nat, d \in Nat
    <3>11. QED  BY <3>6, <3>7, <3>8, <3>10
  <2>8. ASSUME NEW t \in 1..n, NEW u \in 0..(slots[t].used - 1)
        PROVE  outTable'[Ends[t] + u] = outTable[Ends[t] + u] /\ FromOf(Ends[t] + u)' = FromOf(Ends[t] + u)
    BY <2>2, <2>7 DEF FromOf
  <2>9. ASSUME NEW t \in 1..n, NEW u \in 0..(slots[t].used - 1)
        PROVE  EntryInPlace(t, u)'
    <3>0. PICK i : i = Ends[t] + u
      OBVIOUS
    <3>1. EntryInPlace(t, u)
      BY <2>0, <2>1 DEF TableInv
    <3>2. u + 1 # slots[t].used => FromOf(i + 1)' = FromOf(i + 1)
      <4>1. SUFFICES ASSUME u + 1 # slots[t].used PROVE FromOf(i + 1)' = FromOf(i + 1)
        OBVIOUS
      <4>2. t \in 1..Len(Ends)
        BY <2>1, EndsFacts
      <4>3. u + 1 \in 0..(slots[t].used - 1) /\ Ends[t] + (u + 1) = i + 1
        BY <2>6, <2>7, <3>0, <4>1, <4>2, EndsFacts
      <4>4. outTable'[i + 1] = outTable[i + 1]
        BY <2>8, <4>3
      <4>5. QED  BY <4>4 DEF FromOf
    <3>3. outTable'[i] = outTable[i] /\ FromOf(i)' = FromOf(i)
      BY <2>8, <3>0 DEF FromOf
    <3>4. QED  BY <1>2, <3>0, <3>1, <3>2, <3>3 DEF EntryInPlace, StartOf, PayloadLen
  <2>10. TableInv'
    <3>1. ASSUME NEW t \in 1..n
          PROVE  /\ slots[t].used = 0 => slots[t].pos = StartOf(t)'
                 /\ slots[t].used > 0 => FromOf(Ends[t])' = StartOf(t)'
      <4>1. /\ slots[t].used = 0 => slots[t].pos = StartOf(t)
            /\ slots[t].used > 0 => FromOf(Ends[t]) = StartOf(t)
        BY <2>0, <2>1 DEF TableInv
      <4>2. StartOf(t)' = StartOf(t)
        BY <1>2 DEF StartOf
      <4>3. slots[t].used > 0 => FromOf(Ends[t])' = FromOf(Ends[t])
        <5>1. SUFFICES ASSUME slots[t].used > 0 PROVE FromOf(Ends[t])' = FromOf(Ends[t])
          OBVIOUS
        <5>2. t \in 1..Len(Ends)
          BY <2>1, EndsFacts
        <5>3. 0 \in 0..(slots[t].used - 1) /\ Ends[t] + 0 = Ends[t]
          BY <2>6, <5>1, <5>2, EndsFacts
        <5>4. outTable'[Ends[t]] = outTable[Ends[t]]
          BY <2>8, <5>3
        <5>5. QED  BY <5>4 DEF FromOf
      <4>4. QED  BY <4>1, <4>2, <4>3
    <3>2. \A t \in 1..n : \A k \in (slots[t].pos + 1)..slots[t].end : outData[k] = Unset
      BY <2>0, <2>1 DEF TableInv
    <3>3. QED  BY <1>2, <2>0, <2>9, <3>1, <3>2 DEF TableInv
  <2>11. QED  BY <2>3, <2>4, <2>5, <2>10 DEF DictionaryIInv
<1>3. QED  BY <1>1, <1>2 DEF FinishBlock

LEMMA ReadRecordInv ==
  ASSUME DictionaryIInv, NEW shared \in Nat, NEW suffix \in Seq(Bytes), NEW s,
         ReadRecord(shared, suffix, s)
  PROVE  DictionaryIInv'
<1>1. CASE RejectBlock
  BY <1>1, RejectInv
<1>2. CASE /\ Storable(shared, suffix, s) /\ Store(shared, suffix, s)
           /\ UNCHANGED <<dictPhase, n2d00, n2d04>>
  <2>1. /\ RecordStored(s, prev') /\ BufferInv'
        /\ buf' \in [1..MaxLen -> Bytes] /\ prevLen' \in 0..MaxLen /\ prev' \in Seq(Bytes)
    BY <1>2, StoreFacts DEF DictionaryIInv
  <2>2. dictPhase = "records"
    BY DEF ReadRecord
  <2>3. PICK rec : rec = prev'
    OBVIOUS
  <2>4. QED  BY <1>2, <2>1, <2>2, <2>3, StoreInv
<1>3. QED  BY <1>1, <1>2 DEF ReadRecord

LEMMA SuffixIsSequence == BoundedSeq(Bytes, MaxLen) \subseteq Seq(Bytes)
<1>1. ASSUME NEW b \in BoundedSeq(Bytes, MaxLen) PROVE b \in Seq(Bytes)
  <2>1. PICK m \in 0..MaxLen : b \in [1..m -> Bytes]
    BY <1>1 DEF BoundedSeq, SeqOf
  <2>2. m \in Nat
    BY <2>1, EndsFacts
  <2>3. QED  BY <2>1, <2>2, SeqDef
<1>2. QED  BY <1>1

LEMMA DictionaryNextInv == DictionaryIInv /\ [DictionaryNext]_dictvars => DictionaryIInv'
<1> SUFFICES ASSUME DictionaryIInv, [DictionaryNext]_dictvars PROVE DictionaryIInv'
  OBVIOUS
<1>1. CASE ReadSegments
  <2>1. PICK delta \in 0..MaxData : ReadSegment(delta)
    BY <1>1 DEF ReadSegments
  <2>2. delta \in Nat
    BY DictionaryAssumption
  <2>3. QED  BY <2>1, <2>2, ReadSegmentInv
<1>2. CASE ReadRecords
  <2>1. PICK shared \in 0..MaxLen, suffix \in BoundedSeq(Bytes, MaxLen), s \in 1..(Len(slots) + 1) :
           ReadRecord(shared, suffix, s)
    BY <1>2 DEF ReadRecords
  <2>2. shared \in Nat /\ suffix \in Seq(Bytes)
    BY EndsFacts, SuffixIsSequence
  <2>3. QED  BY <2>1, <2>2, ReadRecordInv
<1>3. CASE FinishBlock
  BY <1>3, FinishBlockInv
<1>4. CASE UNCHANGED dictvars
  <2>1. UNCHANGED <<dictPhase, n2d00, n2d04, slots, buf, prevLen, outData, outTable, prev, recs>>
    BY <1>4 DEF dictvars
  <2>2. DictionaryTypes' /\ BufferInv' /\ DoneInv'
    BY <2>1 DEF DictionaryIInv, DictionaryTypes, BufferInv, DoneInv
  <2>3. SlotsInv'
    BY <2>1 DEF DictionaryIInv, SlotsInv, SlotsApart, SlotsInBounds, EntriesHaveSlots, StartOf, EntriesEnd
  <2>4. TableInv'
    BY <2>1 DEF DictionaryIInv, TableInv, EntryInPlace, StartOf, FromOf
  <2>5. QED  BY <2>2, <2>3, <2>4 DEF DictionaryIInv
<1>5. QED  BY <1>1, <1>2, <1>3, <1>4 DEF DictionaryNext

(* The slots share out the entries and the data, and what is in the table  *)
(* is in place (decode_dictionary, _read_segments).                        *)
THEOREM DictionaryInvariant == DictionarySpec => []DictionaryIInv
<1>1. QED  BY DictionaryInitInv, DictionaryNextInv, PTL DEF DictionarySpec

(* The buffer of the front coding starts with the record before, whatever  *)
(* longer records have left behind it (decode_dictionary).                 *)
THEOREM BufferAlwaysPrevious == DictionarySpec => []BufferIsPrevious
<1>1. DictionaryIInv => BufferIsPrevious
  <2> SUFFICES ASSUME DictionaryIInv PROVE prevLen = Len(prev) /\ SubSeq(buf, 1, prevLen) = prev
    BY DEF BufferIsPrevious
  <2>1. /\ prevLen = Len(prev) /\ prev \in Seq(Bytes) /\ prevLen \in Nat
        /\ \A i \in 1..prevLen : buf[i] = prev[i] /\ prev[i] \in Bytes
    BY LenProperties, ElementOfSeq DEF DictionaryIInv, BufferInv, DictionaryTypes
  <2>2. /\ SubSeq(buf, 1, prevLen) \in Seq(Bytes) /\ Len(SubSeq(buf, 1, prevLen)) = prevLen
        /\ \A i \in 1..prevLen : SubSeq(buf, 1, prevLen)[i] = buf[i]
    BY <2>1, PieceFacts
  <2> DEFINE piece == SubSeq(buf, 1, prevLen)
  <2> HIDE DEF piece
  <2>3. piece \in Seq(Bytes) /\ Len(piece) = Len(prev) /\ \A i \in 1..Len(piece) : piece[i] = prev[i]
    BY <2>1, <2>2 DEF piece
  <2>4. piece = prev
    BY <2>1, <2>3, SeqEqual
  <2>5. QED  BY <2>1, <2>4 DEF piece
<1>2. QED  BY <1>1, DictionaryInvariant, PTL

-----------------------------------------------------------------------------
LEMMA SamePiece ==
  ASSUME NEW S, NEW a, NEW b, NEW from \in Nat, NEW m \in Nat,
         \A j \in 1..m : b[j + 1] \in S /\ a[from + j] = b[j + 1]
  PROVE  SubSeq(a, from + 1, from + m) = SubSeq(b, 2, m + 1)
<1>1. \A k \in (from + 1)..(from + m) : a[k] \in S
  <2>1. ASSUME NEW k \in (from + 1)..(from + m) PROVE a[k] \in S
    <3>1. PICK j : j = k - from
      OBVIOUS
    <3>2. j \in 1..m /\ from + j = k
      BY <3>1
    <3>3. a[from + j] \in S
      BY <3>2
    <3>4. QED  BY <3>2, <3>3
  <2>2. QED  BY <2>1
<1>2. \A k \in 2..(m + 1) : b[k] \in S
  <2>1. ASSUME NEW k \in 2..(m + 1) PROVE b[k] \in S
    <3>1. k - 1 \in 1..m /\ (k - 1) + 1 = k
      OBVIOUS
    <3>2. b[(k - 1) + 1] \in S
      BY <3>1
    <3>3. QED  BY <3>1, <3>2
  <2>2. QED  BY <2>1
<1>3. PICK p, q : p = SubSeq(a, from + 1, from + m) /\ q = SubSeq(b, 2, m + 1)
  OBVIOUS
<1>4. /\ p \in Seq(S) /\ Len(p) = m /\ \A j \in 1..m : p[j] = a[from + j]
  <2>1. from + 1 \in Int /\ from + m \in Int
    OBVIOUS
  <2>2. /\ p \in Seq(S)
        /\ Len(p) = IF from + 1 <= from + m THEN (from + m) - (from + 1) + 1 ELSE 0
        /\ \A j \in 1..((from + m) - (from + 1) + 1) : p[j] = a[(from + 1) + j - 1]
    BY <1>1, <1>3, <2>1, SubSeqProperties
  <2>3. ASSUME NEW j \in 1..m PROVE p[j] = a[from + j]
    <3>1. j \in 1..((from + m) - (from + 1) + 1) /\ (from + 1) + j - 1 = from + j
      OBVIOUS
    <3>2. QED  BY <2>2, <3>1
  <2>4. Len(p) = m
    BY <2>2
  <2>5. QED  BY <2>2, <2>3, <2>4
<1>5. /\ q \in Seq(S) /\ Len(q) = m /\ \A j \in 1..m : q[j] = b[j + 1]
  <2>1. m + 1 \in Int
    OBVIOUS
  <2>2. /\ q \in Seq(S) /\ Len(q) = IF 2 <= m + 1 THEN (m + 1) - 2 + 1 ELSE 0
        /\ \A j \in 1..((m + 1) - 2 + 1) : q[j] = b[2 + j - 1]
    BY <1>2, <1>3, <2>1, SubSeqProperties
  <2>3. ASSUME NEW j \in 1..m PROVE q[j] = b[j + 1]
    <3>1. j \in 1..((m + 1) - 2 + 1) /\ 2 + j - 1 = j + 1
      OBVIOUS
    <3>2. QED  BY <2>2, <3>1
  <2>4. Len(q) = m
    BY <2>2
  <2>5. QED  BY <2>2, <2>3, <2>4
<1>6. p = q
  BY <1>4, <1>5, SeqEqual
<1>7. QED  BY <1>3, <1>6

(* The next entry of the table starts where the payload of this one ends,  *)
(* whether it is the next of its slot, the first of the next slot or the   *)
(* sentinel.                                                               *)
LEMMA NextEntryFacts ==
  ASSUME DictionaryIInv, dictPhase = "done", NEW i \in 0..(n2d00 - 1)
  PROVE  /\ FromOf(i) \in Nat /\ FromOf(i + 1) = FromOf(i) + PayloadLen(recs[i])
         /\ \A j \in 1..PayloadLen(recs[i]) : outData[FromOf(i) + j] = recs[i][j + 1]
<1>0. PICK n : n = Len(slots)
  OBVIOUS
<1>1. /\ DictionaryTypes /\ SlotsInv /\ TableInv /\ DoneInv
      /\ n \in Nat /\ n > 0 /\ n2d00 \in Nat /\ n2d04 \in Nat /\ n < Len(Ends)
      /\ n2d00 <= Ends[n + 1] /\ slots[n].end = n2d04
  BY <1>0, SlotFacts DEF DictionaryIInv, SlotsInv, DictionaryTypes
<1>2. ASSUME NEW t \in 1..n
      PROVE  /\ slots[t].used = slots[t].count /\ slots[t].pos = slots[t].end
             /\ slots[t].count = EntriesEnd(t) - Ends[t] /\ StartOf(t) \in Nat
             /\ Ends[t] \in Nat /\ Ends[t + 1] \in Nat /\ Ends[t] < Ends[t + 1]
             /\ EntriesEnd(t) \in Nat /\ slots[t].count \in Nat
             /\ t < n => EntriesEnd(t) = Ends[t + 1] /\ Ends[t + 1] < n2d00
  <2>1. t \in 1..(Len(Ends) - 1) /\ t \in 1..Len(Ends) /\ t + 1 \in 1..Len(Ends)
    BY <1>1, EndsFacts
  <2>2. Ends[t] \in Nat /\ Ends[t + 1] \in Nat /\ Ends[t] < Ends[t + 1]
    BY <2>1, EndsFacts
  <2>3. slots[t].used = slots[t].count /\ slots[t].pos = slots[t].end
    BY <1>0, <1>1 DEF DoneInv
  <2>4. slots[t].count = EntriesEnd(t) - Ends[t] /\ (t < n => Ends[t + 1] < n2d00)
    BY <1>0, <1>1 DEF SlotsInv, SlotsInBounds
  <2>5. slots[t].count \in Nat /\ StartOf(t) \in Nat
    BY <1>0, <1>1, SlotFacts
  <2>6. EntriesEnd(t) \in Nat /\ (t < n => EntriesEnd(t) = Ends[t + 1])
    BY <1>1, <2>2, <2>4 DEF EntriesEnd
  <2>7. QED  BY <2>2, <2>3, <2>4, <2>5, <2>6
<1>3. n \in 1..n /\ EntriesEnd(n) = n2d00
  BY <1>1, <1>2 DEF EntriesEnd
<1>4. PICK s \in 1..n : Ends[s] <= i /\ i < Ends[s] + slots[s].count
  <2>1. i < EntriesEnd(n)
    BY <1>1, <1>3
  <2>2. QED  BY <1>0, <1>1, <2>1 DEF SlotsInv, EntriesHaveSlots
<1>5. PICK u : u = i - Ends[s]
  OBVIOUS
<1>6. u \in Nat /\ u < slots[s].used /\ Ends[s] + u = i /\ u \in 0..(slots[s].used - 1) /\ i \in Nat
  <2>1. Ends[s] \in Nat /\ slots[s].used = slots[s].count /\ slots[s].count \in Nat
    BY <1>2
  <2>2. i \in Nat
    BY <1>1
  <2>3. QED  BY ONLY <1>4, <1>5, <2>1, <2>2
<1>7. /\ outTable[i] \in Nat /\ StartOf(s) <= FromOf(i)
      /\ FromOf(i) + PayloadLen(recs[i])
           = IF u + 1 = slots[s].used THEN slots[s].pos ELSE FromOf(i + 1)
      /\ \A j \in 1..PayloadLen(recs[i]) : outData[FromOf(i) + j] = recs[i][j + 1]
  <2>1. EntryInPlace(s, u)
    BY <1>0, <1>1, <1>6 DEF TableInv
  <2>2. QED  BY <1>6, <2>1 DEF EntryInPlace
<1>8. FromOf(i) \in Nat
  BY <1>7 DEF FromOf
<1>9. CASE u + 1 # slots[s].used
  BY <1>7, <1>8, <1>9
<1>10. CASE u + 1 = slots[s].used
  <2>1. slots[s].pos = slots[s].end /\ i + 1 = EntriesEnd(s)
    <3>1. slots[s].pos = slots[s].end /\ slots[s].used = EntriesEnd(s) - Ends[s]
          /\ Ends[s] \in Nat /\ EntriesEnd(s) \in Nat
      BY <1>2
    <3>2. QED  BY <1>6, <1>10, <3>1
  <2>2. CASE s = n
    <3>1. outTable[i + 1] = n2d04 * 16
      BY <1>1, <1>3, <2>1, <2>2 DEF DoneInv
    <3>2. (n2d04 * 16) \div 16 = n2d04
      BY <1>1
    <3>3. FromOf(i + 1) = slots[s].end
      BY <1>1, <2>2, <3>1, <3>2 DEF FromOf
    <3>4. QED  BY <1>7, <1>8, <1>10, <2>1, <3>3
  <2>3. CASE s # n
    <3>1. PICK t : t = s + 1
      OBVIOUS
    <3>2. t \in 1..n /\ s < n /\ t # 1 /\ t - 1 = s
      BY <1>1, <2>3, <3>1
    <3>3. i + 1 = Ends[t] /\ Ends[t] < n2d00
      BY <1>2, <2>1, <3>1, <3>2
    <3>4. slots[t].used > 0
      <4>1. /\ slots[t].used = EntriesEnd(t) - Ends[t] /\ EntriesEnd(t) \in Nat
            /\ Ends[t] \in Nat /\ Ends[t + 1] \in Nat /\ Ends[t] < Ends[t + 1]
        BY <1>2, <3>2
      <4>2. Ends[t] < EntriesEnd(t)
        BY <3>3, <4>1 DEF EntriesEnd
      <4>3. QED  BY <4>1, <4>2
    <3>5. FromOf(Ends[t]) = StartOf(t) /\ StartOf(t) = slots[s].end
      BY <1>0, <1>1, <3>2, <3>4 DEF TableInv, StartOf
    <3>6. FromOf(i + 1) = FromOf(Ends[t])
      BY <3>3 DEF FromOf
    <3>7. QED  BY <1>7, <1>8, <1>10, <2>1, <3>5, <3>6
  <2>4. QED  BY <2>2, <2>3
<1>11. QED  BY <1>9, <1>10

(* An accepted dictionary slices out, at each index, the payload of the    *)
(* record that was stored there, for every partition of the entries into   *)
(* slots and every order in which the records arrive (decode_dictionary,   *)
(* _read_segments, entry_payload).                                         *)
THEOREM SlicesAlwaysRecords == DictionarySpec => []SlicesAreRecords
<1>1. DictionaryIInv => SlicesAreRecords
  <2> SUFFICES ASSUME DictionaryIInv, dictPhase = "done", NEW i \in 0..(n2d00 - 1)
               PROVE  Payload(i) = SubSeq(recs[i], 2, Len(recs[i]))
    BY DEF SlicesAreRecords
  <2>0. PICK from, m, rec : from = FromOf(i) /\ m = PayloadLen(rec) /\ rec = recs[i]
    OBVIOUS
  <2>1. /\ from \in Nat /\ FromOf(i + 1) = from + m
        /\ \A j \in 1..m : outData[from + j] = rec[j + 1]
    BY <2>0, NextEntryFacts
  <2>2. rec \in Seq(Bytes) /\ Len(rec) \in Nat /\ \A j \in 1..Len(rec) : rec[j] \in Bytes
    <3>1. n2d00 \in Nat /\ recs \in [0..n2d00 -> Seq(Bytes)]
      BY DEF DictionaryIInv, DictionaryTypes
    <3>2. i \in 0..n2d00
      BY <3>1
    <3>3. rec \in Seq(Bytes)
      BY <2>0, <3>1, <3>2
    <3>4. QED  BY <3>3, LenProperties, ElementOfSeq
  <2>3. m \in Nat
    BY <2>0, <2>2 DEF PayloadLen
  <2>4. ASSUME NEW j \in 1..m PROVE rec[j + 1] \in Bytes /\ outData[from + j] = rec[j + 1]
    <3>1. j + 1 \in 1..Len(rec)
      BY <2>0, <2>2, <2>3 DEF PayloadLen
    <3>2. QED  BY <2>1, <2>2, <3>1
  <2>5. SubSeq(outData, from + 1, from + m) = SubSeq(rec, 2, m + 1)
    BY <2>1, <2>3, <2>4, SamePiece
  <2>6. Payload(i) = SubSeq(outData, from + 1, from + m)
    BY <2>0, <2>1 DEF Payload, FromOf
  <2>7. SubSeq(rec, 2, m + 1) = SubSeq(rec, 2, Len(rec))
    <3>1. CASE Len(rec) > 1
      <4>1. m + 1 = Len(rec)
        BY <2>0, <2>2, <3>1 DEF PayloadLen
      <4>2. QED  BY <4>1
    <3>2. CASE ~(Len(rec) > 1)
      <4>1. m = 0 /\ Len(rec) \in Int /\ Len(rec) < 2 /\ 1 \in Int
        BY <2>0, <2>2, <3>2 DEF PayloadLen
      <4>2. SubSeq(rec, 2, Len(rec)) = <<>> /\ SubSeq(rec, 2, 1) = <<>>
        BY <2>2, <4>1
      <4>3. QED  BY <4>1, <4>2
    <3>3. QED  BY <3>1, <3>2
  <2>8. QED  BY <2>0, <2>5, <2>6, <2>7
<1>2. QED  BY <1>1, DictionaryInvariant, PTL

(* A payload byte is written once, whatever the records and the slots      *)
(* (decode_dictionary).                                                    *)
THEOREM AlwaysWrittenOnce == DictionarySpec => WrittenOnce
<1> DEFINE PayloadKept == \A i \in DOMAIN outData : outData[i] # Unset => outData'[i] = outData[i]
<1>1. DictionaryIInv /\ [DictionaryNext]_dictvars => [PayloadKept]_dictvars
  <2> SUFFICES ASSUME DictionaryIInv, DictionaryNext, outData' # outData
               PROVE  PayloadKept
    BY DEF dictvars
  <2>1. PICK shared \in 0..MaxLen, suffix \in BoundedSeq(Bytes, MaxLen), s \in 1..(Len(slots) + 1) :
           Storable(shared, suffix, s) /\ Store(shared, suffix, s)
    BY DEF DictionaryNext, ReadSegments, ReadSegment, ReadRecords, ReadRecord, FinishBlock,
           RejectBlock
  <2>2. shared \in Nat /\ suffix \in Seq(Bytes)
    BY EndsFacts, SuffixIsSequence
  <2>3. RecordStored(s, prev')
    BY <2>1, <2>2, StoreFacts DEF DictionaryIInv
  <2>4. PICK from, len : from = slots[s].pos /\ len = PayloadLen(prev')
    OBVIOUS
  <2>5. /\ s \in 1..Len(slots) /\ from + len <= slots[s].end /\ prev' \in Seq(Bytes)
        /\ outData' = [k \in 1..n2d04 |->
                         IF k \in (from + 1)..(from + len) THEN prev'[k - from + 1] ELSE outData[k]]
    BY <2>3, <2>4 DEF RecordStored
  <2>6. /\ from \in Nat /\ slots[s].end \in Nat /\ len \in Nat
        /\ \A k \in (from + 1)..slots[s].end : outData[k] = Unset
        /\ DOMAIN outData = 1..n2d04
    <3>1. Len(prev') \in Nat
      BY <2>5, LenProperties
    <3>2. len \in Nat
      BY <2>4, <3>1 DEF PayloadLen
    <3>3. from \in Nat /\ slots[s].end \in Nat
      BY <2>4, <2>5, SlotFacts DEF DictionaryIInv
    <3>4. \A k \in (from + 1)..slots[s].end : outData[k] = Unset
      BY <2>4, <2>5 DEF DictionaryIInv, TableInv
    <3>5. DOMAIN outData = 1..n2d04
      BY DEF DictionaryIInv, DictionaryTypes
    <3>6. QED  BY <3>2, <3>3, <3>4, <3>5
  <2>7. ASSUME NEW k \in 1..n2d04, outData[k] # Unset PROVE outData'[k] = outData[k]
    <3>1. ~(k \in (from + 1)..(from + len))
      BY <2>5, <2>6, <2>7
    <3>2. QED  BY <2>5, <3>1
  <2>8. QED  BY <2>6, <2>7
<1>2. QED  BY <1>1, DictionaryInvariant, PTL DEF DictionarySpec, WrittenOnce

===============================================================================
