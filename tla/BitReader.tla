------------------------------ MODULE BitReader ------------------------------
(***************************************************************************)
(* The two MSB-first bit readers of the AKC codec: akc_codec.BitReader     *)
(* (read, peek, drop) and portable_akc.LookupBitReader (read, seek_bits).  *)
(* Both keep a 32-bit window over little-endian 16-bit words.              *)
(*                                                                         *)
(* A bit is represented by its position in the stream, 1..Size, and 0 is a *)
(* zero that was shifted in or filled in behind the end of the span.  The  *)
(* window then shows not only how many bits a read returns, but which.     *)
(***************************************************************************)
EXTENDS Integers

CONSTANTS
  Half,      \* bits of one word: 16 in the code
  Size,      \* bits in the whole words of the span
  Widths,    \* widths asked of read, peek and drop
  MaxAsked   \* bound on the bits consumed, for TLC only

ASSUME ReaderAssumption ==
  /\ Half \in Nat \ {0}
  /\ Size \in Nat
  /\ \E k \in 0..Size : Size = k * Half
  /\ Widths \subseteq 1..(2 * Half)
  /\ MaxAsked \in Nat

VARIABLES
  ptr,     \* bits loaded so far (the byte pointer, in bits)
  bitbuf,  \* the window: bitbuf[1] is the most significant bit
  bits,    \* the reader's own count of valid bits in the window
  error,
  odd,     \* the span has an odd byte count (fixed by the constructor)
  asked,   \* history: stream position the caller has reached
  far,     \* history: furthest position any call asked for
  got      \* history: the last result, and the position it was read at

vars == <<ptr, bitbuf, bits, error, odd, asked, far, got>>

Word32 == 2 * Half
Pos == 1..Word32
Zeros == [i \in Pos |-> 0]

-----------------------------------------------------------------------------
(* The shifts and the addition the window is handled with. *)

ShiftLeft(w, n) == [i \in Pos |-> IF i + n <= Word32 THEN w[i + n] ELSE 0]
ShiftRight(w, n) == [i \in Pos |-> IF i > n THEN w[i - n] ELSE 0]

(* Adding (or or-ing) two windows is exact only where at most one of them  *)
(* has a bit; a clash is a bit of no stream position.                      *)
Clash == -1
Plus(v, w) == [i \in Pos |-> IF v[i] = 0 THEN w[i]
                             ELSE IF w[i] = 0 THEN v[i] ELSE Clash]

Furthest(n) == IF far < asked + n THEN asked + n ELSE far

(* Where the pointer stands after loading at p: two words, the single last *)
(* word, or p itself when nothing is left.                                 *)
LoadEndNoTail(p) == IF p + Word32 <= Size THEN p + Word32 ELSE p
LoadEnd(p) ==
  IF p + Word32 <= Size THEN p + Word32
  ELSE IF p + Half <= Size THEN p + Half ELSE p

(* The words loaded between p and q, aligned at the top of the window. *)
Loaded(p, q) == [i \in Pos |-> IF p + i <= q THEN p + i ELSE 0]

Init ==
  /\ ptr = 0
  /\ bitbuf = Zeros
  /\ bits = 0
  /\ odd \in BOOLEAN
  /\ error = odd
  /\ asked = 0
  /\ far = 0
  /\ got = [at |-> 0, n |-> 0, val |-> Zeros]

(* A call that has failed, or that fails now, answers 0 and only counts    *)
(* down; a successful refill answers the rest of the window followed by    *)
(* the first bits of the new words.                                        *)
KeptStale(n) == ShiftLeft(Loaded(ptr, LoadEnd(ptr)), n)
Kept(n) == ShiftLeft(Loaded(ptr, LoadEnd(ptr)), n - bits)

Refill(n) ==
  LET q == LoadEnd(ptr) IN
  \/ /\ error \/ q = ptr
     /\ error' = TRUE
     /\ bits' = bits - n
     /\ got' = [at |-> asked, n |-> n, val |-> Zeros]
     /\ UNCHANGED <<ptr, bitbuf>>
  \/ /\ ~error /\ q # ptr
     /\ ptr' = q
     /\ bits' = bits - n + Word32
     /\ bitbuf' = Kept(n)
     /\ got' = [at |-> asked, n |-> n,
                val |-> Plus(bitbuf, ShiftRight(Loaded(ptr, q), bits))]
     /\ UNCHANGED error

(* read(n), and drop(n), which is read(n) with its result thrown away. *)
Read(n) ==
  /\ asked + n <= MaxAsked
  /\ \/ /\ bits >= n
        /\ bits' = bits - n
        /\ bitbuf' = ShiftLeft(bitbuf, n)
        /\ got' = [at |-> asked, n |-> n, val |-> bitbuf]
        /\ UNCHANGED <<ptr, error>>
     \/ bits < n /\ Refill(n)
  /\ asked' = asked + n
  /\ far' = Furthest(n)
  /\ UNCHANGED odd

(* peek(n) tops the window up by one word: callers peek at most Half bits, *)
(* so one is enough.                                                       *)
Peek(n) ==
  /\ n <= Half
  /\ asked + n <= MaxAsked
  /\ \/ /\ bits >= n \/ error
        /\ UNCHANGED <<ptr, bitbuf, bits, error>>
     \/ /\ bits < n /\ ~error /\ ptr + Half > Size
        /\ error' = TRUE
        /\ UNCHANGED <<ptr, bitbuf, bits>>
     \/ /\ bits < n /\ ~error /\ ptr + Half <= Size
        /\ ptr' = ptr + Half
        /\ bits' = bits + Half
        /\ bitbuf' = Plus(bitbuf, ShiftRight(Loaded(ptr, ptr + Half), bits))
        /\ UNCHANGED error
  /\ got' = [at |-> asked, n |-> n, val |-> bitbuf']
  /\ far' = Furthest(n)
  /\ UNCHANGED <<asked, odd>>

(* seek_bits(b): a seek to the very end leaves the old window in place. *)
Seek(b) ==
  LET start == b - (b % Half)
      q == LoadEnd(start)
  IN
  /\ \/ /\ start >= Size
        /\ ptr' = Size
        /\ bits' = IF start = Size THEN 0 ELSE -Word32
        /\ error' = (error \/ start # Size)
        /\ UNCHANGED bitbuf
     \/ /\ start < Size
        /\ ptr' = q
        /\ bitbuf' = ShiftLeft(Loaded(start, q), b % Half)
        /\ bits' = (q - start) - (b % Half)
        /\ UNCHANGED error
  /\ asked' = b
  /\ far' = IF far < b THEN b ELSE far
  /\ got' = [at |-> b, n |-> 0, val |-> Zeros]
  /\ UNCHANGED odd

-----------------------------------------------------------------------------
Consume == \E n \in Widths : Read(n)
LookAhead == \E n \in Widths : Peek(n)
Reposition == \E b \in 0..MaxAsked : Seek(b)

(* akc_codec.BitReader *)
Next == Consume \/ LookAhead
Spec == Init /\ [][Next]_vars

(* portable_akc.LookupBitReader: the seek table is a whole number of words *)
LookupInit == Init /\ ~odd
LookupNext == Consume \/ Reposition
LookupSpec == LookupInit /\ [][LookupNext]_vars

-----------------------------------------------------------------------------
TypeOK ==
  /\ ptr \in 0..Size
  /\ bitbuf \in [Pos -> Int]
  /\ bits \in Int
  /\ error \in BOOLEAN
  /\ odd \in BOOLEAN
  /\ asked \in Nat
  /\ far \in Nat
  /\ got \in [at : Nat, n : 0..Word32, val : [Pos -> Int]]

StreamBit(i) == IF i <= Size THEN i ELSE 0

(* As long as no error is flagged, a result is exactly the next bits of    *)
(* the stream in stream order, and zeros behind its end: whatever mix of   *)
(* reads, peeks, drops and seeks left in the window, no bit is lost,       *)
(* repeated or added to another (BitReader.read/_refill/peek).             *)
InOrder ==
  ~error => \A j \in 1..got.n : got.val[j] = StreamBit(got.at + j)

(* On a span of whole words the error flag means that a caller asked for   *)
(* bits behind the end, and it is up as soon as one asked for more than    *)
(* one word behind it: `_refill` credits 32 bits even when only the last   *)
(* word was loaded, so up to Half filler zeros pass unnoticed, never more. *)
OverrunReported ==
  ~odd => /\ error => far > Size
          /\ far > Size + Half => error

=============================================================================
