-------------------------------- MODULE Huffman --------------------------------
(***************************************************************************)
(* The canonical Huffman decoders of the repository, run side by side on   *)
(* one array of code lengths and one stretch of input:                     *)
(*   - the bit by bit walk (CanonicalHuffman.decode, _HTree._decode_slow), *)
(*     one bit at a time;                                                  *)
(*   - _HTree.decode (lzx.py), a table of PrimaryBits with the walk behind *)
(*     it;                                                                 *)
(*   - build_decode_table and decode_symbol (akc_codec.py), a table of     *)
(*     PrimaryBits alone.                                                  *)
(* The AKC reader answers 0 behind its end, the LZX reader raises EOFError.*)
(***************************************************************************)
EXTENDS Integers, Sequences, FiniteSetsExt

CONSTANTS
  NumSyms,      \* symbols 0..NumSyms-1
  MaxLen,       \* longest code length in the arrays tried
  PrimaryBits,  \* PRIMARY_BITS of lzx.py, root_bits of akc_codec.py
  LengthArrays, \* the arrays tried
  Inputs        \* the inputs tried: sequences of bits

ASSUME HuffmanAssumption ==
  /\ NumSyms \in Nat \ {0} /\ MaxLen \in Nat /\ PrimaryBits \in Nat \ {0}
  /\ LengthArrays \subseteq [0..(NumSyms - 1) -> 0..MaxLen]
  /\ Inputs \subseteq Seq({0, 1})

VARIABLES
  lens,   \* code length of each symbol, 0 for an unused one
  padded,    \* the AKC reader: zeros behind the end
  input,     \* the bits from the decoder's position on
  code,      \* the walk's bits so far
  ln,        \* and how many they are
  status,    \* "walking", "symbol", "invalid" or "eof"
  sym        \* the symbol found

walkvars == <<lens, padded, input, code, ln, status, sym>>

Syms == 0..(NumSyms - 1)
MaxLength == Max({lens[s] : s \in Syms})
OfLength(n) == {s \in Syms : n > 0 /\ lens[s] = n}

(* No code or table has more bits.                                         *)
Most == MaxLen + PrimaryBits

(* 1 << n *)
Power(n) ==
  LET power[k \in 0..Most] == IF k = 0 THEN 1 ELSE 2 * power[k - 1]
  IN power[n]

-----------------------------------------------------------------------------
(* What the constructors compute.                                          *)

FirstCodeUnshifted(n) == Cardinality({s \in Syms : lens[s] \in 1..(n - 1)})
FirstCode(n) ==
  LET first[k \in 0..Most] ==
        IF k = 0 THEN 0 ELSE 2 * (first[k - 1] + Cardinality(OfLength(k - 1)))
  IN first[n]

FirstIndex(n) == Cardinality({s \in Syms : lens[s] \in 1..(n - 1)})
Earlier(s) == Cardinality({t \in OfLength(lens[s]) : t < s})

(* Symbols by ascending length, then by ascending symbol.                  *)
Used == {s \in Syms : lens[s] > 0}
Sorted ==
  [i \in 1..Cardinality(Used) |->
    CHOOSE s \in Used : FirstIndex(lens[s]) + Earlier(s) + 1 = i]

(* The code next_code hands to s.                                          *)
Code(s) == FirstCode(lens[s]) + Earlier(s)

(* The slots of a table of b bits that s fills.                            *)
Slots(s, b) == LET start == Code(s) * Power(b - lens[s])
               IN start..(start + Power(b - lens[s]) - 1)
Short(b) == {s \in Syms : lens[s] \in 1..b}
(* Filling a slot behind the table raises IndexError.                      *)
Fits(b) == \A s \in Short(b) : Slots(s, b) \subseteq 0..(Power(b) - 1)
(* Symbols are filled in ascending order: the last one stays.              *)
Fillers(v, b) == {s \in Short(b) : v \in Slots(s, b)}

-----------------------------------------------------------------------------
Bit(i) == IF i <= Len(input) THEN input[i] ELSE 0
Peek(n) ==
  LET peek[k \in 0..Most] == IF k = 0 THEN 0 ELSE 2 * peek[k - 1] + Bit(k)
  IN peek[n]

WalkInit ==
  /\ lens \in LengthArrays
  /\ padded \in BOOLEAN
  /\ input \in Inputs
  /\ code = 0 /\ ln = 0 /\ status = "walking" /\ sym = -1

Within(offset, n) == n > 0 /\ offset >= 0 /\ offset < n

ReadBit ==
  /\ status = "walking" /\ ln < MaxLength
  /\ ln < Len(input) \/ padded
  /\ ln' = ln + 1
  /\ code' = 2 * code + Bit(ln')
  /\ LET n == FirstIndex(ln' + 1) - FirstIndex(ln')
         offset == code' - FirstCode(ln')
     IN \/ /\ Within(offset, n)
           /\ status' = "symbol"
           /\ sym' = Sorted[FirstIndex(ln') + offset + 1]
        \/ /\ ~Within(offset, n)
           /\ UNCHANGED <<status, sym>>
  /\ UNCHANGED <<lens, padded, input>>

AtEnd == ln = Len(input) /\ ~padded

OutOfBits ==
  /\ status = "walking" /\ ln < MaxLength
  /\ AtEnd
  /\ status' = "eof"
  /\ UNCHANGED <<lens, padded, input, code, ln, sym>>

NoSuchCode ==
  /\ status = "walking" /\ ln = MaxLength
  /\ status' = "invalid"
  /\ UNCHANGED <<lens, padded, input, code, ln, sym>>

WalkNext == ReadBit \/ OutOfBits \/ NoSuchCode
WalkSpec == WalkInit /\ [][WalkNext]_walkvars

-----------------------------------------------------------------------------
(* _HTree.decode: the table first; the walk on a miss, without a table,    *)
(* and when fewer bits are left than the table wants to see.               *)
Primary == Min({MaxLength, PrimaryBits})
SlowPath == [by |-> "walk"]
PeekFailsNever(n) == FALSE
PeekFails(n) == ~padded /\ Len(input) < n
HTree ==
  IF Primary = 0 \/ PeekFails(Primary) \/ Fillers(Peek(Primary), Primary) = {} THEN SlowPath
  ELSE LET s == Max(Fillers(Peek(Primary), Primary))
       IN [by |-> "table", sym |-> s, len |-> lens[s]]

(* decode_symbol: an unfilled slot holds the word 0, symbol 0 of length 0. *)
TableWord ==
  IF Fillers(Peek(PrimaryBits), PrimaryBits) = {} THEN [sym |-> 0, len |-> 0]
  ELSE LET s == Max(Fillers(Peek(PrimaryBits), PrimaryBits)) IN [sym |-> s, len |-> lens[s]]

-----------------------------------------------------------------------------
(* The reference: the code word of s begins where those of the symbols     *)
(* before it, shorter ones and then smaller ones, end.                     *)
Sum(f) ==
  LET sum[n \in 0..NumSyms] == IF n = 0 THEN 0 ELSE sum[n - 1] + f[n - 1]
  IN sum[NumSyms]

Before(t, s) == lens[t] > 0 /\ (lens[t] < lens[s] \/ (lens[t] = lens[s] /\ t < s))
CodeWord(s) == Sum([t \in Syms |-> IF Before(t, s) THEN Power(lens[s] - lens[t]) ELSE 0])
(* The space the codes take, in units of 2^-MaxLen.                        *)
Kraft == Sum([t \in Syms |-> IF lens[t] > 0 THEN Power(MaxLen - lens[t]) ELSE 0])
(* The bits read begin with the code word of s.                            *)
HasRead(s) ==
  /\ lens[s] \in 1..ln
  /\ LET rest == Power(ln - lens[s])
     IN code \in (CodeWord(s) * rest)..(CodeWord(s) * rest + rest - 1)

WalkTypeOK ==
  /\ lens \in [Syms -> 0..MaxLen] /\ ln \in 0..MaxLength
  /\ code \in 0..(Power(ln) - 1)
  /\ status \in {"walking", "symbol", "invalid", "eof"}
  /\ sym \in IF status = "symbol" THEN Syms ELSE {-1}
  /\ status = "eof" => ~padded /\ ln = Len(input)

(* A complete set of code words decodes every input.                       *)
CompleteNeverFails == Kraft = Power(MaxLen) => status # "invalid"

(* The walk, with its first codes and symbol index, stops at the symbol    *)
(* whose code word the input starts with, and at no other: also for arrays *)
(* that leave codes unused or hand out too many; and it never fails where  *)
(* the code words are complete (akc_codec.py:257, lzx.py:188).             *)
WalkFindsCodeWord ==
  /\ {s \in Syms : HasRead(s)} = IF status = "symbol" THEN {sym} ELSE {}
  /\ CompleteNeverFails

(* Whenever the table can be built, its hit is the walk's symbol and       *)
(* length, with the last bits of the input too.                            *)
TableHitIsWalk ==
  Fits(Primary) /\ HTree.by = "table" /\ status # "walking" =>
    status = "symbol" /\ HTree.sym = sym /\ HTree.len = ln

(* decode_symbol finds the walk's symbol in a table whose codes are all    *)
(* short, wherever the walk finds one.                                     *)
ShortCodesByTable ==
  MaxLength <= PrimaryBits /\ Fits(PrimaryBits) /\ padded /\ status = "symbol" =>
    TableWord = [sym |-> sym, len |-> ln]

(* lzx.py:133: "Byte-for-byte identical to the pure bit-by-bit decoder";   *)
(* the same of the tables of akc_codec.py whose codes are all short.       *)
TablesAgree == TableHitIsWalk /\ ShortCodesByTable

=============================================================================
