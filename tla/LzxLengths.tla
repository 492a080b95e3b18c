------------------------------- MODULE LzxLengths -------------------------------
(***************************************************************************)
(* The code lengths of the LZX trees, which both decoders keep from block  *)
(* to block and change by deltas: _read_lens (lzx.py) and lzxd_read_lens   *)
(* (lzxd.c) on the same symbols. C's arrays go on behind the symbols that  *)
(* are read, and the tables are built from them as far as MAXSYMBOLS.      *)
(***************************************************************************)
EXTENDS Integers, Sequences

CONSTANTS
  Chars,      \* LZX_NUM_CHARS: the main tree comes in two parts
  MainSyms,   \* symbols of the main tree: LZX_NUM_CHARS + 8 * posn_slots
  MaxMain,    \* LZX_MAINTREE_MAXSYMBOLS
  LengthSyms, \* LZX_NUM_SECONDARY_LENGTHS; LZX_LENGTH_MAXSYMBOLS is one more
  Safety,     \* LZX_LENTABLE_SAFETY, 64
  Deltas,     \* symbols tried, within 0..16
  Seconds,    \* second symbols of a run, within 0..19
  MaxBlocks   \* bound on the blocks

ASSUME TreesAssumption ==
  /\ Chars \in Nat \ {0} /\ MainSyms \in Nat /\ MaxMain \in Nat /\ LengthSyms \in Nat \ {0}
  /\ Chars <= MainSyms /\ MainSyms <= MaxMain
  /\ Safety \in Nat /\ Safety >= 50
  /\ Deltas \subseteq 0..16 /\ Seconds \subseteq 0..19

VARIABLES
  part,     \* 1 and 2: the main tree, 3: the length tree
  x,        \* the next symbol
  py,       \* main_len and sec_len
  native,   \* MAINTREE_len and LENGTH_len
  blocks,   \* blocks begun
  wrapped,  \* history: a second symbol took a length below -17
  spilled   \* history: a run of a length that is not 0 went past the tree

treevars == <<part, x, py, native, blocks, wrapped, spilled>>

Tree == IF part = 3 THEN "length" ELSE "main"
TreeSymbols(tree) == IF tree = "main" THEN MainSyms ELSE LengthSyms
MaxSymbols(tree) == IF tree = "main" THEN MaxMain ELSE LengthSyms + 1
ArraySize(tree) == MaxSymbols(tree) + Safety
PartEnd == IF part = 1 THEN Chars ELSE TreeSymbols(Tree)

NoLengths(n) == [i \in 0..(n - 1) |-> 0]

(* A new stream, and lzx.py behind reset().                                *)
TreesInit ==
  /\ part = 1 /\ x = 0 /\ blocks = 1
  /\ py = [main |-> NoLengths(MainSyms), length |-> NoLengths(LengthSyms)]
  /\ native = [main |-> NoLengths(ArraySize("main")), length |-> NoLengths(ArraySize("length"))]
  /\ wrapped = FALSE /\ spilled = FALSE

-----------------------------------------------------------------------------
PyDeltaUnwrapped(old, z) == old - z
PyDelta(old, z) == IF old - z < 0 THEN old - z + 17 ELSE old - z
(* The result is stored in an unsigned char. *)
CDelta(old, z) == (IF old - z < 0 THEN old - z + 17 ELSE old - z) % 256

(* Python writes no symbol behind its list, C every one.                   *)
Fill(lens, n, value) == [i \in DOMAIN lens |-> IF i \in x..(x + n - 1) THEN value ELSE lens[i]]

Store(n, pyValue, cValue) ==
  /\ py' = [py EXCEPT ![Tree] = Fill(@, n, pyValue)]
  /\ native' = [native EXCEPT ![Tree] = Fill(@, n, cValue)]
  /\ x' = x + n
  /\ UNCHANGED <<part, blocks>>

Delta(z) ==
  /\ x < PartEnd
  /\ Store(1, PyDelta(py[Tree][x], z), CDelta(native[Tree][x], z))
  /\ UNCHANGED <<wrapped, spilled>>

LongRun(y) == y + 20

Zeros(n) ==
  /\ x < PartEnd
  /\ Store(n, 0, 0)
  /\ UNCHANGED <<wrapped, spilled>>

SameRun(n, z) ==
  LET value == CDelta(native[Tree][x], z)
  IN /\ x < PartEnd
     /\ Store(n, PyDelta(py[Tree][x], z), value)
     /\ wrapped' = (wrapped \/ native[Tree][x] - z < -17)
     /\ spilled' = (spilled \/ (value # 0 /\ x + n > TreeSymbols(Tree)))

NextPart ==
  /\ x >= PartEnd
  /\ \/ /\ part < 3 /\ part' = part + 1 /\ UNCHANGED blocks
     \/ /\ part = 3 /\ blocks < MaxBlocks
        /\ part' = 1 /\ blocks' = blocks + 1
  /\ x' = IF part = 1 THEN Chars ELSE 0
  /\ UNCHANGED <<py, native, wrapped, spilled>>

TreesNext ==
  \/ \E z \in Deltas : Delta(z)
  \/ \E y \in {0, 15} : Zeros(y + 4)
  \/ \E y \in {0, 31} : Zeros(LongRun(y))
  \/ \E y \in {0, 1}, z \in Seconds : SameRun(y + 4, z)
  \/ NextPart

TreesSpec == TreesInit /\ [][TreesNext]_treevars

-----------------------------------------------------------------------------
(* The trees are the same, and C's symbols behind the last one have no     *)
(* codes.                                                                  *)
EqualLengths ==
  ~wrapped => \A tree \in {"main", "length"} :
    /\ \A i \in 0..(TreeSymbols(tree) - 1) : py[tree][i] = native[tree][i] /\ py[tree][i] \in 0..16
    /\ spilled \/ \A i \in TreeSymbols(tree)..(MaxSymbols(tree) - 1) : native[tree][i] = 0

(* lzxd.h:42: "table decoding overruns are allowed".                       *)
OverrunWithinSafety == x <= ArraySize(Tree)

(* Both decoders build their trees from the same lengths within 0..16,     *)
(* over any number of blocks; except where a run's second symbol takes     *)
(* more than 17 from a length (254 in C, negative in Python) and where a   *)
(* run goes past the tree (lzx.py:222, lzxd.c:330). The longest run from   *)
(* the last symbol of the largest tree still ends in C's array.            *)
SameTrees == EqualLengths /\ OverrunWithinSafety

=============================================================================
