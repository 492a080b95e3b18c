------------------------------ MODULE CodeLengths ------------------------------
(***************************************************************************)
(* read_code_lengths (akc_codec.py): the three transmissions of a table of *)
(* code lengths, as the loops they are, over a reader that runs dry.       *)
(*                                                                         *)
(* The reader is the number of bits left and answers any value as long as  *)
(* there are some; behind the end it answers 0 for ever, and nothing in    *)
(* read_code_lengths looks at its error flag.                              *)
(***************************************************************************)
EXTENDS Integers, FiniteSets

CONSTANTS
  Counts,    \* alphabet sizes asked for
  MaxBits,   \* bound on the bits left in the reader
  Literals,  \* literal lengths a pretree may hold, within 0..31
  Repeats,   \* extra-bit counts of its repeat symbols, within 0..11
  MaxCur     \* the sparse mode's running length is kept within 0..MaxCur, folded back

ASSUME LengthsAssumption ==
  /\ Counts \subseteq Nat \ {0}
  /\ MaxBits \in Nat /\ MaxCur \in Nat \ {0}
  /\ Literals \subseteq 0..31 /\ Repeats \subseteq 0..11

VARIABLES
  phase,     \* "prefix", "pretree", "sparse", "fixed", "done" or "failed"
  count,     \* symbols asked for
  lengths,   \* the result
  left,      \* bits left in the reader
  out,       \* next symbol (pretree and fixed mode)
  pretree,   \* symbols of the pretree, and the one the zero code names
  cur, prevPos, remaining,   \* the sparse loop
  width      \* bits of a position or of a fixed length

vars == <<phase, count, lengths, left, out, pretree, cur, prevPos, remaining, width>>

(* _bit_width(v), as the set of the one number it answers.                 *)
BitWidth(v) == {w \in 0..v : 2^w > v /\ (w = 0 \/ 2^(w - 1) <= v)}

(* What read(w) may answer, and the bits left behind it. *)
ReadValues(w) == IF left = 0 THEN {0} ELSE 0..(2^w - 1)
After(w) == IF left >= w THEN left - w ELSE 0

Literal(l) == [kind |-> "literal", len |-> l]
Repeat(e) == [kind |-> "repeat", bits |-> e]
Symbols == {Literal(l) : l \in Literals} \cup {Repeat(e) : e \in Repeats}
NoTree == [symbols |-> {}, zero |-> Literal(0)]

NoPrevious == -1

Init ==
  /\ phase = "prefix"
  /\ count \in Counts
  /\ lengths = [i \in 0..(count - 1) |-> 0]
  /\ left \in 0..MaxBits
  /\ out = 0 /\ pretree = NoTree
  /\ cur = 0 /\ prevPos = NoPrevious /\ remaining = 0 /\ width = 0

Ended == phase \in {"done", "failed"}

-----------------------------------------------------------------------------
(* Mode A: 6 and 4 bits of sizes, 3 bits for each length of the pretree.   *)
(* A dry reader cannot get here: its prefix bit is 0.                      *)
StartPretree ==
  /\ phase = "prefix" /\ left > 0
  /\ left' \in 0..(left - 1)
  /\ \/ /\ phase' = "done"                              \* g1 = 0
        /\ UNCHANGED pretree
     \/ /\ phase' = "failed"                            \* g1 or g2 too big
        /\ UNCHANGED pretree
     \/ /\ phase' = "pretree"
        /\ \E s \in SUBSET Symbols : \E z \in Symbols :
             /\ z \in s \/ s = {}
             /\ pretree' = [symbols |-> s, zero |-> z]
  /\ UNCHANGED <<count, lengths, out, cur, prevPos, remaining, width>>

RunExtraOnly(e, extra) == extra
Run(e, extra) == 2^e + extra

RunFitsNever(run) == TRUE
RunFits(run) == out + run <= count

(* The dry reader always decodes the all-zero code. *)
Decodable == IF left = 0 THEN pretree.symbols \cap {pretree.zero} ELSE pretree.symbols

PretreeSymbol ==
  /\ phase = "pretree" /\ out < count
  /\ UNCHANGED <<count, pretree, cur, prevPos, remaining, width>>
  /\ \/ /\ left > 0 \/ pretree.symbols = {}                 \* no such code
        /\ left' \in 0..left
        /\ phase' = "failed" /\ UNCHANGED <<lengths, out>>
     \/ \E s \in Decodable :
          /\ left' \in 0..(IF left = 0 THEN 0 ELSE left - 1)
          /\ \/ /\ s.kind = "literal"
                /\ lengths' = [lengths EXCEPT ![out] = s.len]
                /\ out' = out + 1 /\ UNCHANGED phase
             \/ /\ s.kind = "repeat" /\ out = 0
                /\ phase' = "failed" /\ UNCHANGED <<lengths, out>>
             \/ /\ s.kind = "repeat" /\ out > 0
                /\ \E extra \in IF left = 0 THEN {0} ELSE 0..(2^s.bits - 1) :
                     \/ /\ RunFits(Run(s.bits, extra))
                        /\ lengths' = [i \in DOMAIN lengths |->
                             IF i \in out..(out + Run(s.bits, extra) - 1)
                             THEN lengths[out - 1] ELSE lengths[i]]
                        /\ out' = out + Run(s.bits, extra) /\ UNCHANGED phase
                     \/ /\ ~RunFits(Run(s.bits, extra))
                        /\ phase' = "failed" /\ UNCHANGED <<lengths, out>>

(* Mode B: positions and a running length. *)
StartSparse ==
  /\ phase = "prefix" /\ left > 0
  /\ width' \in BitWidth(count - 1)
  /\ \E entries \in 1..(2^width') :
       /\ left' \in 0..(left - 1)
       /\ cur' \in IF left' = 0 THEN {0, 1} ELSE {1}
       /\ IF entries > count
          THEN phase' = "failed" /\ UNCHANGED remaining
          ELSE phase' = "sparse" /\ remaining' = entries
  /\ UNCHANGED <<count, lengths, out, pretree, prevPos>>

(* A repeated position bumps the length and consumes no entry. *)
SparseEntry ==
  /\ phase = "sparse" /\ remaining > 0
  /\ left' = After(width)
  /\ UNCHANGED <<count, out, pretree, width>>
  /\ \E pos \in ReadValues(width) :
       \/ /\ pos >= count
          /\ phase' = "failed" /\ UNCHANGED <<lengths, cur, prevPos, remaining>>
       \/ /\ pos < count /\ pos = prevPos
          /\ cur' = IF cur < MaxCur THEN cur + 1 ELSE 1
          /\ UNCHANGED <<phase, lengths, prevPos, remaining>>
       \/ /\ pos < count /\ pos # prevPos
          /\ lengths' = [lengths EXCEPT ![pos] = cur]
          /\ prevPos' = pos /\ remaining' = remaining - 1
          /\ UNCHANGED <<phase, cur>>

(* Mode C: lengths of one width. *)
StartFixed ==
  /\ phase = "prefix"
  /\ left' \in 0..left
  /\ \/ phase' = "failed" /\ left > 0 /\ UNCHANGED width       \* width > 5
     \/ phase' = "fixed" /\ width' \in IF left = 0 THEN {0} ELSE {0, 1, 2}
  /\ UNCHANGED <<count, lengths, out, pretree, cur, prevPos, remaining>>

FixedLength ==
  /\ phase = "fixed" /\ out < count
  /\ \E len \in ReadValues(width) : lengths' = [lengths EXCEPT ![out] = len]
  /\ left' = After(width)
  /\ out' = out + 1
  /\ UNCHANGED <<phase, count, pretree, cur, prevPos, remaining, width>>

Return ==
  /\ \/ phase \in {"pretree", "fixed"} /\ out = count
     \/ phase = "sparse" /\ remaining = 0
  /\ phase' = "done"
  /\ UNCHANGED <<count, lengths, left, out, pretree, cur, prevPos, remaining, width>>

Next ==
  \/ StartPretree \/ PretreeSymbol
  \/ StartSparse \/ SparseEntry
  \/ StartFixed \/ FixedLength
  \/ Return

(* One thread runs the loops; it is never suspended for good. *)
Spec == Init /\ [][Next]_vars /\ WF_vars(Next)

-----------------------------------------------------------------------------
TypeOK ==
  /\ phase \in {"prefix", "pretree", "sparse", "fixed", "done", "failed"}
  /\ lengths \in [0..(count - 1) -> Nat]
  /\ left \in 0..MaxBits
  /\ out \in 0..count /\ remaining \in 0..count
  /\ prevPos \in -1..(count - 1) /\ cur \in Nat /\ width \in Nat

(* The pretree and the fixed mode return or raise on every input, also     *)
(* when the reader runs dry and answers the same symbol for ever: each     *)
(* symbol fills at least one length.                                       *)
FillingEnds == phase \in {"pretree", "fixed"} ~> Ended

(* The sparse loop, whose repeats consume no entry, ends unless the reader *)
(* is dry; also for one symbol, whose positions have no bits at all.       *)
SparseEndsOrRunsDry == phase = "sparse" ~> (Ended \/ left = 0)

(* akc_codec.py:293: "Returns the length array". *)
Returns == <>Ended

=============================================================================
