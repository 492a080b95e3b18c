------------------------------ MODULE CodesProofs ------------------------------
(* How code lengths arrive and what is read with the codes they give: the  *)
(* AKC reader fills its arrays inside their bounds, both LZX decoders end  *)
(* up with the same lengths, and the canonical Huffman decoders find the   *)
(* code words, for every array of lengths and every input.                 *)
EXTENDS CodeLengths, LzxTable, LzxLengths, Iteration, FiniteSetTheorems, TLAPS

-----------------------------------------------------------------------------
(***************************************************************************)
(* The three transmissions of AKC's code lengths.                          *)
(***************************************************************************)
LengthsTypes == TypeOK /\ count \in Nat /\ count > 0 /\ pretree.symbols \subseteq Symbols

LEMMA TypesUnfolded ==
  ASSUME LengthsTypes
  PROVE  /\ phase \in {"prefix", "pretree", "sparse", "fixed", "done", "failed"}
         /\ lengths \in [0..(count - 1) -> Nat]
         /\ left \in 0..MaxBits /\ left \in Nat
         /\ out \in Nat /\ out <= count /\ out \in 0..count
         /\ remaining \in Nat /\ remaining <= count /\ remaining \in 0..count
         /\ prevPos \in -1..(count - 1) /\ cur \in Nat /\ width \in Nat
         /\ count \in Nat /\ count > 0 /\ pretree.symbols \subseteq Symbols
BY LengthsAssumption DEF LengthsTypes, TypeOK

LEMMA ReaderFacts ==
  ASSUME LengthsTypes, NEW w \in Nat
  PROVE  /\ ReadValues(w) \subseteq Nat
         /\ After(w) \in 0..MaxBits
BY TypesUnfolded, LengthsAssumption DEF ReadValues, After

LEMMA Shifts == \A e \in Repeats : 2^e \in Nat /\ 2^e > 0
<1>1. ASSUME NEW e \in 0..11 PROVE 2^e \in Nat /\ 2^e > 0
  <2>1. \/ e = 0 \/ e = 1 \/ e = 2 \/ e = 3 \/ e = 4 \/ e = 5
        \/ e = 6 \/ e = 7 \/ e = 8 \/ e = 9 \/ e = 10 \/ e = 11
    OBVIOUS
  <2>2. CASE e = 0
    BY <2>2
  <2>3. CASE e = 1
    BY <2>3
  <2>4. CASE e = 2
    BY <2>4
  <2>5. CASE e = 3
    BY <2>5
  <2>6. CASE e = 4
    BY <2>6
  <2>7. CASE e = 5
    BY <2>7
  <2>8. CASE e = 6
    BY <2>8
  <2>9. CASE e = 7
    BY <2>9
  <2>10. CASE e = 8
    BY <2>10
  <2>11. CASE e = 9
    BY <2>11
  <2>12. CASE e = 10
    BY <2>12
  <2>13. CASE e = 11
    BY <2>13
  <2>14. QED
    BY ONLY <2>1, <2>2, <2>3, <2>4, <2>5, <2>6, <2>7, <2>8, <2>9, <2>10, <2>11, <2>12, <2>13
<1>2. QED  BY <1>1, LengthsAssumption

LEMMA PretreeTypes ==
  ASSUME LengthsTypes, PretreeSymbol PROVE LengthsTypes'
<1>1. /\ phase = "pretree" /\ out \in Nat /\ out < count
      /\ UNCHANGED <<count, pretree, cur, prevPos, remaining, width>>
  BY TypesUnfolded DEF PretreeSymbol
<1>2. left' \in 0..MaxBits
  <2>1. left' \in 0..left \/ left' \in 0..(IF left = 0 THEN 0 ELSE left - 1)
    BY DEF PretreeSymbol
  <2>2. QED  BY <2>1, TypesUnfolded, LengthsAssumption
<1>3. /\ phase' \in {"pretree", "failed"}
      /\ lengths' \in [0..(count - 1) -> Nat] /\ out' \in 0..count
  <2>1. CASE phase' = "failed" /\ UNCHANGED <<lengths, out>>
    BY <2>1, TypesUnfolded
  <2>2. ASSUME NEW s \in Symbols, s.kind = "literal",
               lengths' = [lengths EXCEPT ![out] = s.len], out' = out + 1, UNCHANGED phase
        PROVE  /\ phase' \in {"pretree", "failed"}
               /\ lengths' \in [0..(count - 1) -> Nat] /\ out' \in 0..count
    <3>1. s.len \in Nat
      BY <2>2, LengthsAssumption DEF Symbols, Literal, Repeat
    <3>2. QED  BY <1>1, <2>2, <3>1, TypesUnfolded
  <2>3. ASSUME NEW s \in Symbols, s.kind = "repeat", out > 0,
               NEW extra \in IF left = 0 THEN {0} ELSE 0..(2^s.bits - 1),
               RunFits(Run(s.bits, extra)),
               lengths' = [i \in DOMAIN lengths |->
                             IF i \in out..(out + Run(s.bits, extra) - 1)
                             THEN lengths[out - 1] ELSE lengths[i]],
               out' = out + Run(s.bits, extra), UNCHANGED phase
        PROVE  /\ phase' \in {"pretree", "failed"}
               /\ lengths' \in [0..(count - 1) -> Nat] /\ out' \in 0..count
    <3>1. s.bits \in Repeats
      BY <2>3 DEF Symbols, Literal, Repeat
    <3>2. 2^s.bits \in Nat /\ 2^s.bits > 0
      BY <3>1, Shifts
    <3>3. extra \in Nat
      BY <3>2
    <3>4. Run(s.bits, extra) \in Nat
      BY <3>2, <3>3 DEF Run
    <3>5. out' \in 0..count
      BY <1>1, <2>3, <3>4, TypesUnfolded DEF RunFits
    <3>6. lengths' \in [0..(count - 1) -> Nat]
      <4>1. lengths[out - 1] \in Nat
        BY <1>1, <2>3, TypesUnfolded
      <4>2. QED  BY <2>3, <4>1, TypesUnfolded
    <3>7. QED  BY <1>1, <2>3, <3>5, <3>6
  <2>4. Decodable \subseteq Symbols
    BY TypesUnfolded DEF Decodable
  <2>5. QED  BY <2>1, <2>2, <2>3, <2>4 DEF PretreeSymbol
<1>4. QED  BY <1>1, <1>2, <1>3, TypesUnfolded DEF LengthsTypes, TypeOK

LEMMA SparseTypes ==
  ASSUME LengthsTypes, StartSparse \/ SparseEntry PROVE LengthsTypes'
<1>1. CASE StartSparse
  <2>1. /\ left' \in 0..(left - 1) /\ cur' \in {0, 1}
        /\ UNCHANGED <<count, lengths, out, pretree, prevPos>>
    BY <1>1 DEF StartSparse
  <2>2. width' \in Nat
    BY <1>1, TypesUnfolded DEF StartSparse, BitWidth
  <2>3. phase' \in {"failed", "sparse"} /\ remaining' \in 0..count
    <3>1. PICK entries \in 1..(2^width') :
            IF entries > count THEN phase' = "failed" /\ UNCHANGED remaining
            ELSE phase' = "sparse" /\ remaining' = entries
      BY <1>1 DEF StartSparse
    <3>2. entries \in Int /\ entries >= 1
      OBVIOUS
    <3>3. QED  BY <3>1, <3>2, TypesUnfolded
  <2>4. left' \in 0..MaxBits /\ cur' \in Nat
    BY <2>1, TypesUnfolded, LengthsAssumption
  <2>5. QED  BY <2>1, <2>2, <2>3, <2>4, TypesUnfolded DEF LengthsTypes, TypeOK
<1>2. CASE SparseEntry
  <2>1. left' \in 0..MaxBits /\ UNCHANGED <<count, out, pretree, width>>
    BY <1>2, ReaderFacts, TypesUnfolded DEF SparseEntry
  <2>2. PICK pos \in ReadValues(width) :
       \/ /\ pos >= count
          /\ phase' = "failed" /\ UNCHANGED <<lengths, cur, prevPos, remaining>>
       \/ /\ pos < count /\ pos = prevPos
          /\ cur' = IF cur < MaxCur THEN cur + 1 ELSE 1
          /\ UNCHANGED <<phase, lengths, prevPos, remaining>>
       \/ /\ pos < count /\ pos # prevPos
          /\ lengths' = [lengths EXCEPT ![pos] = cur]
          /\ prevPos' = pos /\ remaining' = remaining - 1
          /\ UNCHANGED <<phase, cur>>
    BY <1>2 DEF SparseEntry
  <2>3. pos \in Nat
    BY ReaderFacts, TypesUnfolded
  <2>4. remaining > 0
    BY <1>2 DEF SparseEntry
  <2>5. /\ lengths' \in [0..(count - 1) -> Nat] /\ remaining' \in 0..count
        /\ prevPos' \in -1..(count - 1) /\ cur' \in Nat
    BY <2>2, <2>3, <2>4, TypesUnfolded
  <2>6. phase' \in {phase, "failed"}
    BY <2>2
  <2>7. QED  BY <2>1, <2>5, <2>6, TypesUnfolded DEF LengthsTypes, TypeOK
<1>3. QED  BY <1>1, <1>2

LEMMA FixedTypes ==
  ASSUME LengthsTypes, StartFixed \/ FixedLength PROVE LengthsTypes'
<1>1. CASE StartFixed
  <2>1. /\ left' \in 0..left /\ phase' \in {"failed", "fixed"} /\ width' \in {width, 0, 1, 2}
        /\ UNCHANGED <<count, lengths, out, pretree, cur, prevPos, remaining>>
    BY <1>1 DEF StartFixed
  <2>2. left' \in 0..MaxBits /\ width' \in Nat
    BY <2>1, TypesUnfolded, LengthsAssumption
  <2>3. QED  BY <2>1, <2>2, TypesUnfolded DEF LengthsTypes, TypeOK
<1>2. CASE FixedLength
  <2>1. /\ out < count /\ out' = out + 1 /\ left' = After(width)
        /\ UNCHANGED <<phase, count, pretree, cur, prevPos, remaining, width>>
    BY <1>2 DEF FixedLength
  <2>2. PICK len \in ReadValues(width) : lengths' = [lengths EXCEPT ![out] = len]
    BY <1>2 DEF FixedLength
  <2>3. len \in Nat /\ left' \in 0..MaxBits
    BY <2>1, ReaderFacts, TypesUnfolded
  <2>4. lengths' \in [0..(count - 1) -> Nat] /\ out' \in 0..count
    BY <2>1, <2>2, <2>3, TypesUnfolded
  <2>5. QED  BY <2>1, <2>3, <2>4, TypesUnfolded DEF LengthsTypes, TypeOK
<1>3. QED  BY <1>1, <1>2

(* Runs stay inside the alphabet and positions too, whatever the reader    *)
(* answers, dry or not, in all three modes of read_code_lengths.           *)
THEOREM LengthsTypesCorrect == Spec => []TypeOK
<1>1. Init => LengthsTypes
  <2>1. SUFFICES ASSUME Init PROVE LengthsTypes
    OBVIOUS
  <2>2. count \in Nat /\ count > 0 /\ left \in 0..MaxBits
    BY <2>1, LengthsAssumption DEF Init
  <2>3. lengths \in [0..(count - 1) -> Nat] /\ pretree.symbols \subseteq Symbols
    BY <2>1 DEF Init, NoTree
  <2>4. QED  BY <2>1, <2>2, <2>3 DEF Init, NoPrevious, LengthsTypes, TypeOK
<1>2. LengthsTypes /\ [Next]_vars => LengthsTypes'
  <2>1. SUFFICES ASSUME LengthsTypes, [Next]_vars PROVE LengthsTypes'
    OBVIOUS
  <2>2. CASE StartPretree
    <3>1. /\ left' \in 0..(left - 1) /\ phase' \in {"done", "failed", "pretree"}
          /\ UNCHANGED <<count, lengths, out, cur, prevPos, remaining, width>>
      BY <2>2 DEF StartPretree
    <3>2. pretree'.symbols \subseteq Symbols
      BY <2>1, <2>2, TypesUnfolded DEF StartPretree
    <3>3. left' \in 0..MaxBits
      BY <2>1, <3>1, TypesUnfolded, LengthsAssumption
    <3>4. QED  BY <2>1, <3>1, <3>2, <3>3, TypesUnfolded DEF LengthsTypes, TypeOK
  <2>3. CASE Return
    BY <2>1, <2>3, TypesUnfolded DEF Return, LengthsTypes, TypeOK
  <2>4. CASE UNCHANGED vars
    BY <2>1, <2>4 DEF vars, LengthsTypes, TypeOK
  <2>5. QED
    BY <2>1, <2>2, <2>3, <2>4, PretreeTypes, SparseTypes, FixedTypes DEF Next
<1>3. LengthsTypes => TypeOK
  BY DEF LengthsTypes
<1>4. QED  BY <1>1, <1>2, <1>3, PTL DEF Spec

-----------------------------------------------------------------------------
(***************************************************************************)
(* The lengths of the LZX trees.                                           *)
(***************************************************************************)
Trees == {"main", "length"}
LongestRun == 51

PartTypes ==
  /\ part \in 1..3 /\ blocks \in Nat /\ wrapped \in BOOLEAN /\ spilled \in BOOLEAN
  /\ x \in Nat /\ (x < PartEnd \/ x <= PartEnd - 1 + LongestRun)
TwoTrees ==
  /\ DOMAIN py = Trees /\ py = [tree \in Trees |-> py[tree]]
  /\ DOMAIN native = Trees /\ native = [tree \in Trees |-> native[tree]]
ArrayTypes ==
  \A tree \in Trees :
    /\ py[tree] \in [0..(TreeSymbols(tree) - 1) -> Int]
    /\ native[tree] \in [0..(ArraySize(tree) - 1) -> Nat]

TreesInv == PartTypes /\ TwoTrees /\ ArrayTypes /\ EqualLengths

LEMMA TreeSizes ==
  /\ Chars \in Nat /\ Chars > 0 /\ Chars <= MainSyms
  /\ \A tree \in Trees :
       /\ TreeSymbols(tree) \in Nat /\ TreeSymbols(tree) > 0
       /\ MaxSymbols(tree) \in Nat /\ TreeSymbols(tree) <= MaxSymbols(tree)
       /\ ArraySize(tree) \in Nat /\ ArraySize(tree) >= MaxSymbols(tree) + 50
  /\ Tree \in Trees
  /\ PartEnd \in Nat /\ PartEnd > 0 /\ PartEnd <= TreeSymbols(Tree)
BY TreesAssumption DEF Trees, TreeSymbols, MaxSymbols, ArraySize, Tree, PartEnd

(* The new length of a symbol, if no more than 17 is taken from the old.   *)
LEMMA DeltaFacts ==
  ASSUME NEW old \in Int, NEW z \in 0..19
  PROVE  /\ PyDelta(old, z) \in Int /\ CDelta(old, z) \in 0..255
         /\ old \in 0..16 /\ old - z >= -17
              => CDelta(old, z) = PyDelta(old, z) /\ PyDelta(old, z) \in 0..16
<1> DEFINE d == IF old - z < 0 THEN old - z + 17 ELSE old - z
<1>1. d \in Int /\ (old \in 0..16 /\ old - z >= -17 => d \in 0..16)
  OBVIOUS
<1>2. PyDelta(old, z) = d /\ CDelta(old, z) = d % 256
  BY DEF PyDelta, CDelta
<1> HIDE DEF d
<1>3. d % 256 \in 0..255
  BY <1>1
<1>4. d \in 0..16 => d % 256 = d
  OBVIOUS
<1>5. QED  BY <1>1, <1>2, <1>3, <1>4

(* The two decoders write a run of n symbols, the same ones unless wrapped.*)
LEMMA StoreInv ==
  ASSUME TreesInv, x < PartEnd, NEW n \in 1..LongestRun, NEW p \in Int, NEW c \in Nat,
         Store(n, p, c), wrapped' \in BOOLEAN, spilled' \in BOOLEAN,
         ~wrapped' => ~wrapped /\ p = c /\ c \in 0..16,
         ~spilled' => ~spilled /\ (c = 0 \/ x + n <= TreeSymbols(Tree))
  PROVE  TreesInv'
<1>1. /\ py' = [py EXCEPT ![Tree] = Fill(@, n, p)]
      /\ native' = [native EXCEPT ![Tree] = Fill(@, n, c)]
      /\ x' = x + n /\ UNCHANGED <<part, blocks>>
  BY DEF Store
<1>2. Tree' = Tree /\ PartEnd' = PartEnd
  BY <1>1 DEF Tree, PartEnd
<1>3. x \in Nat /\ n \in Nat /\ n > 0 /\ n <= LongestRun
  BY DEF TreesInv, PartTypes, LongestRun
<1>4. /\ DOMAIN py' = Trees /\ DOMAIN native' = Trees
      /\ py' = [tree \in Trees |-> py'[tree]] /\ native' = [tree \in Trees |-> native'[tree]]
      /\ \A tree \in Trees : tree # Tree => py'[tree] = py[tree] /\ native'[tree] = native[tree]
      /\ py'[Tree] = Fill(py[Tree], n, p) /\ native'[Tree] = Fill(native[Tree], n, c)
  <2>1. Tree \in Trees /\ DOMAIN py = Trees /\ DOMAIN native = Trees
    BY TreeSizes DEF TreesInv, TwoTrees
  <2>2. QED  BY ONLY <1>1, <2>1
<1>5. /\ py[Tree] \in [0..(TreeSymbols(Tree) - 1) -> Int]
      /\ native[Tree] \in [0..(ArraySize(Tree) - 1) -> Nat]
  BY TreeSizes DEF TreesInv, ArrayTypes
<1>6. /\ py'[Tree] \in [0..(TreeSymbols(Tree) - 1) -> Int]
      /\ native'[Tree] \in [0..(ArraySize(Tree) - 1) -> Nat]
      /\ \A i \in 0..(TreeSymbols(Tree) - 1) :
           py'[Tree][i] = IF i \in x..(x + n - 1) THEN p ELSE py[Tree][i]
      /\ \A i \in 0..(ArraySize(Tree) - 1) :
           native'[Tree][i] = IF i \in x..(x + n - 1) THEN c ELSE native[Tree][i]
  <2> DEFINE run == x..(x + n - 1)
  <2>1. /\ py'[Tree] = [i \in 0..(TreeSymbols(Tree) - 1) |-> IF i \in run THEN p ELSE py[Tree][i]]
        /\ native'[Tree] = [i \in 0..(ArraySize(Tree) - 1) |-> IF i \in run THEN c ELSE native[Tree][i]]
    BY <1>4, <1>5 DEF Fill
  <2> HIDE DEF run
  <2>2. \A i \in 0..(TreeSymbols(Tree) - 1) : py[Tree][i] \in Int
    BY ONLY <1>5
  <2>3. \A i \in 0..(ArraySize(Tree) - 1) : native[Tree][i] \in Nat
    BY ONLY <1>5
  <2>4. /\ py'[Tree] \in [0..(TreeSymbols(Tree) - 1) -> Int]
        /\ \A i \in 0..(TreeSymbols(Tree) - 1) : py'[Tree][i] = IF i \in run THEN p ELSE py[Tree][i]
    BY ONLY <2>1, <2>2, p \in Int
  <2>5. /\ native'[Tree] \in [0..(ArraySize(Tree) - 1) -> Nat]
        /\ \A i \in 0..(ArraySize(Tree) - 1) :
             native'[Tree][i] = IF i \in run THEN c ELSE native[Tree][i]
    BY ONLY <2>1, <2>3, c \in Nat
  <2>6. QED  BY ONLY <2>4, <2>5 DEF run
<1>7. x' \in Nat /\ x' <= PartEnd' - 1 + LongestRun
  BY <1>1, <1>2, <1>3, TreeSizes DEF LongestRun
<1>8. ArrayTypes'
  <2>1. ASSUME NEW tree \in Trees
        PROVE  /\ py'[tree] \in [0..(TreeSymbols(tree) - 1) -> Int]
               /\ native'[tree] \in [0..(ArraySize(tree) - 1) -> Nat]
    <3>1. CASE tree = Tree
      BY <1>6, <3>1
    <3>2. CASE tree # Tree
      BY <1>4, <3>2 DEF TreesInv, ArrayTypes
    <3>3. QED  BY <3>1, <3>2
  <2>2. QED  BY <2>1 DEF ArrayTypes
<1>9. ASSUME ~wrapped', NEW tree \in Trees
      PROVE  /\ \A i \in 0..(TreeSymbols(tree) - 1) :
                  py'[tree][i] = native'[tree][i] /\ py'[tree][i] \in 0..16
             /\ spilled' \/ \A i \in TreeSymbols(tree)..(MaxSymbols(tree) - 1) : native'[tree][i] = 0
  <2>1. /\ \A i \in 0..(TreeSymbols(tree) - 1) :
             py[tree][i] = native[tree][i] /\ py[tree][i] \in 0..16
        /\ spilled \/ \A i \in TreeSymbols(tree)..(MaxSymbols(tree) - 1) : native[tree][i] = 0
    BY <1>9 DEF TreesInv, EqualLengths, Trees
  <2>2. CASE tree # Tree
    BY <1>4, <2>1, <2>2
  <2>3. CASE tree = Tree
    <3>1. ASSUME NEW i \in 0..(TreeSymbols(tree) - 1)
          PROVE  py'[tree][i] = native'[tree][i] /\ py'[tree][i] \in 0..16
      <4>1. i \in 0..(ArraySize(tree) - 1)
        BY TreeSizes
      <4>2. QED  BY <1>6, <1>9, <2>1, <2>3, <4>1
    <3>2. ASSUME ~spilled', NEW i \in TreeSymbols(tree)..(MaxSymbols(tree) - 1)
          PROVE  native'[tree][i] = 0
      <4>1. i \in 0..(ArraySize(tree) - 1) /\ i \in Nat
        BY TreeSizes
      <4>2. i \in x..(x + n - 1) => c = 0
        BY <1>3, <2>3, <3>2, <4>1, TreeSizes
      <4>3. QED  BY <1>6, <2>1, <2>3, <3>2, <4>1, <4>2
    <3>3. QED  BY <3>1, <3>2
  <2>4. QED  BY <2>2, <2>3
<1>10. EqualLengths'
  BY <1>9 DEF EqualLengths, Trees
<1>11. PartTypes'
  <2>1. part \in 1..3 /\ blocks \in Nat
    BY DEF TreesInv, PartTypes
  <2>2. QED  BY <1>1, <1>7, <2>1 DEF PartTypes
<1>12. TwoTrees'
  BY <1>4 DEF TwoTrees
<1>13. QED  BY <1>8, <1>10, <1>11, <1>12 DEF TreesInv

LEMMA ReadLength ==
  ASSUME TreesInv, x < PartEnd
  PROVE  /\ py[Tree][x] \in Int /\ native[Tree][x] \in Nat /\ x \in Nat /\ x + 1 <= TreeSymbols(Tree)
         /\ ~wrapped => py[Tree][x] = native[Tree][x] /\ native[Tree][x] \in 0..16
<1>1. /\ x \in 0..(TreeSymbols(Tree) - 1) /\ x \in 0..(ArraySize(Tree) - 1) /\ x \in Nat
      /\ x + 1 <= TreeSymbols(Tree)
  BY TreeSizes DEF TreesInv, PartTypes
<1>2. py[Tree][x] \in Int /\ native[Tree][x] \in Nat
  BY <1>1, TreeSizes DEF TreesInv, ArrayTypes
<1>3. ~wrapped => py[Tree][x] = native[Tree][x] /\ native[Tree][x] \in 0..16
  BY <1>1, TreeSizes DEF TreesInv, EqualLengths, Trees
<1>4. QED  BY <1>1, <1>2, <1>3

LEMMA DeltasAgree ==
  ASSUME TreesInv, x < PartEnd, NEW z \in 0..19
  PROVE  /\ PyDelta(py[Tree][x], z) \in Int /\ CDelta(native[Tree][x], z) \in Nat
         /\ ~wrapped /\ native[Tree][x] - z >= -17
              => /\ PyDelta(py[Tree][x], z) = CDelta(native[Tree][x], z)
                 /\ CDelta(native[Tree][x], z) \in 0..16
<1> PICK a, b : a = py[Tree][x] /\ b = native[Tree][x]
  OBVIOUS
<1>1. a \in Int /\ b \in Int /\ (~wrapped => a = b /\ b \in 0..16)
  BY ReadLength
<1>2. /\ PyDelta(a, z) \in Int /\ CDelta(b, z) \in 0..255
  BY <1>1, DeltaFacts
<1>3. ~wrapped /\ b - z >= -17 => PyDelta(a, z) = CDelta(b, z) /\ CDelta(b, z) \in 0..16
  BY <1>1, DeltaFacts
<1>4. CDelta(b, z) \in Nat
  BY <1>2
<1>5. QED  BY <1>2, <1>3, <1>4

LEMMA TreesStepInv ==
  ASSUME TreesInv, [TreesNext]_treevars PROVE TreesInv'
<1>0. wrapped \in BOOLEAN /\ spilled \in BOOLEAN /\ x \in Nat
  BY DEF TreesInv, PartTypes
<1>1. ASSUME NEW z \in Deltas, Delta(z) PROVE TreesInv'
  <2>1. z \in 0..19 /\ z \in 0..16
    BY TreesAssumption
  <2>2. x < PartEnd /\ UNCHANGED <<wrapped, spilled>>
        /\ Store(1, PyDelta(py[Tree][x], z), CDelta(native[Tree][x], z))
    BY <1>1 DEF Delta
  <2>3. /\ PyDelta(py[Tree][x], z) \in Int /\ CDelta(native[Tree][x], z) \in Nat
        /\ ~wrapped => /\ PyDelta(py[Tree][x], z) = CDelta(native[Tree][x], z)
                       /\ CDelta(native[Tree][x], z) \in 0..16
    <3>1. ~wrapped => native[Tree][x] - z >= -17
      BY <2>1, <2>2, ReadLength
    <3>2. QED  BY <2>1, <2>2, <3>1, DeltasAgree
  <2>5. 1 \in 1..LongestRun /\ x + 1 <= TreeSymbols(Tree)
    BY <2>2, ReadLength DEF LongestRun
  <2>6. QED  BY <1>0, <2>2, <2>3, <2>5, StoreInv
<1>2. ASSUME NEW n \in 1..LongestRun, Zeros(n) PROVE TreesInv'
  BY <1>0, <1>2, StoreInv DEF Zeros
<1>3. ASSUME NEW n \in 1..LongestRun, NEW z \in Seconds, SameRun(n, z) PROVE TreesInv'
  <2>1. z \in 0..19
    BY TreesAssumption
  <2> DEFINE p == PyDelta(py[Tree][x], z)
             c == CDelta(native[Tree][x], z)
  <2>2. /\ x < PartEnd /\ Store(n, p, c)
        /\ wrapped' = (wrapped \/ native[Tree][x] - z < -17)
        /\ spilled' = (spilled \/ (c # 0 /\ x + n > TreeSymbols(Tree)))
    BY <1>3 DEF SameRun
  <2>3. /\ p \in Int /\ c \in Nat
        /\ ~wrapped /\ native[Tree][x] - z >= -17 => p = c /\ c \in 0..16
    BY <2>1, <2>2, DeltasAgree
  <2>4. ~wrapped' => ~wrapped /\ p = c /\ c \in 0..16
    <3> HIDE DEF p, c
    <3>1. native[Tree][x] \in Nat
      BY <2>2, ReadLength
    <3>2. ~wrapped' => ~wrapped /\ ~(native[Tree][x] - z < -17)
      BY ONLY <1>0, <2>2
    <3>3. ~(native[Tree][x] - z < -17) => native[Tree][x] - z >= -17
      BY ONLY <2>1, <3>1
    <3>4. QED  BY ONLY <2>3, <3>2, <3>3
  <2> HIDE DEF p, c
  <2>5. ~spilled' => ~spilled /\ (c = 0 \/ x + n <= TreeSymbols(Tree))
    <3>1. n \in Nat /\ TreeSymbols(Tree) \in Nat
      BY TreeSizes DEF LongestRun
    <3>2. ~spilled' => ~spilled /\ (c = 0 \/ ~(x + n > TreeSymbols(Tree)))
      BY ONLY <1>0, <2>2
    <3>3. ~(x + n > TreeSymbols(Tree)) => x + n <= TreeSymbols(Tree)
      BY ONLY <1>0, <3>1
    <3>4. QED  BY ONLY <3>2, <3>3
  <2>6. wrapped' \in BOOLEAN /\ spilled' \in BOOLEAN
    BY <2>2
  <2>7. QED  BY <2>2, <2>3, <2>4, <2>5, <2>6, StoreInv
<1>4. CASE NextPart
  <2>1. UNCHANGED <<py, native, wrapped, spilled>> /\ x' = (IF part = 1 THEN Chars ELSE 0)
    BY <1>4 DEF NextPart
  <2>2. part' \in 1..3 /\ blocks' \in Nat /\ (part = 1 => part' = 2)
    BY <1>4 DEF NextPart, TreesInv, PartTypes
  <2>3. x' \in Nat /\ (x' < PartEnd' \/ x' <= PartEnd' - 1 + LongestRun)
    <3>1. CASE part = 1
      <4>1. x' = Chars /\ PartEnd' = MainSyms
        BY <2>1, <2>2, <3>1 DEF PartEnd, Tree, TreeSymbols
      <4>2. QED  BY <4>1, TreesAssumption DEF LongestRun
    <3>2. CASE part # 1
      <4>1. x' = 0 /\ PartEnd' \in Nat /\ PartEnd' > 0
        BY <2>1, <2>2, <3>2, TreesAssumption DEF PartEnd, Tree, TreeSymbols
      <4>2. QED  BY <4>1 DEF LongestRun
    <3>3. QED  BY <3>1, <3>2
  <2>4. PartTypes'
    BY <1>0, <2>1, <2>2, <2>3 DEF PartTypes
  <2>5. QED  BY <2>1, <2>4 DEF TreesInv, TwoTrees, ArrayTypes, EqualLengths
<1>5. CASE UNCHANGED treevars
  BY <1>5 DEF treevars, TreesInv, PartTypes, TwoTrees, ArrayTypes, EqualLengths, PartEnd, Tree
<1>6. QED
  <2>1. ASSUME NEW y \in {0, 15}, Zeros(y + 4) PROVE TreesInv'
    <3>1. y + 4 \in 1..LongestRun
      BY DEF LongestRun
    <3>2. QED  BY <1>2, <2>1, <3>1
  <2>2. ASSUME NEW y \in {0, 31}, Zeros(LongRun(y)) PROVE TreesInv'
    <3>1. LongRun(y) \in 1..LongestRun
      BY DEF LongestRun, LongRun
    <3>2. QED  BY <1>2, <2>2, <3>1
  <2>3. ASSUME NEW y \in {0, 1}, NEW z \in Seconds, SameRun(y + 4, z) PROVE TreesInv'
    <3>1. y + 4 \in 1..LongestRun
      BY DEF LongestRun
    <3>2. QED  BY <1>3, <2>3, <3>1
  <2>4. QED  BY <1>1, <1>4, <1>5, <2>1, <2>2, <2>3 DEF TreesNext

LEMMA TreesInitInv == TreesInit => TreesInv
<1> SUFFICES ASSUME TreesInit PROVE TreesInv
  OBVIOUS
<1>1. /\ part = 1 /\ x = 0 /\ blocks = 1 /\ wrapped = FALSE /\ spilled = FALSE
      /\ py = [main |-> NoLengths(MainSyms), length |-> NoLengths(LengthSyms)]
      /\ native = [main |-> NoLengths(ArraySize("main")), length |-> NoLengths(ArraySize("length"))]
  BY DEF TreesInit
<1>2. /\ DOMAIN py = Trees /\ DOMAIN native = Trees
      /\ py = [tree \in Trees |-> py[tree]] /\ native = [tree \in Trees |-> native[tree]]
  BY <1>1 DEF Trees
<1>3. \A tree \in Trees :
        /\ py[tree] = NoLengths(TreeSymbols(tree)) /\ native[tree] = NoLengths(ArraySize(tree))
  BY <1>1 DEF Trees, TreeSymbols
<1>4. ASSUME NEW tree \in Trees
      PROVE  /\ py[tree] \in [0..(TreeSymbols(tree) - 1) -> Int]
             /\ native[tree] \in [0..(ArraySize(tree) - 1) -> Nat]
             /\ \A i \in 0..(TreeSymbols(tree) - 1) : py[tree][i] = 0
             /\ \A i \in 0..(ArraySize(tree) - 1) : native[tree][i] = 0
             /\ \A i \in 0..(TreeSymbols(tree) - 1) : i \in 0..(ArraySize(tree) - 1)
             /\ \A i \in TreeSymbols(tree)..(MaxSymbols(tree) - 1) : i \in 0..(ArraySize(tree) - 1)
  <2>1. /\ \A i \in 0..(TreeSymbols(tree) - 1) : i \in 0..(ArraySize(tree) - 1)
        /\ \A i \in TreeSymbols(tree)..(MaxSymbols(tree) - 1) : i \in 0..(ArraySize(tree) - 1)
    BY TreeSizes
  <2>2. \A n \in Nat : /\ NoLengths(n) \in [0..(n - 1) -> Nat] /\ NoLengths(n) \in [0..(n - 1) -> Int]
                       /\ \A i \in 0..(n - 1) : NoLengths(n)[i] = 0
    BY DEF NoLengths
  <2>3. TreeSymbols(tree) \in Nat /\ ArraySize(tree) \in Nat
    BY TreeSizes
  <2>4. QED  BY <1>3, <2>1, <2>2, <2>3
<1>5. PartTypes /\ TwoTrees /\ ArrayTypes
  <2>1. PartTypes
    <3>1. part \in 1..3 /\ blocks \in Nat /\ x \in Nat /\ x < PartEnd
      BY <1>1, TreeSizes
    <3>2. wrapped \in BOOLEAN /\ spilled \in BOOLEAN
      BY <1>1
    <3>3. QED  BY ONLY <3>1, <3>2 DEF PartTypes
  <2>2. QED  BY <1>2, <1>4, <2>1 DEF TwoTrees, ArrayTypes
<1>6. EqualLengths
  BY <1>4 DEF EqualLengths, Trees
<1>7. QED  BY <1>5, <1>6 DEF TreesInv

(* Both decoders build their trees from the same lengths, whatever deltas  *)
(* and runs the blocks hold, and no run leaves C's arrays.                 *)
THEOREM TreesAreTheSame == TreesSpec => []SameTrees
<1>1. TreesInv => SameTrees
  <2>1. SUFFICES ASSUME TreesInv PROVE x <= ArraySize(Tree)
    BY DEF SameTrees, TreesInv, OverrunWithinSafety
  <2>2. x \in Nat /\ x <= PartEnd - 1 + LongestRun
    <3>1. PartEnd \in Nat /\ PartEnd > 0
      BY TreeSizes
    <3>2. x \in Nat /\ (x < PartEnd \/ x <= PartEnd - 1 + LongestRun)
      BY <2>1 DEF TreesInv, PartTypes
    <3>3. QED  BY ONLY <3>1, <3>2 DEF LongestRun
  <2>3. QED  BY <2>2, TreeSizes DEF LongestRun
<1>2. TreesInv /\ [TreesNext]_treevars => TreesInv'
  BY TreesStepInv
<1>3. QED  BY <1>1, <1>2, TreesInitInv, PTL DEF TreesSpec

-----------------------------------------------------------------------------
(***************************************************************************)
(* The recursive functions of module Huffman, as the equations they are    *)
(* defined by.                                                             *)
(***************************************************************************)
LEMMA HuffmanSizes ==
  /\ NumSyms \in Nat /\ NumSyms > 0 /\ MaxLen \in Nat /\ PrimaryBits \in Nat /\ PrimaryBits > 0
  /\ Most \in Nat /\ MaxLen <= Most /\ PrimaryBits <= Most
BY HuffmanAssumption DEF Most

IsOver(f, N) == f = [k \in 0..N |-> f[k]]

LEMMA SameTable ==
  ASSUME NEW N \in Nat, NEW f, NEW g, IsOver(f, N), IsOver(g, N),
         f[0] = g[0], \A k \in 1..N : f[k - 1] = g[k - 1] => f[k] = g[k]
  PROVE  f = g
<1> DEFINE P == {k \in 0..N : f[k] = g[k]}
<1>1. 0 \in P
  OBVIOUS
<1>2. \A k \in 1..N : k - 1 \in P => k \in P
  <2>1. SUFFICES ASSUME NEW k \in 1..N, k - 1 \in P PROVE k \in P
    OBVIOUS
  <2>2. k \in 0..N /\ f[k - 1] = g[k - 1]
    BY <2>1
  <2>3. QED  BY <2>2
<1>3. \A k \in 0..N : k \in P
  <2> HIDE DEF P
  <2>1. QED  BY <1>1, <1>2, BoundedInduction
<1>4. \A k \in 0..N : f[k] = g[k]
  BY <1>3
<1>5. QED  BY <1>4 DEF IsOver

LEMMA PowerFacts ==
  /\ Power(0) = 1
  /\ \A n \in 0..Most : Power(n) \in Nat /\ Power(n) >= 1
  /\ \A n \in 1..Most : Power(n) = 2 * Power(n - 1)
<1> DEFINE Pos == Nat \ {0}
           Eq(h) == h = [k \in 0..Most |-> IF k = 0 THEN 1 ELSE 2 * h[k - 1]]
<1>1. PICK step : step = [k \in 1..Most |-> [v \in Pos |-> 2 * v]]
  OBVIOUS
<1>2. Steps(step, Most, Pos)
  BY <1>1 DEF Steps
<1>3. PICK f : IsTable(f, Most, Pos, 1, step)
  BY <1>2, HuffmanSizes, IterationExists
<1>4. /\ f = [k \in 0..Most |-> f[k]] /\ \A k \in 0..Most : f[k] \in Pos
      /\ f[0] = 1
  BY <1>3 DEF IsTable
<1>5. ASSUME NEW k \in 1..Most PROVE f[k] = 2 * f[k - 1] /\ k \in 0..Most /\ k - 1 \in 0..Most
  <2>1. k \in 0..Most /\ k - 1 \in 0..Most
    BY HuffmanSizes
  <2>2. f[k] = step[k][f[k - 1]]
    BY <1>3 DEF IsTable
  <2>3. QED  BY <1>1, <1>4, <2>1, <2>2
<1>6. Eq(f)
  <2>1. ASSUME NEW k \in 0..Most PROVE f[k] = IF k = 0 THEN 1 ELSE 2 * f[k - 1]
    <3>1. k = 0 \/ k \in 1..Most
      BY HuffmanSizes
    <3>2. CASE k = 0
      BY <1>4, <3>2
    <3>3. CASE k \in 1..Most
      <4>1. k # 0
        BY <3>3
      <4>2. QED  BY <1>5, <3>3, <4>1
    <3>4. QED  BY <3>1, <3>2, <3>3
  <2>2. QED  BY <1>4, <2>1
<1>7. PICK g : g = CHOOSE h : Eq(h)
  OBVIOUS
<1>8. Eq(g)
  <2> HIDE DEF Eq
  <2>1. QED  BY <1>6, <1>7
<1>9. g = f
  <2>1. IsOver(f, Most) /\ IsOver(g, Most)
    BY <1>4, <1>8 DEF IsOver
  <2>2. 0 \in 0..Most
    BY HuffmanSizes
  <2>3. g[0] = f[0]
    BY <1>4, <1>8, <2>2
  <2>4. ASSUME NEW k \in 1..Most, f[k - 1] = g[k - 1] PROVE f[k] = g[k]
    <3>1. k # 0 /\ k \in 0..Most
      BY <1>5
    <3>2. QED  BY <1>5, <1>8, <2>4, <3>1
  <2>5. \A k \in 1..Most : f[k - 1] = g[k - 1] => f[k] = g[k]
    BY ONLY <2>4
  <2>6. f = g
    BY ONLY <2>1, <2>3, <2>5, HuffmanSizes, SameTable
  <2>7. QED  BY ONLY <2>6
<1>10. \A n : Power(n) = f[n]
  BY <1>7, <1>9 DEF Power
<1>11. Power(0) = 1
  BY <1>4, <1>10
<1>12. ASSUME NEW n \in 0..Most PROVE Power(n) \in Nat /\ Power(n) >= 1
  <2>1. f[n] \in Nat /\ f[n] # 0
    BY <1>4
  <2>2. PICK p \in Nat : p = f[n]
    BY <2>1
  <2>3. p >= 1
    BY <2>1, <2>2
  <2>4. Power(n) = p
    BY <1>10, <2>2
  <2>5. QED  BY <2>3, <2>4
<1>13. ASSUME NEW n \in 1..Most PROVE Power(n) = 2 * Power(n - 1)
  BY <1>5, <1>10
<1>14. QED  BY <1>11, <1>12, <1>13

(* The bits in front, as a number.                                         *)
LEMMA PeekFacts ==
  ASSUME input \in Seq({0, 1})
  PROVE  /\ Peek(0) = 0
         /\ \A n \in 0..Most : Peek(n) \in Nat
         /\ \A n \in 1..Most : Peek(n) = 2 * Peek(n - 1) + Bit(n) /\ Bit(n) \in {0, 1}
<1> DEFINE Eq(h) == h = [k \in 0..Most |-> IF k = 0 THEN 0 ELSE 2 * h[k - 1] + Bit(k)]
<1>0. ASSUME NEW n \in 1..Most PROVE Bit(n) \in {0, 1}
  BY HuffmanSizes DEF Bit
<1>1. PICK step : step = [k \in 1..Most |-> [v \in Nat |-> 2 * v + Bit(k)]]
  OBVIOUS
<1>2. Steps(step, Most, Nat)
  <2>1. ASSUME NEW k \in 1..Most, NEW v \in Nat PROVE step[k][v] \in Nat
    <3>1. Bit(k) \in Nat
      BY <1>0
    <3>2. 2 * v + Bit(k) \in Nat
      BY <3>1
    <3>3. step[k][v] = 2 * v + Bit(k)
      BY <1>1
    <3>4. QED  BY <3>2, <3>3
  <2>2. QED  BY <2>1 DEF Steps
<1>3. PICK f : IsTable(f, Most, Nat, 0, step)
  BY <1>2, HuffmanSizes, IterationExists
<1>4. /\ f = [k \in 0..Most |-> f[k]] /\ \A k \in 0..Most : f[k] \in Nat
      /\ f[0] = 0
  BY <1>3 DEF IsTable
<1>5. ASSUME NEW k \in 1..Most
      PROVE  f[k] = 2 * f[k - 1] + Bit(k) /\ k \in 0..Most /\ k - 1 \in 0..Most
  <2>1. k \in 0..Most /\ k - 1 \in 0..Most
    BY HuffmanSizes
  <2>2. f[k] = step[k][f[k - 1]]
    BY <1>3 DEF IsTable
  <2>3. QED  BY <1>1, <1>4, <2>1, <2>2
<1>6. Eq(f)
  <2>1. ASSUME NEW k \in 0..Most PROVE f[k] = IF k = 0 THEN 0 ELSE 2 * f[k - 1] + Bit(k)
    <3>1. k = 0 \/ k \in 1..Most
      BY HuffmanSizes
    <3>2. CASE k = 0
      BY <1>4, <3>2
    <3>3. CASE k \in 1..Most
      <4>1. k # 0
        BY <3>3
      <4>2. QED  BY <1>5, <3>3, <4>1
    <3>4. QED  BY <3>1, <3>2, <3>3
  <2>2. QED  BY <1>4, <2>1
<1>7. PICK g : g = CHOOSE h : Eq(h)
  OBVIOUS
<1>8. Eq(g)
  <2> HIDE DEF Eq
  <2>1. QED  BY <1>6, <1>7
<1>9. g = f
  <2>1. IsOver(f, Most) /\ IsOver(g, Most)
    BY <1>4, <1>8 DEF IsOver
  <2>2. 0 \in 0..Most
    BY HuffmanSizes
  <2>3. g[0] = f[0]
    BY <1>4, <1>8, <2>2
  <2>4. ASSUME NEW k \in 1..Most, f[k - 1] = g[k - 1] PROVE f[k] = g[k]
    <3>1. k # 0 /\ k \in 0..Most
      BY <1>5
    <3>2. QED  BY <1>5, <1>8, <2>4, <3>1
  <2>5. \A k \in 1..Most : f[k - 1] = g[k - 1] => f[k] = g[k]
    BY ONLY <2>4
  <2>6. f = g
    BY ONLY <2>1, <2>3, <2>5, HuffmanSizes, SameTable
  <2>7. QED  BY ONLY <2>6
<1>10. \A n : Peek(n) = f[n]
  BY <1>7, <1>9 DEF Peek
<1>11. QED  BY <1>0, <1>4, <1>5, <1>10

(* OfLength and the sets of symbols that are counted.                      *)
LEMMA SymsFinite ==
  ASSUME NEW S \in SUBSET Syms
  PROVE  IsFiniteSet(S) /\ Cardinality(S) \in Nat
<1>1. IsFiniteSet(Syms)
  BY HuffmanSizes, FS_Interval DEF Syms
<1>2. IsFiniteSet(S)
  BY <1>1, FS_Subset
<1>3. QED  BY <1>2, FS_CardinalityType

LEMMA FirstCodeFacts ==
  /\ FirstCode(0) = 0
  /\ \A n \in 0..Most : FirstCode(n) \in Nat
  /\ \A n \in 1..Most :
       /\ FirstCode(n) = 2 * (FirstCode(n - 1) + Cardinality(OfLength(n - 1)))
       /\ Cardinality(OfLength(n - 1)) \in Nat
<1> DEFINE Eq(h) == h = [k \in 0..Most |-> IF k = 0 THEN 0
                           ELSE 2 * (h[k - 1] + Cardinality(OfLength(k - 1)))]
<1>0. ASSUME NEW n PROVE Cardinality(OfLength(n)) \in Nat
  BY SymsFinite DEF OfLength
<1>1. PICK step : step = [k \in 1..Most |->
                            [v \in Nat |-> 2 * (v + Cardinality(OfLength(k - 1)))]]
  OBVIOUS
<1>2. Steps(step, Most, Nat)
  <2>1. ASSUME NEW k \in 1..Most, NEW v \in Nat PROVE step[k][v] \in Nat
    <3>1. Cardinality(OfLength(k - 1)) \in Nat
      BY <1>0
    <3>2. 2 * (v + Cardinality(OfLength(k - 1))) \in Nat
      BY <3>1
    <3>3. step[k][v] = 2 * (v + Cardinality(OfLength(k - 1)))
      BY <1>1
    <3>4. QED  BY <3>2, <3>3
  <2>2. QED  BY <2>1 DEF Steps
<1>3. PICK f : IsTable(f, Most, Nat, 0, step)
  BY <1>2, HuffmanSizes, IterationExists
<1>4. /\ f = [k \in 0..Most |-> f[k]] /\ \A k \in 0..Most : f[k] \in Nat
      /\ f[0] = 0
  BY <1>3 DEF IsTable
<1>5. ASSUME NEW k \in 1..Most
      PROVE  /\ f[k] = 2 * (f[k - 1] + Cardinality(OfLength(k - 1)))
             /\ k \in 0..Most /\ k - 1 \in 0..Most
  <2>1. k \in 0..Most /\ k - 1 \in 0..Most
    BY HuffmanSizes
  <2>2. f[k] = step[k][f[k - 1]]
    BY <1>3 DEF IsTable
  <2>3. QED  BY <1>1, <1>4, <2>1, <2>2
<1>6. Eq(f)
  <2>1. ASSUME NEW k \in 0..Most
        PROVE  f[k] = IF k = 0 THEN 0 ELSE 2 * (f[k - 1] + Cardinality(OfLength(k - 1)))
    <3>1. k = 0 \/ k \in 1..Most
      BY HuffmanSizes
    <3>2. CASE k = 0
      BY <1>4, <3>2
    <3>3. CASE k \in 1..Most
      <4>1. k # 0
        BY <3>3
      <4>2. QED  BY <1>5, <3>3, <4>1
    <3>4. QED  BY <3>1, <3>2, <3>3
  <2>2. QED  BY <1>4, <2>1
<1>7. PICK g : g = CHOOSE h : Eq(h)
  OBVIOUS
<1>8. Eq(g)
  <2> HIDE DEF Eq
  <2>1. QED  BY <1>6, <1>7
<1>9. g = f
  <2>1. IsOver(f, Most) /\ IsOver(g, Most)
    BY <1>4, <1>8 DEF IsOver
  <2>2. 0 \in 0..Most
    BY HuffmanSizes
  <2>3. g[0] = f[0]
    BY <1>4, <1>8, <2>2
  <2>4. ASSUME NEW k \in 1..Most, f[k - 1] = g[k - 1] PROVE f[k] = g[k]
    <3>1. k # 0 /\ k \in 0..Most
      BY <1>5
    <3>2. QED  BY <1>5, <1>8, <2>4, <3>1
  <2>5. \A k \in 1..Most : f[k - 1] = g[k - 1] => f[k] = g[k]
    BY ONLY <2>4
  <2>6. f = g
    BY ONLY <2>1, <2>3, <2>5, HuffmanSizes, SameTable
  <2>7. QED  BY ONLY <2>6
<1>10. \A n : FirstCode(n) = f[n]
  BY <1>7, <1>9 DEF FirstCode
<1>11. QED  BY <1>0, <1>4, <1>5, <1>10

(* A sum over the symbols, and how far it has come.                        *)
Sums(f, sum) ==
  /\ sum \in [0..NumSyms -> Nat] /\ sum[0] = 0
  /\ \A n \in 1..NumSyms : sum[n] = sum[n - 1] + f[n - 1]

LEMMA SumFacts ==
  ASSUME NEW f \in [Syms -> Nat]
  PROVE  \E sum : Sums(f, sum) /\ Sum(f) = sum[NumSyms]
<1> DEFINE Eq(h) == h = [k \in 0..NumSyms |-> IF k = 0 THEN 0 ELSE h[k - 1] + f[k - 1]]
<1>1. PICK step : step = [k \in 1..NumSyms |-> [v \in Nat |-> v + f[k - 1]]]
  OBVIOUS
<1>2. Steps(step, NumSyms, Nat)
  <2>1. ASSUME NEW k \in 1..NumSyms, NEW v \in Nat PROVE step[k][v] \in Nat
    <3>1. k - 1 \in Syms
      BY HuffmanSizes DEF Syms
    <3>2. f[k - 1] \in Nat
      BY <3>1
    <3>3. QED  BY <1>1, <3>2
  <2>2. QED  BY <2>1 DEF Steps
<1>3. PICK s : IsTable(s, NumSyms, Nat, 0, step)
  BY <1>2, HuffmanSizes, IterationExists
<1>4. /\ s = [k \in 0..NumSyms |-> s[k]] /\ \A k \in 0..NumSyms : s[k] \in Nat
      /\ s[0] = 0 /\ s \in [0..NumSyms -> Nat]
  BY <1>3 DEF IsTable
<1>5. ASSUME NEW k \in 1..NumSyms
      PROVE  s[k] = s[k - 1] + f[k - 1] /\ k \in 0..NumSyms /\ k - 1 \in 0..NumSyms
  <2>1. k \in 0..NumSyms /\ k - 1 \in 0..NumSyms
    BY HuffmanSizes
  <2>2. s[k] = step[k][s[k - 1]]
    BY <1>3 DEF IsTable
  <2>3. QED  BY <1>1, <1>4, <2>1, <2>2
<1>6. Eq(s)
  <2>1. ASSUME NEW k \in 0..NumSyms PROVE s[k] = IF k = 0 THEN 0 ELSE s[k - 1] + f[k - 1]
    <3>1. k = 0 \/ k \in 1..NumSyms
      BY HuffmanSizes
    <3>2. CASE k = 0
      BY <1>4, <3>2
    <3>3. CASE k \in 1..NumSyms
      <4>1. k # 0
        BY <3>3
      <4>2. QED  BY <1>5, <3>3, <4>1
    <3>4. QED  BY <3>1, <3>2, <3>3
  <2>2. QED  BY <1>4, <2>1
<1>7. PICK g : g = CHOOSE h : Eq(h)
  OBVIOUS
<1>8. Eq(g)
  <2> HIDE DEF Eq
  <2>1. QED  BY <1>6, <1>7
<1>9. g = s
  <2>1. IsOver(s, NumSyms) /\ IsOver(g, NumSyms)
    BY <1>4, <1>8 DEF IsOver
  <2>2. 0 \in 0..NumSyms
    BY HuffmanSizes
  <2>3. g[0] = s[0]
    BY <1>4, <1>8, <2>2
  <2>4. ASSUME NEW k \in 1..NumSyms, s[k - 1] = g[k - 1] PROVE s[k] = g[k]
    <3>1. k # 0 /\ k \in 0..NumSyms
      BY <1>5
    <3>2. QED  BY <1>5, <1>8, <2>4, <3>1
  <2>5. \A k \in 1..NumSyms : s[k - 1] = g[k - 1] => s[k] = g[k]
    BY ONLY <2>4
  <2>6. s = g
    BY ONLY <2>1, <2>3, <2>5, HuffmanSizes, SameTable
  <2>7. QED  BY ONLY <2>6
<1>10. Sum(f) = s[NumSyms]
  BY <1>7, <1>9 DEF Sum
<1>11. QED  BY <1>4, <1>5, <1>10 DEF Sums

-----------------------------------------------------------------------------
(***************************************************************************)
(* The symbols of one length.                                              *)
(***************************************************************************)
LensOK == lens \in [Syms -> 0..MaxLen]

(* MaxLength is the longest of the lengths.                                *)
LEMMA LongestLength ==
  ASSUME LensOK
  PROVE  /\ MaxLength \in 0..MaxLen
         /\ \A s \in Syms : lens[s] \in 0..MaxLength
<1> DEFINE Has(n, s) == s \in Syms /\ lens[s] <= n
           Longest(n, s) == \A t \in Syms : lens[t] <= n => lens[t] <= lens[s]
           P == {n \in 0..MaxLen :
                   (\E s : Has(n, s)) => \E s : Has(n, s) /\ Longest(n, s)}
<1>0. \A s \in Syms : lens[s] \in Nat /\ lens[s] <= MaxLen /\ lens[s] \in 0..MaxLen
  BY HuffmanSizes DEF LensOK
<1>1. 0 \in P
  <2>1. ASSUME NEW s, Has(0, s) PROVE Longest(0, s)
    BY <1>0, <2>1
  <2>2. 0 \in 0..MaxLen
    BY HuffmanSizes
  <2>3. (\E s : Has(0, s)) => \E s : Has(0, s) /\ Longest(0, s)
    <3> HIDE DEF Has, Longest
    <3>1. QED  BY <2>1
  <2>4. QED  BY <2>2, <2>3
<1>2. ASSUME NEW n \in 1..MaxLen, n - 1 \in P PROVE n \in P
  <2>1. n \in 0..MaxLen /\ n \in Nat /\ n - 1 \in Nat
    BY HuffmanSizes
  <2>2. SUFFICES ASSUME NEW s, Has(n, s) PROVE \E w : Has(n, w) /\ Longest(n, w)
    BY <2>1
  <2>3. CASE \E t \in Syms : lens[t] = n
    <3>1. PICK t \in Syms : lens[t] = n
      BY <2>3
    <3>2. Has(n, t) /\ Longest(n, t)
      BY <2>1, <3>1
    <3>3. QED  BY <3>2
  <2>4. CASE ~ \E t \in Syms : lens[t] = n
    <3>1. \A t \in Syms : lens[t] <= n => lens[t] <= n - 1
      BY <1>0, <2>1, <2>4
    <3>2. Has(n - 1, s)
      BY <2>2, <3>1
    <3>3. PICK w : Has(n - 1, w) /\ Longest(n - 1, w)
      BY <1>2, <3>2
    <3>4. Has(n, w)
      BY <1>0, <2>1, <3>3
    <3>5. Longest(n, w)
      BY <3>1, <3>3
    <3>6. QED  BY <3>4, <3>5
  <2>5. QED  BY <2>3, <2>4
<1>3. MaxLen \in P
  <2>1. \A n \in 1..MaxLen : n - 1 \in P => n \in P
    BY ONLY <1>2
  <2> HIDE DEF P
  <2>2. \A n \in 0..MaxLen : n \in P
    BY <1>1, <2>1, HuffmanSizes, BoundedInduction
  <2>3. QED  BY <2>2, HuffmanSizes
<1>4. 0 \in Syms
  BY HuffmanSizes DEF Syms
<1>5. PICK w : Has(MaxLen, w) /\ Longest(MaxLen, w)
  BY <1>0, <1>3, <1>4
<1>6. w \in Syms /\ \A t \in Syms : lens[t] <= lens[w]
  BY <1>0, <1>5
<1>7. PICK S : S = {lens[s] : s \in Syms}
  OBVIOUS
<1>8. lens[w] \in S /\ \A v \in S : lens[w] >= v
  BY <1>0, <1>6, <1>7
<1>9. PICK m : m \in S /\ (\A v \in S : m >= v) /\ m = Max(S)
  BY <1>8 DEF Max
<1>10. m = MaxLength
  BY <1>7, <1>9 DEF MaxLength
<1>11. m \in 0..MaxLen
  BY <1>0, <1>7, <1>9
<1>12. \A s \in Syms : lens[s] <= m
  BY <1>0, <1>7, <1>9
<1>13. QED  BY <1>0, <1>10, <1>11, <1>12

-----------------------------------------------------------------------------
(* How many of the symbols in S come before n.                             *)
Prefix(S, n) == {t \in S : t < n}

LEMMA PrefixGrows ==
  ASSUME NEW S \in SUBSET Syms, NEW n \in Nat
  PROVE  /\ Cardinality(Prefix(S, n)) \in Nat
         /\ n \in S => Cardinality(Prefix(S, n + 1)) = Cardinality(Prefix(S, n)) + 1
         /\ n \notin S => Cardinality(Prefix(S, n + 1)) = Cardinality(Prefix(S, n))
<1>0. \A t \in S : t \in Nat
  BY HuffmanSizes DEF Syms
<1>1. IsFiniteSet(Prefix(S, n)) /\ Cardinality(Prefix(S, n)) \in Nat
  <2>1. Prefix(S, n) \in SUBSET Syms
    BY DEF Prefix
  <2>2. QED  BY <2>1, SymsFinite
<1>2. ASSUME n \in S PROVE Cardinality(Prefix(S, n + 1)) = Cardinality(Prefix(S, n)) + 1
  <2>1. \A t \in S : t < n + 1 <=> t < n \/ t = n
    BY <1>0
  <2>2. Prefix(S, n + 1) = Prefix(S, n) \cup {n}
    BY <1>2, <2>1 DEF Prefix
  <2>3. n \notin Prefix(S, n)
    BY DEF Prefix
  <2>4. QED  BY <1>1, <2>2, <2>3, FS_AddElement
<1>3. ASSUME n \notin S PROVE Cardinality(Prefix(S, n + 1)) = Cardinality(Prefix(S, n))
  <2>1. Prefix(S, n + 1) = Prefix(S, n)
    BY <1>0, <1>3 DEF Prefix
  <2>2. QED  BY <2>1
<1>4. QED  BY <1>1, <1>2, <1>3

LEMMA PrefixEnds ==
  ASSUME NEW S \in SUBSET Syms
  PROVE  /\ Prefix(S, 0) = {} /\ Cardinality(Prefix(S, 0)) = 0
         /\ Prefix(S, NumSyms) = S
<1>1. \A t \in S : t \in Nat /\ t < NumSyms /\ ~ (t < 0)
  BY HuffmanSizes DEF Syms
<1>2. Prefix(S, 0) = {} /\ Prefix(S, NumSyms) = S
  BY <1>1 DEF Prefix
<1>3. QED  BY <1>2, FS_EmptySet

(* Every rank below the number of symbols is the rank of one.              *)
LEMMA RankExists ==
  ASSUME NEW S \in SUBSET Syms, NEW k \in Nat, k < Cardinality(S)
  PROVE  \E s \in S : Cardinality(Prefix(S, s)) = k
<1> DEFINE Count(n) == Cardinality(Prefix(S, n))
           Ranked == \E s \in S : Count(s) = k
           P == {n \in 0..NumSyms : k < Count(n) => Ranked}
<1>0. \A n \in Nat : Count(n) \in Nat
  BY PrefixGrows
<1>1. 0 \in P
  BY PrefixEnds, HuffmanSizes
<1>2. ASSUME NEW n \in 1..NumSyms, n - 1 \in P PROVE n \in P
  <2>1. PICK j \in Nat : n = j + 1 /\ j = n - 1 /\ n \in 0..NumSyms
    BY HuffmanSizes
  <2>2. SUFFICES ASSUME k < Count(n) PROVE Ranked
    BY <2>1
  <2>3. CASE k < Count(j)
    BY <1>2, <2>1, <2>3
  <2>4. CASE ~ (k < Count(j))
    <3>1. Count(n) = Count(j) + 1 /\ j \in S
      <4>1. Count(n) # Count(j)
        BY <2>2, <2>4
      <4>2. QED  BY <2>1, <4>1, PrefixGrows
    <3>2. Count(j) = k
      <4> HIDE DEF Count
      <4>1. QED  BY <1>0, <2>1, <2>2, <2>4, <3>1
    <3>3. QED  BY <3>1, <3>2
  <2>5. QED  BY <2>3, <2>4
<1>3. NumSyms \in P
  <2>1. \A n \in 1..NumSyms : n - 1 \in P => n \in P
    BY ONLY <1>2
  <2> HIDE DEF P
  <2>2. \A n \in 0..NumSyms : n \in P
    BY <1>1, <2>1, HuffmanSizes, BoundedInduction
  <2>3. QED  BY <2>2, HuffmanSizes
<1>4. Ranked
  BY <1>3, PrefixEnds
<1>5. QED  BY <1>4

(* No two symbols have one rank, and a rank is below the number of symbols. *)
LEMMA RankUnique ==
  ASSUME NEW S \in SUBSET Syms, NEW s \in S
  PROVE  /\ Cardinality(Prefix(S, s)) \in Nat
         /\ Cardinality(Prefix(S, s)) < Cardinality(S)
         /\ \A t \in S : Cardinality(Prefix(S, t)) = Cardinality(Prefix(S, s)) => t = s
<1>0. \A t \in S : t \in Nat
  BY HuffmanSizes DEF Syms
<1>1. ASSUME NEW t \in S, NEW u \in S, t < u
      PROVE  Cardinality(Prefix(S, t)) < Cardinality(Prefix(S, u))
  <2>1. Cardinality(Prefix(S, t + 1)) = Cardinality(Prefix(S, t)) + 1
    BY <1>0, PrefixGrows
  <2>2. Prefix(S, t + 1) \in SUBSET Prefix(S, u) /\ Prefix(S, u) \in SUBSET Syms
    BY <1>0, <1>1 DEF Prefix
  <2>3. Cardinality(Prefix(S, t + 1)) <= Cardinality(Prefix(S, u))
    BY <2>2, SymsFinite, FS_Subset
  <2>4. Cardinality(Prefix(S, u)) \in Nat /\ Cardinality(Prefix(S, t)) \in Nat
    BY <1>0, PrefixGrows
  <2>5. QED  BY <2>1, <2>3, <2>4
<1>2. Cardinality(Prefix(S, s)) \in Nat
  BY <1>0, PrefixGrows
<1>3. Cardinality(Prefix(S, s)) < Cardinality(S)
  <2>1. Cardinality(Prefix(S, s + 1)) = Cardinality(Prefix(S, s)) + 1
    BY <1>0, PrefixGrows
  <2>2. Prefix(S, s + 1) \in SUBSET S
    BY DEF Prefix
  <2>3. Cardinality(Prefix(S, s + 1)) <= Cardinality(S) /\ Cardinality(S) \in Nat
    BY <2>2, SymsFinite, FS_Subset
  <2>4. QED  BY <1>2, <2>1, <2>3
<1>4. ASSUME NEW t \in S, Cardinality(Prefix(S, t)) = Cardinality(Prefix(S, s)) PROVE t = s
  <2>1. Cardinality(Prefix(S, t)) \in Nat
    BY <1>0, PrefixGrows
  <2>2. ~ (t < s) /\ ~ (s < t)
    BY <1>1, <1>2, <1>4, <2>1
  <2>3. QED  BY <1>0, <2>2
<1>5. QED  BY <1>2, <1>3, <1>4

-----------------------------------------------------------------------------
(* How many symbols have length n.                                         *)
Many(n) == Cardinality(OfLength(n))

LEMMA ManyFacts ==
  /\ \A n : OfLength(n) \in SUBSET Syms /\ Many(n) \in Nat
  /\ OfLength(0) = {} /\ Many(0) = 0
<1>1. \A n : OfLength(n) \in SUBSET Syms
  BY DEF OfLength
<1>2. ASSUME NEW n PROVE Many(n) \in Nat
  BY <1>1, SymsFinite DEF Many
<1>3. OfLength(0) = {}
  BY DEF OfLength
<1>4. QED  BY <1>1, <1>2, <1>3, FS_EmptySet DEF Many

(* The place of a symbol among those of its length.                        *)
LEMMA EarlierFacts ==
  ASSUME NEW s \in Used, LensOK
  PROVE  /\ Earlier(s) \in Nat /\ Earlier(s) < Many(lens[s])
         /\ \A t \in Used : lens[t] = lens[s] /\ Earlier(t) = Earlier(s) => t = s
<1>1. /\ \A t \in Used : t \in OfLength(lens[t])
      /\ \A t : Earlier(t) = Cardinality(Prefix(OfLength(lens[t]), t))
  BY DEF Used, OfLength, Earlier, Prefix
<1>2. PICK S : S = OfLength(lens[s]) /\ S \in SUBSET Syms
  BY ManyFacts
<1>3. /\ Cardinality(Prefix(S, s)) \in Nat /\ Cardinality(Prefix(S, s)) < Cardinality(S)
      /\ \A t \in S : Cardinality(Prefix(S, t)) = Cardinality(Prefix(S, s)) => t = s
  BY <1>1, <1>2, RankUnique
<1>4. Earlier(s) = Cardinality(Prefix(S, s)) /\ Many(lens[s]) = Cardinality(S)
  BY <1>1, <1>2 DEF Many
<1>5. ASSUME NEW t \in Used, lens[t] = lens[s], Earlier(t) = Earlier(s) PROVE t = s
  <2>1. t \in S /\ Earlier(t) = Cardinality(Prefix(S, t))
    BY <1>1, <1>2, <1>5
  <2>2. QED  BY <1>3, <1>4, <1>5, <2>1
<1>6. QED  BY <1>3, <1>4, <1>5

(* The index of the first symbol of a length grows with the length.        *)
LEMMA FirstIndexFacts ==
  ASSUME LensOK
  PROVE  /\ \A n \in Nat : FirstIndex(n) \in Nat
         /\ \A n \in Nat \ {0} : /\ FirstIndex(n + 1) = FirstIndex(n) + Many(n)
                                 /\ FirstIndex(n + 1) <= Cardinality(Used)
         /\ \A n \in Nat, m \in Nat : n <= m => FirstIndex(n) <= FirstIndex(m)
<1> DEFINE Upto(n) == {s \in Syms : lens[s] \in 1..(n - 1)}
<1>0. \A s \in Syms : lens[s] \in Nat
  BY HuffmanSizes DEF LensOK
<1>1. \A n : FirstIndex(n) = Cardinality(Upto(n)) /\ Upto(n) \in SUBSET Syms
  BY DEF FirstIndex
<1>2. \A n : IsFiniteSet(Upto(n)) /\ Cardinality(Upto(n)) \in Nat
  BY <1>1, SymsFinite
<1>3. ASSUME NEW n \in Nat \ {0}
      PROVE  /\ FirstIndex(n + 1) = FirstIndex(n) + Many(n)
             /\ FirstIndex(n + 1) <= Cardinality(Used)
  <2>1. PICK m \in Nat : m = n /\ m > 0 /\ m + 1 - 1 = m
    OBVIOUS
  <2>2. \A s \in Syms : lens[s] \in 1..(m + 1 - 1) <=> lens[s] \in 1..(m - 1) \/ lens[s] = m
    BY <1>0, <2>1
  <2>3. Upto(m + 1) = Upto(m) \cup OfLength(m)
    BY <2>1, <2>2 DEF OfLength
  <2>4. Upto(m) \cap OfLength(m) = {}
    <3>1. \A s \in Syms : lens[s] \in 1..(m - 1) => lens[s] # m
      BY <1>0, <2>1
    <3>2. QED  BY <3>1 DEF OfLength
  <2>5. IsFiniteSet(OfLength(m)) /\ OfLength(m) \in SUBSET Syms /\ Cardinality(OfLength(m)) \in Nat
    BY ManyFacts, SymsFinite
  <2>6. PICK A, B : A = Upto(m) /\ B = OfLength(m)
    OBVIOUS
  <2>7. Cardinality(A \cup B) = Cardinality(A) + Cardinality(B) - Cardinality(A \cap B)
    <3>1. IsFiniteSet(A) /\ IsFiniteSet(B)
      BY <1>2, <2>5, <2>6
    <3>2. QED  BY ONLY <3>1, FS_Union
  <2>8. Cardinality(A \cap B) = 0
    BY <2>4, <2>6, FS_EmptySet
  <2>9. Cardinality(A) \in Nat /\ Cardinality(B) \in Nat
    BY <1>2, <2>5, <2>6
  <2>10. Cardinality(A \cup B) = Cardinality(A) + Cardinality(B)
    BY ONLY <2>7, <2>8, <2>9
  <2>11. FirstIndex(m + 1) = FirstIndex(m) + Many(m)
    <3>1. FirstIndex(m + 1) = Cardinality(A \cup B)
      BY <1>1, <2>3, <2>6
    <3>2. FirstIndex(m) = Cardinality(A) /\ Many(m) = Cardinality(B)
      BY <1>1, <2>6 DEF Many
    <3>3. QED  BY <2>10, <3>1, <3>2
  <2>12. Cardinality(Upto(m + 1)) <= Cardinality(Used)
    <3>1. Upto(m + 1) \in SUBSET Used /\ Used \in SUBSET Syms
      BY <1>0, <2>1 DEF Used
    <3>2. QED  BY <3>1, SymsFinite, FS_Subset
  <2>13. QED  BY <1>1, <2>1, <2>11, <2>12
<1>4. ASSUME NEW n \in Nat, NEW m \in Nat, n <= m PROVE FirstIndex(n) <= FirstIndex(m)
  <2>1. Upto(n) \in SUBSET Upto(m)
    <3>1. \A v \in 1..(n - 1) : v \in 1..(m - 1)
      BY <1>4
    <3>2. QED  BY <3>1
  <2>2. Cardinality(Upto(n)) <= Cardinality(Upto(m))
    BY <1>2, <2>1, FS_Subset
  <2>3. QED  BY <1>1, <2>2
<1>5. QED  BY <1>1, <1>2, <1>3, <1>4

(* The symbol index answers the symbol of that length and place.           *)
LEMMA SortedFacts ==
  ASSUME LensOK, NEW n \in 1..MaxLen, NEW k \in Nat, k < Many(n)
  PROVE  LET s == Sorted[FirstIndex(n) + k + 1]
         IN s \in Used /\ lens[s] = n /\ Earlier(s) = k
<1>0. /\ n \in Nat /\ n > 0 /\ n + 1 \in Nat
      /\ \A s \in Syms : lens[s] \in Nat
  BY HuffmanSizes DEF LensOK
<1>1. /\ FirstIndex(n) \in Nat /\ FirstIndex(n + 1) = FirstIndex(n) + Many(n)
      /\ FirstIndex(n + 1) <= Cardinality(Used) /\ Many(n) \in Nat
      /\ Cardinality(Used) \in Nat
  <2>1. Used \in SUBSET Syms
    BY DEF Used
  <2>2. QED  BY <1>0, <2>1, FirstIndexFacts, ManyFacts, SymsFinite
<1>2. PICK i : i = FirstIndex(n) + k + 1
  OBVIOUS
<1>3. i \in 1..Cardinality(Used)
  BY <1>1, <1>2
<1>4. \E s \in Used : FirstIndex(lens[s]) + Earlier(s) + 1 = i
  <2>1. PICK s \in OfLength(n) : Cardinality(Prefix(OfLength(n), s)) = k
    BY ManyFacts, RankExists DEF Many
  <2>2. s \in Used /\ lens[s] = n
    BY <1>0, <2>1 DEF OfLength, Used
  <2>3. Earlier(s) = k
    BY <2>1, <2>2 DEF Earlier, Prefix
  <2>4. QED  BY <1>2, <2>2, <2>3
<1>5. PICK s : s = CHOOSE t \in Used : FirstIndex(lens[t]) + Earlier(t) + 1 = i
  OBVIOUS
<1>6. s \in Used /\ FirstIndex(lens[s]) + Earlier(s) + 1 = i
  BY <1>4, <1>5
<1>7. Sorted[i] = s
  BY <1>3, <1>5 DEF Sorted
<1>8. lens[s] \in Nat /\ lens[s] > 0 /\ lens[s] + 1 \in Nat
  BY <1>0, <1>6 DEF Used
<1>9. PICK m : m = lens[s]
  OBVIOUS
<1>10. /\ FirstIndex(m) \in Nat /\ FirstIndex(m + 1) = FirstIndex(m) + Many(m)
       /\ Earlier(s) \in Nat /\ Earlier(s) < Many(m) /\ Many(m) \in Nat
  BY <1>6, <1>8, <1>9, FirstIndexFacts, ManyFacts, EarlierFacts
<1>11. ~ (m < n)
  <2>1. SUFFICES ASSUME m < n PROVE FALSE
    OBVIOUS
  <2>2. m + 1 <= n
    BY <1>0, <1>8, <1>9, <2>1
  <2>3. FirstIndex(m + 1) <= FirstIndex(n)
    BY <1>0, <1>8, <1>9, <2>2, FirstIndexFacts
  <2>4. QED  BY <1>1, <1>2, <1>6, <1>9, <1>10, <2>3
<1>12. ~ (n < m)
  <2>1. SUFFICES ASSUME n < m PROVE FALSE
    OBVIOUS
  <2>2. n + 1 <= m
    BY <1>0, <1>8, <1>9, <2>1
  <2>3. FirstIndex(n + 1) <= FirstIndex(m)
    BY <1>0, <1>8, <1>9, <2>2, FirstIndexFacts
  <2>4. QED  BY <1>1, <1>2, <1>6, <1>9, <1>10, <2>3
<1>13. m = n
  BY <1>0, <1>8, <1>9, <1>11, <1>12
<1>14. Earlier(s) = k
  BY <1>1, <1>2, <1>6, <1>9, <1>10, <1>13
<1>15. QED  BY <1>2, <1>6, <1>7, <1>9, <1>13, <1>14

-----------------------------------------------------------------------------
(***************************************************************************)
(* The code next_code hands out is the code word.                          *)
(***************************************************************************)
(* Twice a sum, and one more for every symbol in S.                        *)
Doubles(f, g, S) == \A s \in Syms : f[s] = 2 * g[s] + (IF s \in S THEN 1 ELSE 0)

LEMMA DoubledSum ==
  ASSUME NEW f \in [Syms -> Nat], NEW g \in [Syms -> Nat], NEW S \in SUBSET Syms,
         Doubles(f, g, S)
  PROVE  Sum(f) = 2 * Sum(g) + Cardinality(S) /\ Sum(f) \in Nat /\ Sum(g) \in Nat
<1>1. PICK a : Sums(f, a) /\ Sum(f) = a[NumSyms]
  BY SumFacts
<1>2. PICK b : Sums(g, b) /\ Sum(g) = b[NumSyms]
  BY SumFacts
<1> DEFINE Count(n) == Cardinality(Prefix(S, n))
           P == {n \in 0..NumSyms : a[n] = 2 * b[n] + Count(n)}
<1>3. 0 \in P
  <2>1. a[0] = 0 /\ b[0] = 0 /\ 0 \in 0..NumSyms
    BY <1>1, <1>2, HuffmanSizes DEF Sums
  <2>2. Count(0) = 0
    BY PrefixEnds
  <2>3. a[0] = 2 * b[0] + Count(0)
    BY ONLY <2>1, <2>2
  <2>4. QED  BY <2>1, <2>3
<1>4. ASSUME NEW n \in 1..NumSyms, n - 1 \in P PROVE n \in P
  <2>1. PICK j \in Nat : j = n - 1 /\ n = j + 1 /\ n \in 0..NumSyms /\ j \in 0..NumSyms
                         /\ j \in Syms
    BY HuffmanSizes DEF Syms
  <2>2. a[n] = a[j] + f[j] /\ b[n] = b[j] + g[j]
    BY <1>1, <1>2, <2>1 DEF Sums
  <2>3. a[j] \in Nat /\ b[j] \in Nat /\ g[j] \in Nat /\ f[j] \in Nat
    BY <1>1, <1>2, <2>1 DEF Sums
  <2>4. a[j] = 2 * b[j] + Count(j)
    BY <1>4, <2>1
  <2>5. f[j] = 2 * g[j] + (IF j \in S THEN 1 ELSE 0) /\ Count(j) \in Nat
    BY <2>1, PrefixGrows DEF Doubles
  <2>6. Count(n) = Count(j) + (IF j \in S THEN 1 ELSE 0)
    BY <2>1, <2>5, PrefixGrows
  <2>7. a[n] = 2 * b[n] + Count(n)
    <3> HIDE DEF Count
    <3>1. CASE j \in S
      <4>1. f[j] = 2 * g[j] + 1 /\ Count(n) = Count(j) + 1
        BY <2>5, <2>6, <3>1
      <4>2. QED  BY ONLY <2>2, <2>3, <2>4, <2>5, <4>1
    <3>2. CASE j \notin S
      <4>1. f[j] = 2 * g[j] + 0 /\ Count(n) = Count(j) + 0
        BY <2>5, <2>6, <3>2
      <4>2. QED  BY ONLY <2>2, <2>3, <2>4, <2>5, <4>1
    <3>3. QED  BY <3>1, <3>2
  <2>8. QED  BY <2>1, <2>7
<1>5. NumSyms \in P
  <2>1. \A n \in 1..NumSyms : n - 1 \in P => n \in P
    BY ONLY <1>4
  <2> HIDE DEF P
  <2>2. \A n \in 0..NumSyms : n \in P
    BY <1>3, <2>1, HuffmanSizes, BoundedInduction
  <2>3. QED  BY <2>2, HuffmanSizes
<1>6. a[NumSyms] \in Nat /\ b[NumSyms] \in Nat
  BY <1>1, <1>2, HuffmanSizes DEF Sums
<1>7. QED  BY <1>1, <1>2, <1>5, <1>6, PrefixEnds

(* The space up to the codes of length n, in units of 2^-n.                *)
Taken(n) == [t \in Syms |-> IF lens[t] > 0 /\ lens[t] <= n THEN Power(n - lens[t]) ELSE 0]

LEMMA TakenType ==
  ASSUME LensOK, NEW n \in 0..Most
  PROVE  Taken(n) \in [Syms -> Nat]
<1>1. ASSUME NEW t \in Syms, lens[t] > 0, lens[t] <= n PROVE Power(n - lens[t]) \in Nat
  <2>1. lens[t] \in Nat /\ n \in Nat /\ n <= Most
    BY HuffmanSizes DEF LensOK
  <2>2. n - lens[t] \in 0..Most
    BY <1>1, <2>1, HuffmanSizes
  <2>3. QED  BY <2>2, PowerFacts
<1>2. QED  BY <1>1 DEF Taken

(* One more bit: twice the space, and the symbols in S.                    *)
LEMMA TakenGrows ==
  ASSUME LensOK, NEW n \in 1..Most, NEW f, NEW S \in SUBSET OfLength(n),
         f = [t \in Syms |-> IF lens[t] > 0 /\ lens[t] < n THEN Power(n - lens[t])
                             ELSE IF t \in S THEN 1 ELSE 0]
  PROVE  Sum(f) = 2 * Sum(Taken(n - 1)) + Cardinality(S)
<1>1. n - 1 \in 0..Most /\ n \in Nat
  BY HuffmanSizes
<1>2. PICK g : g = Taken(n - 1) /\ g \in [Syms -> Nat]
  BY <1>1, TakenType
<1>3. ASSUME NEW s \in Syms PROVE f[s] \in Nat /\ f[s] = 2 * g[s] + (IF s \in S THEN 1 ELSE 0)
  <2>1. lens[s] \in Nat /\ (s \in S => lens[s] = n)
    BY HuffmanSizes DEF LensOK, OfLength
  <2>2. g[s] = IF lens[s] > 0 /\ lens[s] <= n - 1 THEN Power((n - 1) - lens[s]) ELSE 0
    BY <1>2 DEF Taken
  <2>3. f[s] = IF lens[s] > 0 /\ lens[s] < n THEN Power(n - lens[s])
               ELSE IF s \in S THEN 1 ELSE 0
    OBVIOUS
  <2>4. g[s] \in Nat
    BY <1>2
  <2>5. CASE lens[s] > 0 /\ lens[s] < n
    <3>1. lens[s] <= n - 1 /\ s \notin S
      BY <1>1, <2>1, <2>5
    <3>2. PICK m : m = n - lens[s]
      OBVIOUS
    <3>3. m \in 1..Most /\ m - 1 = (n - 1) - lens[s]
      BY <1>1, <2>1, <2>5, <3>2, HuffmanSizes
    <3>4. Power(m) = 2 * Power(m - 1)
      BY <3>3, PowerFacts
    <3>5. f[s] = Power(m) /\ g[s] = Power(m - 1)
      BY <2>2, <2>3, <2>5, <3>1, <3>2, <3>3
    <3>6. f[s] = 2 * g[s]
      BY <3>4, <3>5
    <3>7. QED  BY <2>4, <3>1, <3>6
  <2>6. CASE ~ (lens[s] > 0 /\ lens[s] < n)
    <3>1. ~ (lens[s] > 0 /\ lens[s] <= n - 1)
      BY <1>1, <2>1, <2>6
    <3>2. g[s] = 0 /\ f[s] = IF s \in S THEN 1 ELSE 0
      BY <2>2, <2>3, <2>6, <3>1
    <3>3. QED  BY <3>2
  <2>7. QED  BY <2>5, <2>6
<1>4. f \in [Syms -> Nat] /\ S \in SUBSET Syms
  BY <1>3, ManyFacts
<1>5. Sum(f) = 2 * Sum(g) + Cardinality(S)
  <2>1. Doubles(f, g, S)
    BY <1>3 DEF Doubles
  <2>2. QED  BY ONLY <1>2, <1>4, <2>1, DoubledSum
<1>6. QED  BY <1>2, <1>5

(* The next free code of a length is the space taken so far.               *)
LEMMA TakenIsFirstCode ==
  ASSUME LensOK
  PROVE  \A n \in 0..Most : Sum(Taken(n)) = FirstCode(n) + Many(n)
<1> DEFINE P == {n \in 0..Most : Sum(Taken(n)) = FirstCode(n) + Many(n)}
<1>1. 0 \in P
  <2>1. 0 \in 0..Most
    BY HuffmanSizes
  <2>2. PICK f : f = Taken(0) /\ f \in [Syms -> Nat]
    BY <2>1, TakenType
  <2>3. ASSUME NEW s \in Syms PROVE f[s] = 2 * f[s] + (IF s \in {} THEN 1 ELSE 0)
    <3>1. lens[s] \in Nat
      BY HuffmanSizes DEF LensOK
    <3>2. ~ (lens[s] > 0 /\ lens[s] <= 0)
      BY <3>1
    <3>3. f[s] = 0
      BY <2>2, <3>2 DEF Taken
    <3>4. QED  BY <3>3
  <2>4. Sum(f) = 2 * Sum(f) + Cardinality({}) /\ Sum(f) \in Nat
    <3>1. Doubles(f, f, {}) /\ {} \in SUBSET Syms
      BY <2>3 DEF Doubles
    <3>2. QED  BY ONLY <2>2, <3>1, DoubledSum
  <2>5. Sum(f) = 0
    <3>1. Cardinality({}) = 0
      BY FS_EmptySet
    <3>2. QED  BY ONLY <2>4, <3>1
  <2>6. QED  BY <2>1, <2>2, <2>5, FirstCodeFacts, ManyFacts
<1>2. ASSUME NEW n \in 1..Most, n - 1 \in P PROVE n \in P
  <2>1. n \in 0..Most /\ n \in Nat
    BY HuffmanSizes
  <2>2. PICK f : f = Taken(n)
    OBVIOUS
  <2>3. f = [t \in Syms |-> IF lens[t] > 0 /\ lens[t] < n THEN Power(n - lens[t])
                            ELSE IF t \in OfLength(n) THEN 1 ELSE 0]
    <3>1. ASSUME NEW t \in Syms
          PROVE  f[t] = IF lens[t] > 0 /\ lens[t] < n THEN Power(n - lens[t])
                        ELSE IF t \in OfLength(n) THEN 1 ELSE 0
      <4>1. lens[t] \in Nat /\ f[t] = IF lens[t] > 0 /\ lens[t] <= n THEN Power(n - lens[t]) ELSE 0
        BY <2>2, HuffmanSizes DEF LensOK, Taken
      <4>2. t \in OfLength(n) <=> lens[t] = n
        BY <2>1 DEF OfLength
      <4>3. CASE lens[t] = n
        <5>1. lens[t] > 0 /\ lens[t] <= n /\ ~ (lens[t] < n) /\ n - lens[t] = 0
          BY <2>1, <4>3
        <5>2. Power(n - lens[t]) = 1
          BY <5>1, PowerFacts
        <5>3. QED  BY <4>1, <4>2, <4>3, <5>1, <5>2
      <4>4. CASE lens[t] # n
        <5>1. lens[t] <= n <=> lens[t] < n
          BY <2>1, <4>1, <4>4
        <5>2. QED  BY <4>1, <4>2, <4>4, <5>1
      <4>5. QED  BY <4>3, <4>4
    <3>2. f = [t \in Syms |-> f[t]]
      BY <2>2 DEF Taken
    <3>3. QED  BY <3>1, <3>2
  <2>4. Sum(f) = 2 * Sum(Taken(n - 1)) + Many(n)
    BY <2>3, TakenGrows DEF Many
  <2>5. Sum(Taken(n - 1)) = FirstCode(n - 1) + Many(n - 1)
    BY <1>2
  <2>6. FirstCode(n) = 2 * (FirstCode(n - 1) + Many(n - 1))
    BY FirstCodeFacts DEF Many
  <2>7. Sum(f) = FirstCode(n) + Many(n)
    BY <2>4, <2>5, <2>6
  <2>8. QED  BY <2>1, <2>2, <2>7
<1>3. \A n \in 0..Most : n \in P
  <2>1. \A n \in 1..Most : n - 1 \in P => n \in P
    BY ONLY <1>2
  <2> HIDE DEF P
  <2>2. QED  BY <1>1, <2>1, HuffmanSizes, BoundedInduction
<1>4. QED  BY <1>3

(* The code of a symbol is its code word, and the codes fill the Kraft sum. *)
LEMMA CodesAreCodeWords ==
  ASSUME LensOK
  PROVE  /\ \A s \in Used : CodeWord(s) = Code(s)
         /\ Kraft = FirstCode(MaxLen) + Many(MaxLen)
<1>1. ASSUME NEW s \in Used PROVE CodeWord(s) = Code(s)
  <2>1. PICK n : n = lens[s]
    OBVIOUS
  <2>2. n \in 1..Most /\ n \in Nat /\ n > 0 /\ s \in Nat
    BY <2>1, HuffmanSizes DEF Used, LensOK, Syms
  <2>3. PICK S : S = {t \in OfLength(n) : t < s}
    OBVIOUS
  <2>4. PICK f : f = [t \in Syms |-> IF Before(t, s) THEN Power(lens[s] - lens[t]) ELSE 0]
    OBVIOUS
  <2>5. f = [t \in Syms |-> IF lens[t] > 0 /\ lens[t] < n THEN Power(n - lens[t])
                            ELSE IF t \in S THEN 1 ELSE 0]
    <3>1. ASSUME NEW t \in Syms
          PROVE  f[t] = IF lens[t] > 0 /\ lens[t] < n THEN Power(n - lens[t])
                        ELSE IF t \in S THEN 1 ELSE 0
      <4>1. f[t] = IF Before(t, s) THEN Power(n - lens[t]) ELSE 0
        BY <2>1, <2>4
      <4>2. Before(t, s) <=> lens[t] > 0 /\ (lens[t] < n \/ (lens[t] = n /\ t < s))
        BY <2>1 DEF Before
      <4>3. t \in S <=> lens[t] = n /\ t < s
        BY <2>2, <2>3 DEF OfLength
      <4>4. lens[t] \in Nat
        BY HuffmanSizes DEF LensOK
      <4>5. CASE lens[t] = n
        <5>1. lens[t] > 0 /\ ~ (lens[t] < n) /\ n - lens[t] = 0
          BY <2>2, <4>5
        <5>2. Power(n - lens[t]) = 1
          BY <5>1, PowerFacts
        <5>3. QED  BY <4>1, <4>2, <4>3, <4>5, <5>1, <5>2
      <4>6. CASE lens[t] # n
        BY <4>1, <4>2, <4>3, <4>6
      <4>7. QED  BY <4>5, <4>6
    <3>2. f = [t \in Syms |-> f[t]]
      BY <2>4
    <3>3. QED  BY <3>1, <3>2
  <2>6. S \in SUBSET OfLength(n) /\ Cardinality(S) = Earlier(s)
    BY <2>1, <2>3 DEF Earlier
  <2>7. Sum(f) = 2 * Sum(Taken(n - 1)) + Earlier(s)
    BY <2>2, <2>5, <2>6, TakenGrows
  <2>8. Sum(Taken(n - 1)) = FirstCode(n - 1) + Many(n - 1)
    <3>1. n - 1 \in 0..Most
      BY <2>2, HuffmanSizes
    <3>2. QED  BY <3>1, TakenIsFirstCode
  <2>9. FirstCode(n) = 2 * (FirstCode(n - 1) + Many(n - 1))
    BY <2>2, FirstCodeFacts DEF Many
  <2>10. Sum(f) = FirstCode(n) + Earlier(s)
    BY <2>7, <2>8, <2>9
  <2>11. CodeWord(s) = Sum(f)
    BY <2>4 DEF CodeWord
  <2>12. QED  BY <2>1, <2>10, <2>11 DEF Code
<1>2. Kraft = FirstCode(MaxLen) + Many(MaxLen)
  <2>1. \A t \in Syms : lens[t] <= MaxLen
    BY HuffmanSizes DEF LensOK
  <2>2. PICK f : f = [t \in Syms |-> IF lens[t] > 0 THEN Power(MaxLen - lens[t]) ELSE 0]
    OBVIOUS
  <2>3. f = Taken(MaxLen)
    BY <2>1, <2>2 DEF Taken
  <2>4. Kraft = Sum(f)
    BY <2>2 DEF Kraft
  <2>5. MaxLen \in 0..Most
    BY HuffmanSizes
  <2>6. QED  BY <2>3, <2>4, <2>5, TakenIsFirstCode
<1>3. QED  BY <1>1, <1>2

-----------------------------------------------------------------------------
(***************************************************************************)
(* The walk: it has missed every code of the lengths behind it, and stops  *)
(* at the first it meets.                                                  *)
(***************************************************************************)
InputOK == input \in Seq({0, 1})

(* w divided by r is c.                                                   *)
Quotient(w, r, c) == w \in (c * r)..(c * r + r - 1)

LEMMA Times ==
  ASSUME NEW a \in Nat, NEW r \in Nat
  PROVE  /\ a * r \in Nat /\ (a + 1) * r = a * r + r /\ a * (2 * r) = 2 * (a * r)
         /\ a * 1 = a /\ 0 * r = 0
OBVIOUS

LEMMA TimesMonotone ==
  ASSUME NEW a \in Nat, NEW b \in Nat, NEW r \in Nat, a <= b
  PROVE  a * r <= b * r
<1> DEFINE P == {n \in Nat : a * r <= (a + n) * r}
<1>1. 0 \in P
  <2>1. a * r \in Nat /\ a + 0 = a
    BY Times
  <2>2. QED  BY <2>1
<1>2. ASSUME NEW n \in P PROVE n + 1 \in P
  <2>1. n \in Nat /\ a + n \in Nat /\ a + (n + 1) = (a + n) + 1 /\ n + 1 \in Nat
    OBVIOUS
  <2>2. ((a + n) + 1) * r = (a + n) * r + r /\ (a + n) * r \in Nat /\ a * r \in Nat
    BY <2>1, Times
  <2>3. a * r <= (a + n) * r
    OBVIOUS
  <2>4. a * r <= ((a + n) + 1) * r
    BY ONLY <2>2, <2>3, r \in Nat
  <2>5. QED  BY <2>1, <2>4
<1>3. P = Nat
  <2>1. P \in SUBSET Nat
    OBVIOUS
  <2>2. \A n \in P : n + 1 \in P
    BY ONLY <1>2
  <2> HIDE DEF P
  <2>3. QED  BY <1>1, <2>1, <2>2, SetInduction
<1>4. b - a \in Nat /\ a + (b - a) = b
  OBVIOUS
<1>5. QED  BY <1>3, <1>4

LEMMA OneQuotient ==
  ASSUME NEW w \in Nat, NEW r \in Nat, NEW c \in Nat, NEW d \in Nat,
         Quotient(w, r, c), Quotient(w, r, d)
  PROVE  c = d
<1>1. ASSUME NEW a \in Nat, NEW b \in Nat, Quotient(w, r, a), Quotient(w, r, b), a < b
      PROVE  FALSE
  <2>1. a + 1 \in Nat /\ a + 1 <= b
    BY <1>1
  <2>2. (a + 1) * r <= b * r
    BY <2>1, TimesMonotone
  <2>3. a * r \in Nat /\ b * r \in Nat /\ (a + 1) * r = a * r + r
    BY Times
  <2>4. PICK p \in Nat, q \in Nat : p = a * r /\ q = b * r /\ p + r <= q
    BY <2>2, <2>3
  <2>5. w <= p + r - 1 /\ w >= q
    BY <1>1, <2>4 DEF Quotient
  <2>6. QED  BY <2>4, <2>5
<1>2. ~ (c < d) /\ ~ (d < c)
  BY <1>1
<1>3. QED  BY <1>2

-----------------------------------------------------------------------------
(* The bits read divided by those behind the first n: the first n.         *)
LEMMA PeekPrefix ==
  ASSUME InputOK, NEW n \in 0..Most, NEW m \in n..Most
  PROVE  /\ Quotient(Peek(m), Power(m - n), Peek(n))
         /\ \A c \in Nat : Quotient(Peek(m), Power(m - n), c) <=> Peek(n) = c
<1> DEFINE P == {k \in 0..(Most - n) : Quotient(Peek(n + k), Power(k), Peek(n))}
<1>0. n \in Nat /\ n <= Most /\ Most - n \in Nat /\ Peek(n) \in Nat /\ n + 0 = n
      /\ \A k \in 0..(Most - n) : k \in Nat /\ n + k \in 0..Most /\ k \in 0..Most
  BY HuffmanSizes, PeekFacts DEF InputOK
<1>1. 0 \in P
  <2>1. Peek(n) * 1 = Peek(n)
    BY <1>0, Times
  <2>2. Quotient(Peek(n), 1, Peek(n))
    BY <1>0, <2>1 DEF Quotient
  <2>3. QED  BY <1>0, <2>2, PowerFacts
<1>2. ASSUME NEW k \in 1..(Most - n), k - 1 \in P PROVE k \in P
  <2>1. PICK j \in Nat : j = k - 1 /\ k = j + 1 /\ j \in 0..(Most - n) /\ k \in 0..(Most - n)
                         /\ k \in 1..Most /\ (n + k) - 1 = n + j /\ n + k \in 1..Most
    BY <1>0
  <2>2. PICK p \in Nat, w \in Nat, y \in Nat, q \in Nat, b \in {0, 1} :
          /\ p = Power(j) /\ 2 * p = Power(k) /\ w = Peek(n + j)
          /\ y = Peek(n + k) /\ y = 2 * w + b /\ q = Peek(n) * p
    <3>1. Power(j) \in Nat /\ Peek(n + j) \in Nat /\ Peek(n + k) \in Nat
      BY <1>0, <2>1, PowerFacts, PeekFacts DEF InputOK
    <3>2. Power(k) = 2 * Power(j)
      BY <2>1, PowerFacts
    <3>3. Peek(n + k) = 2 * Peek(n + j) + Bit(n + k) /\ Bit(n + k) \in {0, 1}
      BY <2>1, PeekFacts DEF InputOK
    <3>4. Peek(n) * Power(j) \in Nat
      BY <1>0, <3>1, Times
    <3>5. QED  BY <3>1, <3>2, <3>3, <3>4
  <2>3. w \in q..(q + p - 1)
    <3>1. Quotient(w, p, Peek(n))
      BY <1>2, <2>1, <2>2
    <3>2. QED  BY <2>2, <3>1 DEF Quotient
  <2>4. Peek(n) * (2 * p) = 2 * q
    BY <1>0, <2>2, Times
  <2>5. y \in (2 * q)..(2 * q + 2 * p - 1)
    <3>1. b = 0 \/ b = 1
      BY <2>2
    <3>2. y = 2 * w + b
      BY <2>2
    <3>3. QED  BY ONLY <2>3, <3>1, <3>2, w \in Nat, y \in Nat, q \in Nat, p \in Nat
  <2>6. Quotient(y, 2 * p, Peek(n))
    BY <2>4, <2>5 DEF Quotient
  <2>7. QED  BY <2>1, <2>2, <2>6
<1>3. \A k \in 0..(Most - n) : k \in P
  <2>1. \A k \in 1..(Most - n) : k - 1 \in P => k \in P
    BY ONLY <1>2
  <2> HIDE DEF P
  <2>2. QED  BY <1>0, <1>1, <2>1, BoundedInduction
<1>4. PICK k : k = m - n /\ k \in 0..(Most - n) /\ n + k = m
  <2>1. m - n \in 0..(Most - n) /\ n + (m - n) = m
    BY HuffmanSizes
  <2>2. QED  BY <2>1
<1>5. Quotient(Peek(m), Power(m - n), Peek(n))
  BY <1>3, <1>4
<1>6. ASSUME NEW c \in Nat, Quotient(Peek(m), Power(m - n), c) PROVE Peek(n) = c
  <2>1. Peek(m) \in Nat /\ Power(m - n) \in Nat
    <3>1. m \in 0..Most /\ m - n \in 0..Most
      BY HuffmanSizes
    <3>2. QED  BY <3>1, PowerFacts, PeekFacts DEF InputOK
  <2>2. QED  BY <1>0, <1>5, <1>6, <2>1, OneQuotient
<1>7. QED  BY <1>5, <1>6

LEMMA PeekBelowPower ==
  ASSUME InputOK, NEW n \in 0..Most
  PROVE  Peek(n) \in Nat /\ Peek(n) < Power(n) /\ Power(n) \in Nat
<1>1. Peek(n) \in Nat /\ Power(n) \in Nat /\ Peek(0) = 0
  BY PowerFacts, PeekFacts DEF InputOK
<1>2. Quotient(Peek(n), Power(n), 0)
  <2>1. 0 \in 0..Most /\ n \in 0..Most /\ n - 0 = n
    BY HuffmanSizes
  <2>2. QED  BY <1>1, <2>1, PeekPrefix
<1>3. 0 * Power(n) = 0
  BY <1>1, Times
<1>4. QED  BY <1>1, <1>2, <1>3 DEF Quotient

-----------------------------------------------------------------------------
(* The first free code of a length: no code of it is as great.             *)
FirstFree(n) == FirstCode(n) + Many(n)

LEMMA FirstFreeFacts ==
  /\ FirstFree(0) = 0
  /\ \A n \in 0..Most : FirstCode(n) \in Nat /\ FirstFree(n) \in Nat
                        /\ FirstCode(n) <= FirstFree(n)
  /\ \A n \in 1..Most : FirstCode(n) = 2 * FirstFree(n - 1)
<1>1. \A n \in 0..Most : FirstCode(n) \in Nat /\ Many(n) \in Nat
  BY FirstCodeFacts, ManyFacts
<1>2. \A n \in 1..Most : FirstCode(n) = 2 * FirstFree(n - 1)
  BY FirstCodeFacts DEF FirstFree, Many
<1>3. FirstFree(0) = 0
  BY FirstCodeFacts, ManyFacts DEF FirstFree
<1>4. ASSUME NEW n \in 0..Most PROVE FirstFree(n) \in Nat /\ FirstCode(n) <= FirstFree(n)
  <2>1. FirstCode(n) \in Nat /\ Many(n) \in Nat
    BY <1>1
  <2>2. QED  BY <2>1 DEF FirstFree
<1>5. QED  BY <1>1, <1>2, <1>3, <1>4

LEMMA CodeFacts ==
  ASSUME LensOK, NEW s \in Used
  PROVE  /\ lens[s] \in 1..MaxLen /\ lens[s] \in 1..MaxLength /\ lens[s] \in 1..Most
         /\ s \in Syms
         /\ Code(s) \in Nat /\ FirstCode(lens[s]) <= Code(s) /\ Code(s) < FirstFree(lens[s])
         /\ \A t \in Used : lens[t] = lens[s] /\ Code(t) = Code(s) => t = s
<1>1. lens[s] \in 1..MaxLen /\ lens[s] \in 1..MaxLength /\ s \in Syms /\ lens[s] \in 1..Most
      /\ lens[s] \in 0..Most
  BY LongestLength, HuffmanSizes DEF Used
<1>2. Earlier(s) \in Nat /\ Earlier(s) < Many(lens[s]) /\ Many(lens[s]) \in Nat
  BY EarlierFacts, ManyFacts
<1>3. FirstCode(lens[s]) \in Nat
  BY <1>1, FirstFreeFacts
<1>4. Code(s) \in Nat /\ FirstCode(lens[s]) <= Code(s) /\ Code(s) < FirstFree(lens[s])
  BY <1>2, <1>3 DEF Code, FirstFree
<1>5. ASSUME NEW t \in Used, lens[t] = lens[s], Code(t) = Code(s) PROVE t = s
  <2>1. Earlier(t) \in Nat
    BY EarlierFacts
  <2>2. FirstCode(lens[s]) + Earlier(t) = FirstCode(lens[s]) + Earlier(s)
    BY <1>5 DEF Code
  <2>3. Earlier(t) = Earlier(s)
    BY ONLY <1>2, <1>3, <2>1, <2>2
  <2>4. QED  BY <1>5, <2>3, EarlierFacts
<1>6. QED  BY <1>1, <1>4, <1>5

(* Bits below the free codes of their length stay below every longer code. *)
LEMMA StaysBelow ==
  ASSUME InputOK, NEW n \in 0..Most, NEW m \in 0..Most, n < m, Peek(n) < FirstFree(n)
  PROVE  Peek(m) < FirstCode(m)
<1> DEFINE P == {k \in 0..Most : n < k => Peek(k) < FirstCode(k)}
<1>0. n \in Nat /\ n <= Most
  BY HuffmanSizes
<1>1. 0 \in P
  BY <1>0, HuffmanSizes
<1>2. ASSUME NEW k \in 1..Most, k - 1 \in P PROVE k \in P
  <2>1. PICK j \in Nat : j = k - 1 /\ j \in 0..Most /\ k \in 0..Most /\ k = j + 1
    BY HuffmanSizes
  <2>2. SUFFICES ASSUME n < k PROVE Peek(k) < FirstCode(k)
    BY <2>1
  <2>3. PICK w \in Nat, b \in {0, 1} : w = Peek(j) /\ Peek(k) = 2 * w + b
    BY <2>1, PeekFacts DEF InputOK
  <2>4. PICK c \in Nat, d \in Nat : /\ c = FirstFree(j) /\ FirstCode(k) = 2 * c
                                    /\ d = FirstCode(j) /\ d <= c
    BY <2>1, FirstFreeFacts
  <2>5. w < c
    <3>1. CASE n = j
      BY <2>3, <2>4, <3>1
    <3>2. CASE n # j
      <4>1. n < j
        BY <1>0, <2>1, <2>2, <3>2
      <4>2. Peek(j) < FirstCode(j)
        BY <1>2, <2>1, <4>1
      <4>3. w < d
        BY <2>3, <2>4, <4>2
      <4>4. QED  BY <2>4, <4>3
    <3>3. QED  BY <3>1, <3>2
  <2>6. 2 * w + b < 2 * c
    <3>1. b = 0 \/ b = 1
      BY <2>3
    <3>2. QED  BY ONLY <2>5, <3>1, w \in Nat, c \in Nat
  <2>7. QED  BY <2>3, <2>4, <2>6
<1>3. \A k \in 0..Most : k \in P
  <2>1. \A k \in 1..Most : k - 1 \in P => k \in P
    BY ONLY <1>2
  <2> HIDE DEF P
  <2>2. QED  BY <1>1, <2>1, HuffmanSizes, BoundedInduction
<1>4. QED  BY <1>3

(* A code left free at the longest length is free in the Kraft sum.        *)
LEMMA FreeCodeCounts ==
  ASSUME LensOK, FirstFree(MaxLength) < Power(MaxLength)
  PROVE  FirstFree(MaxLen) < Power(MaxLen)
<1> DEFINE P == {k \in 0..MaxLen : MaxLength <= k => FirstFree(k) < Power(k)}
<1>0. MaxLength \in Nat /\ MaxLength <= MaxLen /\ MaxLen <= Most /\ MaxLen \in Nat /\ Most \in Nat
  BY LongestLength, HuffmanSizes
<1>1. 0 \in P
  <2>1. MaxLength <= 0 => MaxLength = 0
    BY <1>0
  <2>2. MaxLength <= 0 => FirstFree(0) < Power(0)
    BY <2>1
  <2>3. QED  BY <2>2, <1>0
<1>2. ASSUME NEW k \in 1..MaxLen, k - 1 \in P PROVE k \in P
  <2>1. PICK j \in Nat : j = k - 1 /\ j \in 0..MaxLen /\ k \in 0..MaxLen /\ k = j + 1
                         /\ k \in 1..Most /\ j \in 0..Most
    BY <1>0
  <2>2. SUFFICES ASSUME MaxLength <= k PROVE FirstFree(k) < Power(k)
    BY <2>1
  <2>3. CASE MaxLength = k
    BY <2>3
  <2>4. CASE MaxLength # k
    <3>1. MaxLength <= j /\ MaxLength < k /\ k # 0
      BY <1>0, <2>1, <2>2, <2>4
    <3>2. FirstFree(j) < Power(j)
      BY <1>2, <2>1, <3>1
    <3>3. OfLength(k) = {}
      <4>1. \A s \in Syms : lens[s] # k
        BY <1>0, <2>1, <3>1, LongestLength
      <4>2. QED  BY <4>1 DEF OfLength
    <3>4. Many(k) = 0
      BY <3>3, FS_EmptySet DEF Many
    <3>5. PICK c \in Nat, p \in Nat : /\ c = FirstFree(j) /\ FirstCode(k) = 2 * c
                                      /\ p = Power(j) /\ Power(k) = 2 * p
      BY <2>1, FirstFreeFacts, PowerFacts
    <3>6. FirstFree(k) = 2 * c
      BY <3>4, <3>5 DEF FirstFree
    <3>7. QED  BY <3>2, <3>5, <3>6
  <2>5. QED  BY <2>3, <2>4
<1>3. \A k \in 0..MaxLen : k \in P
  <2>1. \A k \in 1..MaxLen : k - 1 \in P => k \in P
    BY ONLY <1>2
  <2> HIDE DEF P
  <2>2. QED  BY <1>1, <2>1, HuffmanSizes, BoundedInduction
<1>4. QED  BY <1>0, <1>3

-----------------------------------------------------------------------------
Missed(n) == \A k \in 0..n : FirstFree(k) <= Peek(k)

WalkInv ==
  /\ LensOK /\ InputOK
  /\ ln \in 0..MaxLength /\ code = Peek(ln)
  /\ status \in {"walking", "symbol", "invalid", "eof"}
  /\ status # "symbol" => sym = -1 /\ Missed(ln)
  /\ status = "symbol" => /\ sym \in Used /\ lens[sym] = ln /\ Code(sym) = code
                          /\ Missed(ln - 1)
  /\ status = "invalid" => ln = MaxLength
  /\ status = "eof" => ~padded /\ ln = Len(input)

LEMMA WalkStarts == WalkInit => WalkInv
<1> SUFFICES ASSUME WalkInit PROVE WalkInv
  OBVIOUS
<1>1. LensOK /\ InputOK
  BY HuffmanAssumption DEF WalkInit, LensOK, InputOK, Syms
<1>2. 0 \in 0..MaxLength
  BY <1>1, LongestLength, HuffmanSizes
<1>3. Missed(0)
  <2>1. FirstFree(0) = 0 /\ Peek(0) = 0
    BY <1>1, FirstFreeFacts, PeekFacts DEF InputOK
  <2>2. QED  BY <2>1 DEF Missed
<1>4. Peek(0) = 0
  BY <1>1, PeekFacts DEF InputOK
<1>5. QED  BY <1>1, <1>2, <1>3, <1>4 DEF WalkInit, WalkInv

(* Nothing a step of the walk may read of the lengths or of the input      *)
(* changes.                                                                *)
LEMMA SameTables ==
  ASSUME UNCHANGED <<lens, input>>
  PROVE  /\ LensOK' = LensOK /\ InputOK' = InputOK /\ MaxLength' = MaxLength /\ Used' = Used
         /\ Peek(ln)' = Peek(ln') /\ Missed(ln)' = Missed(ln') /\ Missed(ln - 1)' = Missed(ln' - 1)
         /\ Code(sym)' = Code(sym')
<1>1. LensOK' = LensOK /\ InputOK' = InputOK
  BY DEF LensOK, InputOK, Syms
<1>2. MaxLength' = MaxLength
  BY DEF MaxLength, Syms, Max
<1>3. Used' = Used
  BY DEF Used, Syms
<1>4. Peek(ln)' = Peek(ln')
  BY DEF Peek, Bit, Most
<1>5. ASSUME NEW CONSTANT k PROVE (FirstFree(k) <= Peek(k))' = (FirstFree(k) <= Peek(k))
  BY DEF FirstFree, FirstCode, Many, OfLength, Syms, Peek, Bit, Most
<1>6. Missed(ln)' = Missed(ln')
  <2>1. Missed(ln)' = \A k \in 0..ln' : (FirstFree(k) <= Peek(k))'
    BY DEF Missed
  <2>2. QED  BY <1>5, <2>1 DEF Missed
<1>7. Missed(ln - 1)' = Missed(ln' - 1)
  <2>1. Missed(ln - 1)' = \A k \in 0..(ln' - 1) : (FirstFree(k) <= Peek(k))'
    BY DEF Missed
  <2>2. QED  BY <1>5, <2>1 DEF Missed
<1>8. Code(sym)' = Code(sym')
  BY DEF Code, FirstCode, Earlier, OfLength, Syms, Most
<1>9. QED  BY <1>1, <1>2, <1>3, <1>4, <1>6, <1>7, <1>8

(* One more bit meets a code of its length or misses them all.             *)
LEMMA WalkReads ==
  ASSUME LensOK, InputOK, NEW n \in 1..MaxLength, Missed(n - 1)
  PROVE  LET many == FirstIndex(n + 1) - FirstIndex(n)
             offset == Peek(n) - FirstCode(n)
             s == Sorted[FirstIndex(n) + offset + 1]
         IN /\ ~Within(offset, many) => Missed(n)
            /\ Within(offset, many) => s \in Used /\ lens[s] = n /\ Code(s) = Peek(n)
<1>0. n \in 1..Most /\ n \in 1..MaxLen /\ n \in Nat \ {0} /\ n - 1 \in 0..Most /\ n \in 0..Most
  BY LongestLength, HuffmanSizes
<1>1. PICK many \in Nat, first \in Nat, w \in Nat, free \in Nat, i \in Nat :
        /\ many = Many(n) /\ FirstIndex(n + 1) - FirstIndex(n) = many
        /\ first = FirstCode(n) /\ w = Peek(n) /\ free = FirstFree(n) /\ free = first + many
        /\ i = FirstIndex(n)
  <2>1. /\ FirstIndex(n + 1) = FirstIndex(n) + Many(n) /\ FirstIndex(n) \in Nat
        /\ Many(n) \in Nat
    BY <1>0, FirstIndexFacts, ManyFacts
  <2>2. FirstCode(n) \in Nat /\ Peek(n) \in Nat /\ FirstFree(n) \in Nat
    BY <1>0, FirstFreeFacts, PeekFacts DEF InputOK
  <2>3. QED  BY <2>1, <2>2 DEF FirstFree
<1>2. first <= w
  <2>1. PICK c \in Nat, p \in Nat, b \in {0, 1} :
          /\ c = FirstFree(n - 1) /\ first = 2 * c
          /\ p = Peek(n - 1) /\ w = 2 * p + b
    <3>1. FirstFree(n - 1) \in Nat /\ FirstCode(n) = 2 * FirstFree(n - 1)
      BY <1>0, FirstFreeFacts
    <3>2. Peek(n - 1) \in Nat /\ Peek(n) = 2 * Peek(n - 1) + Bit(n) /\ Bit(n) \in {0, 1}
      BY <1>0, PeekFacts DEF InputOK
    <3>3. QED  BY <1>1, <3>1, <3>2
  <2>2. c <= p
    <3>1. n - 1 \in 0..(n - 1)
      BY <1>0
    <3>2. QED  BY <2>1, <3>1 DEF Missed
  <2>3. QED  BY ONLY <2>1, <2>2
<1>3. PICK offset \in Nat : offset = w - first
  BY <1>2
<1>4. Within(offset, many) <=> offset < many
  BY <1>3, <1>1 DEF Within
<1>5. ASSUME ~Within(offset, many) PROVE Missed(n)
  <2>1. free <= w
    BY <1>1, <1>3, <1>4, <1>5
  <2>2. ASSUME NEW k \in 0..n PROVE FirstFree(k) <= Peek(k)
    <3>1. k = n \/ k \in 0..(n - 1)
      BY <1>0
    <3>2. CASE k = n
      BY <1>1, <2>1, <3>2
    <3>3. CASE k \in 0..(n - 1)
      BY <3>3 DEF Missed
    <3>4. QED  BY <3>1, <3>2, <3>3
  <2>3. QED  BY <2>2 DEF Missed
<1>6. ASSUME Within(offset, many)
      PROVE  /\ Sorted[i + offset + 1] \in Used /\ lens[Sorted[i + offset + 1]] = n
             /\ Code(Sorted[i + offset + 1]) = w
  <2>1. PICK s : s = Sorted[FirstIndex(n) + offset + 1]
    OBVIOUS
  <2>2. offset < Many(n)
    BY <1>1, <1>4, <1>6
  <2>3. s \in Used /\ lens[s] = n /\ Earlier(s) = offset
    BY <1>0, <2>1, <2>2, SortedFacts
  <2>4. Code(s) = first + offset
    BY <1>1, <2>3 DEF Code
  <2>5. first + offset = w
    BY <1>3
  <2>6. QED  BY <1>1, <2>1, <2>3, <2>4, <2>5
<1>7. QED  BY <1>1, <1>3, <1>5, <1>6

LEMMA WalkKeeps == WalkInv /\ [WalkNext]_walkvars => WalkInv'
<1> SUFFICES ASSUME WalkInv, [WalkNext]_walkvars PROVE WalkInv'
  OBVIOUS
<1>1. UNCHANGED <<lens, input>>
  BY DEF WalkNext, ReadBit, OutOfBits, NoSuchCode, walkvars
<1>2. /\ LensOK' /\ InputOK' /\ MaxLength' = MaxLength /\ Used' = Used
      /\ Peek(ln)' = Peek(ln') /\ Missed(ln)' = Missed(ln') /\ Missed(ln - 1)' = Missed(ln' - 1)
      /\ Code(sym)' = Code(sym')
  BY <1>1, SameTables DEF WalkInv
<1>3. MaxLength \in Nat /\ ln \in Nat /\ ln \in 0..MaxLength
  BY LongestLength, HuffmanSizes DEF WalkInv
<1>4. CASE ReadBit
  <2>1. PICK n : n = ln' /\ n = ln + 1 /\ n \in 1..MaxLength /\ n - 1 = ln
    BY <1>3, <1>4 DEF ReadBit
  <2>2. status = "walking" /\ Missed(n - 1) /\ sym = -1
    BY <1>4, <2>1 DEF ReadBit, WalkInv
  <2>3. code' = Peek(n)
    <3>1. n \in 1..Most
      BY <2>1, LongestLength, HuffmanSizes DEF WalkInv
    <3>2. Peek(n) = 2 * Peek(n - 1) + Bit(n)
      BY <3>1, PeekFacts DEF WalkInv, InputOK
    <3>3. code' = 2 * code + Bit(n) /\ code = Peek(ln)
      BY <1>4, <2>1 DEF ReadBit, WalkInv
    <3>4. QED  BY <2>1, <3>2, <3>3
  <2>4. PICK many, offset, s : /\ many = FirstIndex(n + 1) - FirstIndex(n)
                               /\ offset = Peek(n) - FirstCode(n)
                               /\ s = Sorted[FirstIndex(n) + offset + 1]
    OBVIOUS
  <2>5. \/ Within(offset, many) /\ status' = "symbol" /\ sym' = s
        \/ ~Within(offset, many) /\ UNCHANGED <<status, sym>>
    BY <1>4, <2>1, <2>3, <2>4 DEF ReadBit
  <2>6. /\ ~Within(offset, many) => Missed(n)
        /\ Within(offset, many) => s \in Used /\ lens[s] = n /\ Code(s) = Peek(n)
    BY <2>1, <2>2, <2>4, WalkReads DEF WalkInv
  <2>7. CASE Within(offset, many) /\ status' = "symbol" /\ sym' = s
    <3>1. sym' \in Used' /\ lens'[sym'] = ln' /\ Code(sym)' = code' /\ Missed(ln - 1)'
      BY <1>1, <1>2, <2>1, <2>2, <2>3, <2>6, <2>7
    <3>2. ln' \in 0..MaxLength' /\ code' = Peek(ln)' /\ status' = "symbol"
      BY <1>2, <1>3, <2>1, <2>3, <2>7
    <3>3. QED  BY <1>2, <3>1, <3>2 DEF WalkInv
  <2>8. CASE ~Within(offset, many) /\ UNCHANGED <<status, sym>>
    <3>1. sym' = -1 /\ Missed(ln)' /\ status' = "walking"
      BY <1>2, <2>1, <2>2, <2>6, <2>8
    <3>2. ln' \in 0..MaxLength' /\ code' = Peek(ln)'
      BY <1>2, <1>3, <2>1, <2>3
    <3>3. QED  BY <1>2, <3>1, <3>2 DEF WalkInv
  <2>9. QED  BY <2>5, <2>7, <2>8
<1>5. CASE OutOfBits
  BY <1>1, <1>2, <1>5 DEF OutOfBits, AtEnd, WalkInv
<1>6. CASE NoSuchCode
  BY <1>1, <1>2, <1>6 DEF NoSuchCode, WalkInv
<1>7. CASE UNCHANGED walkvars
  BY <1>1, <1>2, <1>7 DEF walkvars, WalkInv
<1>8. QED  BY <1>4, <1>5, <1>6, <1>7 DEF WalkNext

LEMMA WalkInvariant == WalkSpec => []WalkInv
BY WalkStarts, WalkKeeps, PTL DEF WalkSpec

(* The walk's variables keep their types.                                  *)
THEOREM WalkTypesCorrect == WalkSpec => []WalkTypeOK
<1>1. WalkInv => WalkTypeOK
  <2> SUFFICES ASSUME WalkInv PROVE WalkTypeOK
    OBVIOUS
  <2>1. ln \in 0..Most
    BY LongestLength, HuffmanSizes DEF WalkInv
  <2>2. code \in 0..(Power(ln) - 1)
    BY <2>1, PeekBelowPower DEF WalkInv
  <2>3. QED  BY <2>2 DEF WalkInv, WalkTypeOK, LensOK, Used
<1>2. QED  BY <1>1, WalkInvariant, PTL

-----------------------------------------------------------------------------
(* A symbol's code is among the first ln bits.                             *)
LEMMA ReadMeansPrefix ==
  ASSUME WalkInv, NEW s \in Syms
  PROVE  HasRead(s) <=> s \in Used /\ lens[s] <= ln /\ Peek(lens[s]) = Code(s)
<1>0. ln \in 0..Most /\ ln \in Nat /\ lens[s] \in Nat
  BY LongestLength, HuffmanSizes DEF WalkInv, LensOK
<1>1. lens[s] \in 1..ln <=> s \in Used /\ lens[s] <= ln
  BY <1>0 DEF Used
<1>2. SUFFICES ASSUME s \in Used, lens[s] <= ln
               PROVE  HasRead(s) <=> Peek(lens[s]) = Code(s)
  BY <1>1 DEF HasRead
<1>3. CodeWord(s) = Code(s) /\ Code(s) \in Nat
  BY <1>2, CodesAreCodeWords, CodeFacts DEF WalkInv
<1>4. HasRead(s) <=> Quotient(code, Power(ln - lens[s]), Code(s))
  BY <1>1, <1>2, <1>3 DEF HasRead, Quotient
<1>5. lens[s] \in 0..Most /\ ln \in (lens[s])..Most
  BY <1>0, <1>2, HuffmanSizes
<1>6. QED  BY <1>3, <1>4, <1>5, PeekPrefix DEF WalkInv

(* No code of a length missed was read.                                    *)
LEMMA MissedMeansUnread ==
  ASSUME LensOK, InputOK, NEW n \in 0..MaxLength, Missed(n), NEW s \in Used, lens[s] <= n
  PROVE  Peek(lens[s]) # Code(s)
<1>1. Code(s) \in Nat /\ Code(s) < FirstFree(lens[s]) /\ lens[s] \in 1..Most
  BY CodeFacts
<1>2. n \in Nat /\ lens[s] \in 0..n /\ lens[s] \in 0..Most
  BY <1>1, LongestLength, HuffmanSizes
<1>3. FirstFree(lens[s]) <= Peek(lens[s])
  BY <1>2 DEF Missed
<1>4. FirstFree(lens[s]) \in Nat /\ Peek(lens[s]) \in Nat
  BY <1>2, FirstFreeFacts, PeekFacts DEF InputOK
<1>5. QED  BY <1>1, <1>3, <1>4

(* The walk's answer, when it has one, is the only symbol of Used whose    *)
(* code the input starts with, however long.                               *)
LEMMA OneSymbolFits ==
  ASSUME WalkInv, NEW s \in Used, Peek(lens[s]) = Code(s), status # "walking",
         status = "eof" => lens[s] <= Len(input)
  PROVE  status = "symbol" /\ s = sym /\ lens[s] = ln
<1>0. /\ LensOK /\ InputOK /\ ln \in 0..MaxLength /\ ln \in Nat /\ ln \in 0..Most
      /\ lens[s] \in 1..MaxLength /\ lens[s] \in Nat /\ lens[s] \in 1..Most /\ lens[s] \in 0..Most
  BY LongestLength, HuffmanSizes, CodeFacts DEF WalkInv
<1>1. ASSUME status # "symbol" PROVE FALSE
  <2>1. Missed(ln)
    BY <1>1 DEF WalkInv
  <2>2. lens[s] <= ln
    BY <1>0, <1>1 DEF WalkInv
  <2>3. QED  BY <1>0, <2>1, <2>2, MissedMeansUnread
<1>2. /\ sym \in Used /\ lens[sym] = ln /\ Code(sym) = Peek(ln) /\ Missed(ln - 1)
      /\ status = "symbol"
  BY <1>1 DEF WalkInv
<1>3. ln \in 1..Most /\ ln - 1 \in 0..MaxLength
  <2>1. lens[sym] \in 1..Most
    BY <1>0, <1>2, CodeFacts
  <2>2. MaxLength \in Nat
    BY <1>0, LongestLength, HuffmanSizes
  <2>3. QED  BY <1>0, <1>2, <2>1, <2>2
<1>4. ~ (lens[s] < ln)
  <2>1. SUFFICES ASSUME lens[s] < ln PROVE FALSE
    OBVIOUS
  <2>2. lens[s] <= ln - 1
    BY <1>0, <2>1
  <2>3. QED  BY <1>0, <1>2, <1>3, <2>2, MissedMeansUnread
<1>5. ~ (ln < lens[s])
  <2>1. SUFFICES ASSUME ln < lens[s] PROVE FALSE
    OBVIOUS
  <2>2. Peek(ln) < FirstFree(ln)
    BY <1>0, <1>2, CodeFacts
  <2>3. Peek(lens[s]) < FirstCode(lens[s])
    BY <1>0, <2>1, <2>2, StaysBelow
  <2>4. FirstCode(lens[s]) <= Code(s) /\ Code(s) \in Nat /\ FirstCode(lens[s]) \in Nat
    BY <1>0, CodeFacts, FirstFreeFacts
  <2>5. QED  BY <2>3, <2>4
<1>6. lens[s] = ln
  BY <1>0, <1>4, <1>5
<1>7. lens[s] = lens[sym] /\ Code(s) = Code(sym)
  BY <1>2, <1>6
<1>8. s = sym
  BY <1>0, <1>2, <1>7, CodeFacts
<1>9. QED  BY <1>2, <1>6, <1>8

(* The walk with its first codes and symbol index (CanonicalHuffman.decode *)
(* and _HTree._decode_slow) stops at the symbol whose code word the input  *)
(* starts with, and at no other, for every array of lengths; and it never  *)
(* fails where the code words are complete.                                *)
THEOREM WalkIsRight == WalkSpec => []WalkFindsCodeWord
<1>1. WalkInv => WalkFindsCodeWord
  <2> SUFFICES ASSUME WalkInv PROVE WalkFindsCodeWord
    OBVIOUS
  <2>0. ln \in 0..MaxLength /\ LensOK /\ InputOK /\ ln \in Nat
    BY LongestLength, HuffmanSizes DEF WalkInv
  <2>1. ASSUME status # "symbol", NEW s \in Syms PROVE ~ HasRead(s)
    <3>1. Missed(ln)
      BY <2>1 DEF WalkInv
    <3>2. QED  BY <2>0, <3>1, MissedMeansUnread, ReadMeansPrefix
  <2>2. ASSUME status = "symbol", NEW s \in Syms PROVE HasRead(s) <=> s = sym
    <3>1. sym \in Used /\ sym \in Syms /\ lens[sym] = ln /\ Code(sym) = Peek(ln)
      BY <2>2 DEF WalkInv, Used
    <3>2. HasRead(sym)
      BY <2>0, <3>1, ReadMeansPrefix
    <3>3. ASSUME HasRead(s) PROVE s = sym
      BY <2>2, <3>3, ReadMeansPrefix, OneSymbolFits
    <3>4. QED  BY <3>2, <3>3
  <2>3. {s \in Syms : HasRead(s)} = IF status = "symbol" THEN {sym} ELSE {}
    <3>1. CASE status = "symbol"
      <4>1. sym \in Syms
        BY <3>1 DEF WalkInv, Used
      <4>2. QED  BY <2>2, <3>1, <4>1
    <3>2. CASE status # "symbol"
      BY <2>1, <3>2
    <3>3. QED  BY <3>1, <3>2
  <2>4. ASSUME status = "invalid" PROVE Kraft # Power(MaxLen)
    <3>1. ln = MaxLength /\ Missed(ln)
      BY <2>4 DEF WalkInv
    <3>2. FirstFree(MaxLength) <= Peek(MaxLength)
      BY <2>0, <3>1 DEF Missed
    <3>3. MaxLength \in 0..Most
      BY <2>0, LongestLength, HuffmanSizes
    <3>4. FirstFree(MaxLength) < Power(MaxLength)
      BY <2>0, <3>2, <3>3, PeekBelowPower, FirstFreeFacts
    <3>5. FirstFree(MaxLen) < Power(MaxLen)
      BY <2>0, <3>4, FreeCodeCounts
    <3>6. Kraft = FirstFree(MaxLen)
      BY <2>0, CodesAreCodeWords DEF FirstFree
    <3>7. FirstFree(MaxLen) \in Nat /\ Power(MaxLen) \in Nat
      BY HuffmanSizes, FirstFreeFacts, PowerFacts
    <3>8. QED  BY <3>5, <3>6, <3>7
  <2>5. QED  BY <2>3, <2>4 DEF WalkFindsCodeWord, CompleteNeverFails
<1>2. QED  BY <1>1, WalkInvariant, PTL

-----------------------------------------------------------------------------
(* A table hit: the input starts with the code.                            *)
LEMMA FillerFits ==
  ASSUME WalkInv, NEW b \in 0..Most
  PROVE  \A s \in Syms : s \in Fillers(Peek(b), b)
                           <=> s \in Used /\ lens[s] <= b /\ Peek(lens[s]) = Code(s)
<1> SUFFICES ASSUME NEW s \in Syms
             PROVE  s \in Fillers(Peek(b), b)
                      <=> s \in Used /\ lens[s] <= b /\ Peek(lens[s]) = Code(s)
  OBVIOUS
<1>0. b \in Nat /\ lens[s] \in Nat /\ b <= Most
  BY HuffmanSizes DEF WalkInv, LensOK
<1>1. s \in Short(b) <=> s \in Used /\ lens[s] <= b
  BY <1>0 DEF Short, Used
<1>2. SUFFICES ASSUME s \in Used, lens[s] <= b
               PROVE  Peek(b) \in Slots(s, b) <=> Peek(lens[s]) = Code(s)
  BY <1>1 DEF Fillers
<1>3. Code(s) \in Nat
  BY <1>2, CodeFacts DEF WalkInv
<1>4. Peek(b) \in Slots(s, b) <=> Quotient(Peek(b), Power(b - lens[s]), Code(s))
  BY DEF Slots, Quotient
<1>5. lens[s] \in 0..Most /\ b \in (lens[s])..Most
  BY <1>0, <1>2, HuffmanSizes
<1>6. QED  BY <1>3, <1>4, <1>5, PeekPrefix DEF WalkInv

LEMMA MaxOfOne ==
  ASSUME NEW w \in Nat
  PROVE  Max({w}) = w
<1>1. \E y \in {w} : \A z \in {w} : y >= z
  OBVIOUS
<1>2. Max({w}) \in {w}
  BY <1>1 DEF Max
<1>3. QED  BY <1>2

(* When the walk has ended, a hit of a table of b bits is its answer.      *)
LEMMA HitIsAnswer ==
  ASSUME WalkInv, NEW b \in 0..Most, status # "walking",
         status = "eof" => b <= Len(input), Fillers(Peek(b), b) # {}
  PROVE  /\ status = "symbol" /\ Max(Fillers(Peek(b), b)) = sym
         /\ lens[sym] = ln
<1>0. b \in Nat /\ b <= Most /\ (\A s \in Syms : lens[s] \in Nat) /\ Len(input) \in Nat
  BY HuffmanSizes DEF WalkInv, LensOK, InputOK
<1>1. ASSUME NEW s \in Fillers(Peek(b), b) PROVE status = "symbol" /\ s = sym /\ lens[s] = ln
  <2>1. s \in Syms
    BY DEF Fillers, Short
  <2>2. s \in Used /\ lens[s] <= b /\ Peek(lens[s]) = Code(s)
    BY <2>1, FillerFits
  <2>3. status = "eof" => lens[s] <= Len(input)
    BY <1>0, <2>1, <2>2
  <2>4. QED  BY <2>2, <2>3, OneSymbolFits
<1>2. PICK s : s \in Fillers(Peek(b), b)
  OBVIOUS
<1>3. Fillers(Peek(b), b) = {sym} /\ status = "symbol" /\ lens[sym] = ln
  BY <1>1, <1>2
<1>4. sym \in Nat
  <2>1. sym \in Syms
    BY <1>3 DEF WalkInv, Used
  <2>2. QED  BY <2>1, HuffmanSizes DEF Syms
<1>5. Max({sym}) = sym
  BY <1>4, MaxOfOne
<1>6. QED  BY <1>3, <1>5

LEMMA PrimaryFacts ==
  ASSUME LensOK
  PROVE  Primary \in 0..Most /\ Primary \in Nat
<1>1. MaxLength \in Nat /\ MaxLength <= MaxLen
  BY LongestLength, HuffmanSizes
<1>2. PICK S : S = {MaxLength, PrimaryBits}
  OBVIOUS
<1>3. \E w \in S : \A y \in S : y >= w
  <2>1. CASE MaxLength <= PrimaryBits
    <3>1. \A y \in S : y >= MaxLength
      BY <1>1, <1>2, <2>1, HuffmanSizes
    <3>2. QED  BY <1>2, <3>1
  <2>2. CASE ~ (MaxLength <= PrimaryBits)
    <3>1. \A y \in S : y >= PrimaryBits
      BY <1>1, <1>2, <2>2, HuffmanSizes
    <3>2. QED  BY <1>2, <3>1
  <2>3. QED  BY <2>1, <2>2
<1>4. Min(S) \in S
  BY <1>3 DEF Min
<1>5. Primary = MaxLength \/ Primary = PrimaryBits
  BY <1>2, <1>4 DEF Primary
<1>6. QED  BY <1>1, <1>5, HuffmanSizes

(* The table of _HTree.decode answers what the walk behind it would, near  *)
(* the end of the input too, and decode_symbol finds the walk's symbol in  *)
(* the table of build_decode_table when all codes are short: for every     *)
(* array of lengths.                                                       *)
THEOREM TablesAreRight == WalkSpec => []TablesAgree
<1>1. WalkInv => TableHitIsWalk
  <2> SUFFICES ASSUME WalkInv, HTree.by = "table", status # "walking"
               PROVE  status = "symbol" /\ HTree.sym = sym /\ HTree.len = ln
    BY DEF TableHitIsWalk
  <2>1. PICK F : F = Fillers(Peek(Primary), Primary)
    OBVIOUS
  <2>2. /\ ~PeekFails(Primary) /\ F # {}
        /\ HTree = [by |-> "table", sym |-> Max(F), len |-> lens[Max(F)]]
    BY <2>1 DEF HTree, SlowPath
  <2>3. Primary \in 0..Most /\ Primary \in Nat
    BY PrimaryFacts DEF WalkInv
  <2>4. status = "eof" => Primary <= Len(input)
    <3>1. SUFFICES ASSUME status = "eof" PROVE Primary <= Len(input)
      OBVIOUS
    <3>2. ~padded
      BY <3>1 DEF WalkInv
    <3>3. Len(input) \in Nat
      BY DEF WalkInv, InputOK
    <3>4. QED  BY <2>2, <2>3, <3>2, <3>3 DEF PeekFails
  <2>5. status = "symbol" /\ Max(F) = sym /\ lens[sym] = ln
    BY <2>1, <2>2, <2>3, <2>4, HitIsAnswer
  <2>6. QED  BY <2>2, <2>5
<1>2. WalkInv => ShortCodesByTable
  <2> SUFFICES ASSUME WalkInv, MaxLength <= PrimaryBits, status = "symbol"
               PROVE  TableWord = [sym |-> sym, len |-> ln]
    BY DEF ShortCodesByTable
  <2>1. PICK F : F = Fillers(Peek(PrimaryBits), PrimaryBits)
    OBVIOUS
  <2>2. sym \in Used /\ sym \in Syms /\ lens[sym] = ln /\ Code(sym) = Peek(lens[sym])
    BY DEF WalkInv, Used
  <2>3. lens[sym] <= PrimaryBits /\ PrimaryBits \in 0..Most
    BY <2>2, LongestLength, HuffmanSizes, CodeFacts DEF WalkInv
  <2>4. sym \in F
    BY <2>1, <2>2, <2>3, FillerFits
  <2>5. Max(F) = sym
    BY <2>1, <2>3, <2>4, HitIsAnswer
  <2>6. TableWord = [sym |-> Max(F), len |-> lens[Max(F)]]
    BY <2>1, <2>4 DEF TableWord
  <2>7. QED  BY <2>2, <2>5, <2>6
<1>3. WalkInv => TablesAgree
  BY <1>1, <1>2 DEF TablesAgree
<1>4. QED  BY <1>3, WalkInvariant, PTL

-----------------------------------------------------------------------------
(***************************************************************************)
(* The table of make_decode_table.                                         *)
(***************************************************************************)
LEMMA TableSizes ==
  /\ TableBits \in Nat /\ TableBits >= 1 /\ TableBits <= MaxLen /\ TableBits \in 0..Most
  /\ TableMask \in Nat /\ FirstNode \in Nat /\ TableMask = 2 * FirstNode
  /\ NumSyms <= FirstNode /\ Power(TableBits) = TableMask
  /\ Shift \in Nat /\ Shift = MaxLen - TableBits
<1>1. /\ TableBits \in Nat /\ TableBits >= 1 /\ TableBits <= MaxLen
      /\ TableBits \in 1..Most /\ TableBits \in 0..Most /\ TableBits - 1 \in 0..Most
  BY TableAssumption, HuffmanSizes
<1>2. PICK p \in Nat : p = Power(TableBits - 1) /\ Power(TableBits) = 2 * p
  BY <1>1, PowerFacts
<1>3. TableMask = 2 * p /\ NumSyms <= p
  BY <1>2, TableAssumption, HuffmanSizes DEF TableMask
<1>4. FirstNode = p
  BY <1>2, <1>3 DEF FirstNode
<1>5. QED  BY <1>1, <1>2, <1>3, <1>4, HuffmanSizes DEF TableMask, Shift

(* The recursive functions of module LzxTable, as the equations they are   *)
(* defined by.                                                             *)
LEMMA WithLengthTurns ==
  ASSUME NEW t, NEW n
  PROVE  \E w : /\ w[0] = t /\ WithLength(t, n) = w[NumSyms]
                /\ \A k \in 1..NumSyms :
                     w[k] = IF lens[k - 1] = n THEN Enter(w[k - 1], k - 1) ELSE w[k - 1]
<1> DEFINE Turn(h, k) == IF k = 0 THEN t
                         ELSE IF lens[k - 1] = n THEN Enter(h[k - 1], k - 1) ELSE h[k - 1]
           Eq(h, m) == h = [k \in 0..m |-> Turn(h, k)]
           P == {m \in 0..NumSyms : \E h : Eq(h, m)}
<1>1. ASSUME NEW g, NEW h, NEW k, k = 0 \/ g[k - 1] = h[k - 1] PROVE Turn(g, k) = Turn(h, k)
  BY <1>1
<1> HIDE DEF Turn
<1>2. 0 \in P
  <2>1. PICK h : h = [k \in 0..0 |-> Turn(<<>>, k)]
    OBVIOUS
  <2>2. \A k \in 0..0 : Turn(h, k) = Turn(<<>>, k)
    BY <1>1
  <2>3. Eq(h, 0)
    BY <2>1, <2>2
  <2>4. QED  BY <2>3, HuffmanSizes
<1>3. ASSUME NEW m \in 1..NumSyms, m - 1 \in P PROVE m \in P
  <2>1. PICK j \in Nat : j = m - 1 /\ m = j + 1 /\ m \in 0..NumSyms
    BY HuffmanSizes
  <2>2. PICK h : Eq(h, j)
    BY <1>3, <2>1
  <2>3. PICK g : g = [k \in 0..m |-> IF k = m THEN Turn(h, m) ELSE h[k]]
    OBVIOUS
  <2>4. ASSUME NEW k \in 0..m PROVE g[k] = Turn(g, k)
    <3>1. k = 0 \/ (k - 1 \in 0..m /\ k - 1 # m)
      BY <2>1
    <3>2. k = 0 \/ g[k - 1] = h[k - 1]
      BY <2>3, <3>1
    <3>3. Turn(g, k) = Turn(h, k)
      BY <1>1, <3>2
    <3>4. CASE k = m
      BY <2>3, <3>3, <3>4
    <3>5. CASE k # m
      <4>1. k \in 0..j
        BY <2>1, <3>5
      <4>2. h[k] = Turn(h, k)
        BY <2>2, <4>1
      <4>3. QED  BY <2>3, <3>3, <3>5, <4>2
    <3>6. QED  BY <3>4, <3>5
  <2>5. Eq(g, m)
    BY <2>3, <2>4
  <2>6. QED  BY <2>1, <2>5
<1>4. PICK turns : Eq(turns, NumSyms)
  <2>1. \A m \in 1..NumSyms : m - 1 \in P => m \in P
    BY ONLY <1>3
  <2>2. NumSyms \in P
    <3> HIDE DEF P
    <3>1. \A m \in 0..NumSyms : m \in P
      BY <1>2, <2>1, HuffmanSizes, BoundedInduction
    <3>2. QED  BY <3>1, HuffmanSizes
  <2>3. QED  BY <2>2
<1>5. PICK w : w = CHOOSE h : Eq(h, NumSyms)
  OBVIOUS
<1>6. Eq(w, NumSyms)
  <2> HIDE DEF Eq
  <2>1. QED  BY <1>4, <1>5
<1>7. WithLength(t, n) = w[NumSyms]
  BY <1>5 DEF WithLength, Turn
<1>8. w[0] = t
  <2>1. 0 \in 0..NumSyms
    BY HuffmanSizes
  <2>2. QED  BY <1>6, <2>1 DEF Turn
<1>9. ASSUME NEW k \in 1..NumSyms
      PROVE  w[k] = IF lens[k - 1] = n THEN Enter(w[k - 1], k - 1) ELSE w[k - 1]
  <2>1. k \in 0..NumSyms /\ k # 0
    BY HuffmanSizes
  <2>2. QED  BY <1>6, <2>1 DEF Turn
<1>10. QED  BY <1>7, <1>8, <1>9

LEMMA WithLengthsTurns ==
  ASSUME NEW t, NEW from \in Nat, NEW to \in Nat
  PROVE  \E w : /\ w[0] = t /\ WithLengths(t, from, to) = w[to]
                /\ \A k \in 1..to :
                     w[k] = IF k <= from THEN t ELSE WithLength(w[k - 1], k)
<1> DEFINE Turn(h, k) == IF k <= from THEN t ELSE WithLength(h[k - 1], k)
           Eq(h, m) == h = [k \in 0..m |-> Turn(h, k)]
           P == {m \in 0..to : \E h : Eq(h, m)}
<1>1. ASSUME NEW g, NEW h, NEW k, k = 0 \/ g[k - 1] = h[k - 1] PROVE Turn(g, k) = Turn(h, k)
  BY <1>1
<1> HIDE DEF Turn
<1>2. 0 \in P
  <2>1. PICK h : h = [k \in 0..0 |-> Turn(<<>>, k)]
    OBVIOUS
  <2>2. \A k \in 0..0 : Turn(h, k) = Turn(<<>>, k)
    BY <1>1
  <2>3. Eq(h, 0)
    BY <2>1, <2>2
  <2>4. QED  BY <2>3
<1>3. ASSUME NEW m \in 1..to, m - 1 \in P PROVE m \in P
  <2>1. PICK j \in Nat : j = m - 1 /\ m = j + 1 /\ m \in 0..to
    OBVIOUS
  <2>2. PICK h : Eq(h, j)
    BY <1>3, <2>1
  <2>3. PICK g : g = [k \in 0..m |-> IF k = m THEN Turn(h, m) ELSE h[k]]
    OBVIOUS
  <2>4. ASSUME NEW k \in 0..m PROVE g[k] = Turn(g, k)
    <3>1. k = 0 \/ (k - 1 \in 0..m /\ k - 1 # m)
      BY <2>1
    <3>2. k = 0 \/ g[k - 1] = h[k - 1]
      BY <2>3, <3>1
    <3>3. Turn(g, k) = Turn(h, k)
      BY <1>1, <3>2
    <3>4. CASE k = m
      BY <2>3, <3>3, <3>4
    <3>5. CASE k # m
      <4>1. k \in 0..j
        BY <2>1, <3>5
      <4>2. h[k] = Turn(h, k)
        BY <2>2, <4>1
      <4>3. QED  BY <2>3, <3>3, <3>5, <4>2
    <3>6. QED  BY <3>4, <3>5
  <2>5. Eq(g, m)
    BY <2>3, <2>4
  <2>6. QED  BY <2>1, <2>5
<1>4. PICK turns : Eq(turns, to)
  <2>1. \A m \in 1..to : m - 1 \in P => m \in P
    BY ONLY <1>3
  <2>2. to \in P
    <3> HIDE DEF P
    <3>1. \A m \in 0..to : m \in P
      BY <1>2, <2>1, BoundedInduction
    <3>2. QED  BY <3>1
  <2>3. QED  BY <2>2
<1>5. PICK w : w = CHOOSE h : Eq(h, to)
  OBVIOUS
<1>6. Eq(w, to)
  <2> HIDE DEF Eq
  <2>1. QED  BY <1>4, <1>5
<1>7. WithLengths(t, from, to) = w[to]
  BY <1>5 DEF WithLengths, Turn
<1>8. w[0] = t
  <2>1. 0 \in 0..to
    OBVIOUS
  <2>2. QED  BY <1>6, <2>1 DEF Turn
<1>9. ASSUME NEW k \in 1..to
      PROVE  w[k] = IF k <= from THEN t ELSE WithLength(w[k - 1], k)
  <2>1. k \in 0..to /\ k # 0
    OBVIOUS
  <2>2. QED  BY <1>6, <2>1 DEF Turn
<1>10. QED  BY <1>7, <1>8, <1>9

LEMMA PathTurns ==
  ASSUME NEW t, NEW n \in Nat
  PROVE  \E w : /\ w[0] = [t EXCEPT !.leaf = t.pos \div Power(Shift)] /\ Path(t, n) = w[n]
                /\ \A k \in 1..n :
                     w[k] = Follow(Split(w[k - 1]), (t.pos \div Power(Shift - k)) % 2)
<1> DEFINE Turn(h, k) == IF k = 0 THEN [t EXCEPT !.leaf = t.pos \div Power(Shift)]
                         ELSE Follow(Split(h[k - 1]), (t.pos \div Power(Shift - k)) % 2)
           Eq(h, m) == h = [k \in 0..m |-> Turn(h, k)]
           P == {m \in 0..n : \E h : Eq(h, m)}
<1>1. ASSUME NEW g, NEW h, NEW k, k = 0 \/ g[k - 1] = h[k - 1] PROVE Turn(g, k) = Turn(h, k)
  BY <1>1
<1> HIDE DEF Turn
<1>2. 0 \in P
  <2>1. PICK h : h = [k \in 0..0 |-> Turn(<<>>, k)]
    OBVIOUS
  <2>2. \A k \in 0..0 : Turn(h, k) = Turn(<<>>, k)
    BY <1>1
  <2>3. Eq(h, 0)
    BY <2>1, <2>2
  <2>4. QED  BY <2>3
<1>3. ASSUME NEW m \in 1..n, m - 1 \in P PROVE m \in P
  <2>1. PICK j \in Nat : j = m - 1 /\ m = j + 1 /\ m \in 0..n
    OBVIOUS
  <2>2. PICK h : Eq(h, j)
    BY <1>3, <2>1
  <2>3. PICK g : g = [k \in 0..m |-> IF k = m THEN Turn(h, m) ELSE h[k]]
    OBVIOUS
  <2>4. ASSUME NEW k \in 0..m PROVE g[k] = Turn(g, k)
    <3>1. k = 0 \/ (k - 1 \in 0..m /\ k - 1 # m)
      BY <2>1
    <3>2. k = 0 \/ g[k - 1] = h[k - 1]
      BY <2>3, <3>1
    <3>3. Turn(g, k) = Turn(h, k)
      BY <1>1, <3>2
    <3>4. CASE k = m
      BY <2>3, <3>3, <3>4
    <3>5. CASE k # m
      <4>1. k \in 0..j
        BY <2>1, <3>5
      <4>2. h[k] = Turn(h, k)
        BY <2>2, <4>1
      <4>3. QED  BY <2>3, <3>3, <3>5, <4>2
    <3>6. QED  BY <3>4, <3>5
  <2>5. Eq(g, m)
    BY <2>3, <2>4
  <2>6. QED  BY <2>1, <2>5
<1>4. PICK turns : Eq(turns, n)
  <2>1. \A m \in 1..n : m - 1 \in P => m \in P
    BY ONLY <1>3
  <2>2. n \in P
    <3> HIDE DEF P
    <3>1. \A m \in 0..n : m \in P
      BY <1>2, <2>1, BoundedInduction
    <3>2. QED  BY <3>1
  <2>3. QED  BY <2>2
<1>5. PICK w : w = CHOOSE h : Eq(h, n)
  OBVIOUS
<1>6. Eq(w, n)
  <2> HIDE DEF Eq
  <2>1. QED  BY <1>4, <1>5
<1>7. Path(t, n) = w[n]
  BY <1>5 DEF Path, Turn
<1>8. w[0] = [t EXCEPT !.leaf = t.pos \div Power(Shift)]
  <2>1. 0 \in 0..n
    OBVIOUS
  <2>2. QED  BY <1>6, <2>1 DEF Turn
<1>9. ASSUME NEW k \in 1..n
      PROVE  w[k] = Follow(Split(w[k - 1]), (t.pos \div Power(Shift - k)) % 2)
  <2>1. k \in 0..n /\ k # 0
    OBVIOUS
  <2>2. QED  BY <1>6, <2>1 DEF Turn
<1>10. QED  BY <1>7, <1>8, <1>9

LEMMA ReadTurns ==
  ASSUME NEW t
  PROVE  \E w : /\ w[0] = t.entries[Peek(TableBits)] /\ ReadHuffsym(t) = w[MaxLen]
                /\ \A k \in 1..MaxLen :
                     w[k] = IF k <= TableBits THEN t.entries[Peek(TableBits)]
                            ELSE IF w[k - 1] < NumSyms THEN w[k - 1]
                            ELSE t.entries[2 * w[k - 1] + Bit(k)]
<1> DEFINE Turn(h, k) == IF k <= TableBits THEN t.entries[Peek(TableBits)]
                         ELSE IF h[k - 1] < NumSyms THEN h[k - 1]
                         ELSE t.entries[2 * h[k - 1] + Bit(k)]
           Eq(h, m) == h = [k \in 0..m |-> Turn(h, k)]
           P == {m \in 0..MaxLen : \E h : Eq(h, m)}
<1>1. ASSUME NEW g, NEW h, NEW k, k = 0 \/ g[k - 1] = h[k - 1] PROVE Turn(g, k) = Turn(h, k)
  BY <1>1, TableSizes
<1> HIDE DEF Turn
<1>2. 0 \in P
  <2>1. PICK h : h = [k \in 0..0 |-> Turn(<<>>, k)]
    OBVIOUS
  <2>2. \A k \in 0..0 : Turn(h, k) = Turn(<<>>, k)
    BY <1>1
  <2>3. Eq(h, 0)
    BY <2>1, <2>2
  <2>4. QED  BY <2>3, HuffmanSizes, TableSizes
<1>3. ASSUME NEW m \in 1..MaxLen, m - 1 \in P PROVE m \in P
  <2>1. PICK j \in Nat : j = m - 1 /\ m = j + 1 /\ m \in 0..MaxLen
    BY HuffmanSizes, TableSizes
  <2>2. PICK h : Eq(h, j)
    BY <1>3, <2>1
  <2>3. PICK g : g = [k \in 0..m |-> IF k = m THEN Turn(h, m) ELSE h[k]]
    OBVIOUS
  <2>4. ASSUME NEW k \in 0..m PROVE g[k] = Turn(g, k)
    <3>1. k = 0 \/ (k - 1 \in 0..m /\ k - 1 # m)
      BY <2>1
    <3>2. k = 0 \/ g[k - 1] = h[k - 1]
      BY <2>3, <3>1
    <3>3. Turn(g, k) = Turn(h, k)
      BY <1>1, <3>2
    <3>4. CASE k = m
      BY <2>3, <3>3, <3>4
    <3>5. CASE k # m
      <4>1. k \in 0..j
        BY <2>1, <3>5
      <4>2. h[k] = Turn(h, k)
        BY <2>2, <4>1
      <4>3. QED  BY <2>3, <3>3, <3>5, <4>2
    <3>6. QED  BY <3>4, <3>5
  <2>5. Eq(g, m)
    BY <2>3, <2>4
  <2>6. QED  BY <2>1, <2>5
<1>4. PICK turns : Eq(turns, MaxLen)
  <2>1. \A m \in 1..MaxLen : m - 1 \in P => m \in P
    BY ONLY <1>3
  <2>2. MaxLen \in P
    <3> HIDE DEF P
    <3>1. \A m \in 0..MaxLen : m \in P
      BY <1>2, <2>1, HuffmanSizes, TableSizes, BoundedInduction
    <3>2. QED  BY <3>1, HuffmanSizes, TableSizes
  <2>3. QED  BY <2>2
<1>5. PICK w : w = CHOOSE h : Eq(h, MaxLen)
  OBVIOUS
<1>6. Eq(w, MaxLen)
  <2> HIDE DEF Eq
  <2>1. QED  BY <1>4, <1>5
<1>7. ReadHuffsym(t) = w[MaxLen]
  BY <1>5 DEF ReadHuffsym, Turn
<1>8. w[0] = t.entries[Peek(TableBits)]
  <2>1. 0 \in 0..MaxLen
    BY HuffmanSizes, TableSizes
  <2>2. QED  BY <1>6, <2>1, TableSizes DEF Turn
<1>9. ASSUME NEW k \in 1..MaxLen
      PROVE  w[k] = IF k <= TableBits THEN t.entries[Peek(TableBits)]
                            ELSE IF w[k - 1] < NumSyms THEN w[k - 1]
                            ELSE t.entries[2 * w[k - 1] + Bit(k)]
  <2>1. k \in 0..MaxLen /\ k # 0
    BY HuffmanSizes, TableSizes
  <2>2. QED  BY <1>6, <2>1, TableSizes DEF Turn
<1>10. QED  BY <1>7, <1>8, <1>9

-----------------------------------------------------------------------------
(* What the steps do to the table's record, wherever they are.             *)
Tables ==
  [entries : [Entries -> Int], pos : Nat, next : Nat, leaf : Entries,
   ok : BOOLEAN, inside : BOOLEAN]

LEMMA PutEffect ==
  ASSUME NEW t \in Tables, NEW at, NEW v \in Int
  PROVE  /\ Put(t, at, v) \in Tables
         /\ Put(t, at, v).pos = t.pos /\ Put(t, at, v).next = t.next
         /\ Put(t, at, v).leaf = t.leaf /\ Put(t, at, v).ok = t.ok
         /\ at \subseteq Entries => /\ Put(t, at, v).inside = t.inside
                                    /\ \A e \in Entries : Put(t, at, v).entries[e]
                                                           = IF e \in at THEN v ELSE t.entries[e]
<1>1. CASE at \subseteq Entries
  <2>1. PICK E : E = [e \in Entries |-> IF e \in at THEN v ELSE t.entries[e]]
    OBVIOUS
  <2>2. E \in [Entries -> Int]
    BY <2>1 DEF Tables
  <2>3. Put(t, at, v) = [t EXCEPT !.entries = E]
    BY <1>1, <2>1 DEF Put, Tables
  <2>4. QED  BY <2>1, <2>2, <2>3 DEF Tables
<1>2. CASE ~ (at \subseteq Entries)
  <2>1. Put(t, at, v) = [t EXCEPT !.inside = FALSE]
    BY <1>2 DEF Put
  <2>2. QED  BY <1>2, <2>1 DEF Tables
<1>3. QED  BY <1>1, <1>2

LEMMA NewTableTyped ==
  /\ NewTable \in Tables /\ NewTable.ok /\ NewTable.inside
  /\ NewTable.pos = 0 /\ NewTable.next = FirstNode
<1>1. 0 \in Entries
  BY TableSizes, HuffmanSizes DEF Entries
<1>2. [e \in Entries |-> Unwritten] \in [Entries -> Int]
  BY DEF Unwritten
<1>3. QED  BY <1>1, <1>2, TableSizes DEF NewTable, Tables

LEMMA SplitEffect ==
  ASSUME NEW t \in Tables
  PROVE  /\ Split(t) \in Tables /\ Split(t).pos = t.pos /\ Split(t).ok = t.ok
         /\ Split(t).leaf = t.leaf
<1>1. CASE t.entries[t.leaf] # Unused
  BY <1>1 DEF Split
<1>2. CASE t.entries[t.leaf] = Unused
  <2>1. PICK u : u = Put(t, {2 * t.next, 2 * t.next + 1}, Unused)
    OBVIOUS
  <2>2. u \in Tables /\ u.pos = t.pos /\ u.ok = t.ok /\ u.leaf = t.leaf
    BY <2>1, PutEffect DEF Unused
  <2>3. PICK y : y = Put(u, {t.leaf}, t.next)
    OBVIOUS
  <2>4. t.next \in Int
    BY DEF Tables
  <2>5. y \in Tables /\ y.pos = t.pos /\ y.ok = t.ok /\ y.leaf = t.leaf
    BY <2>2, <2>3, <2>4, PutEffect
  <2>6. Split(t) = [y EXCEPT !.next = @ + 1]
    BY <1>2, <2>1, <2>3 DEF Split
  <2>7. QED  BY <2>5, <2>6 DEF Tables
<1>3. QED  BY <1>1, <1>2

LEMMA FollowEffect ==
  ASSUME NEW t \in Tables, NEW bit
  PROVE  /\ Follow(t, bit) \in Tables /\ Follow(t, bit).pos = t.pos /\ Follow(t, bit).ok = t.ok
<1>1. PICK leaf : leaf = 2 * t.entries[t.leaf] + bit
  OBVIOUS
<1>2. \/ leaf \in Entries /\ Follow(t, bit) = [t EXCEPT !.leaf = leaf]
      \/ Follow(t, bit) = [t EXCEPT !.inside = FALSE]
  BY <1>1 DEF Follow
<1>3. QED  BY <1>2 DEF Tables

LEMMA DivQuotient ==
  ASSUME NEW w \in Nat, NEW r \in Nat, r > 0
  PROVE  w \div r \in Nat /\ Quotient(w, r, w \div r)
<1>1. w \div r \in Int /\ w % r \in 0..(r - 1) /\ w = r * (w \div r) + (w % r)
  OBVIOUS
<1>2. w \div r \in Nat
  OBVIOUS
<1>3. PICK q \in Nat, m \in 0..(r - 1), z \in Nat : q = w \div r /\ w = z + m /\ z = q * r
  BY <1>1, <1>2
<1>4. w \in z..(z + r - 1)
  BY <1>3
<1>5. QED  BY <1>3, <1>4 DEF Quotient

(* Powers of sums, and what they are good for.                             *)
LEMMA PowerTimes ==
  ASSUME NEW d \in 0..Most, NEW m \in d..Most
  PROVE  Power(d) * Power(m - d) = Power(m) /\ m - d \in 0..Most /\ m \in 0..Most
<1> DEFINE P == {k \in 0..(Most - d) : Power(d) * Power(k) = Power(d + k)}
<1>0. d \in Nat /\ Most - d \in Nat /\ Power(d) \in Nat
  BY HuffmanSizes, PowerFacts
<1>1. 0 \in P
  BY <1>0, PowerFacts, Times
<1>2. ASSUME NEW k \in 1..(Most - d), k - 1 \in P PROVE k \in P
  <2>1. PICK j \in Nat : j = k - 1 /\ k \in 0..(Most - d) /\ k \in 1..Most /\ d + k \in 1..Most
                         /\ (d + k) - 1 = d + j /\ j \in 0..Most
    BY <1>0, HuffmanSizes
  <2>2. Power(k) = 2 * Power(j) /\ Power(d + k) = 2 * Power(d + j) /\ Power(j) \in Nat
    BY <2>1, PowerFacts
  <2>3. Power(d) * (2 * Power(j)) = 2 * (Power(d) * Power(j))
    BY <1>0, <2>2, Times
  <2>4. QED  BY <1>2, <2>1, <2>2, <2>3
<1>3. \A k \in 0..(Most - d) : k \in P
  <2>1. \A k \in 1..(Most - d) : k - 1 \in P => k \in P
    BY ONLY <1>2
  <2> HIDE DEF P
  <2>2. QED  BY <1>0, <1>1, <2>1, BoundedInduction
<1>4. m - d \in 0..(Most - d) /\ d + (m - d) = m /\ m - d \in 0..Most /\ m \in 0..Most
  BY <1>0, HuffmanSizes
<1>5. QED  BY <1>3, <1>4

LEMMA TimesLess ==
  ASSUME NEW a \in Nat, NEW b \in Nat, NEW r \in Nat, a * r < b * r
  PROVE  a < b
<1>1. ~ (b <= a)
  <2>1. SUFFICES ASSUME b <= a PROVE FALSE
    OBVIOUS
  <2>2. b * r <= a * r
    BY <2>1, TimesMonotone
  <2>3. a * r \in Nat /\ b * r \in Nat
    BY Times
  <2>4. QED  BY <2>2, <2>3
<1>2. QED  BY <1>1

-----------------------------------------------------------------------------
(* The loops take the codes one by one. G holds what is true of a table    *)
(* with the codes of length n below c entered.                             *)
TakesCodes(G, n) ==
  \A u : \A s \in OfLength(n) : <<u, n, Code(s)>> \in G => <<Enter(u, s), n, Code(s) + 1>> \in G

LEMMA WithLengthKeeps ==
  ASSUME LensOK, NEW G, NEW n \in 1..MaxLen, NEW t, <<t, n, FirstCode(n)>> \in G, TakesCodes(G, n)
  PROVE  <<WithLength(t, n), n, FirstFree(n)>> \in G
<1>1. PICK w : /\ w[0] = t /\ WithLength(t, n) = w[NumSyms]
               /\ \A k \in 1..NumSyms :
                    w[k] = IF lens[k - 1] = n THEN Enter(w[k - 1], k - 1) ELSE w[k - 1]
  BY WithLengthTurns
<1> DEFINE Rank(k) == Cardinality(Prefix(OfLength(n), k))
           P == {k \in 0..NumSyms : <<w[k], n, FirstCode(n) + Rank(k)>> \in G}
<1>2. n \in Nat /\ n > 0 /\ FirstCode(n) \in Nat /\ OfLength(n) \in SUBSET Syms
  BY HuffmanSizes, FirstFreeFacts, ManyFacts
<1>3. 0 \in P
  <2>1. Rank(0) = 0 /\ 0 \in 0..NumSyms
    BY <1>2, PrefixEnds, HuffmanSizes
  <2>2. FirstCode(n) + Rank(0) = FirstCode(n)
    BY <1>2, <2>1
  <2>3. QED  BY <1>1, <2>1, <2>2
<1>4. ASSUME NEW k \in 1..NumSyms, k - 1 \in P PROVE k \in P
  <2>1. PICK s \in Syms : s = k - 1 /\ k = s + 1 /\ k \in 0..NumSyms /\ s \in Nat
    BY HuffmanSizes DEF Syms
  <2>2. w[k] = IF lens[s] = n THEN Enter(w[s], s) ELSE w[s]
    BY <1>1, <2>1
  <2>3. <<w[s], n, FirstCode(n) + Rank(s)>> \in G
    BY <1>4, <2>1
  <2>4. /\ Rank(s) \in Nat
        /\ s \in OfLength(n) => Rank(k) = Rank(s) + 1
        /\ s \notin OfLength(n) => Rank(k) = Rank(s)
    BY <1>2, <2>1, PrefixGrows
  <2>5. s \in OfLength(n) <=> lens[s] = n
    BY <1>2 DEF OfLength
  <2> HIDE DEF Rank
  <2>6. CASE lens[s] = n
    <3>1. Code(s) = FirstCode(n) + Rank(s)
      BY <2>6 DEF Code, Earlier, Rank, Prefix
    <3>2. FirstCode(n) + Rank(k) = Code(s) + 1
      BY <1>2, <2>4, <2>5, <2>6, <3>1
    <3>3. <<Enter(w[s], s), n, Code(s) + 1>> \in G
      BY <2>3, <2>5, <2>6, <3>1 DEF TakesCodes
    <3>4. QED  BY <2>1, <2>2, <2>6, <3>2, <3>3
  <2>7. CASE lens[s] # n
    BY <2>1, <2>2, <2>3, <2>4, <2>5, <2>7
  <2>8. QED  BY <2>6, <2>7
<1>5. NumSyms \in P
  <2>1. \A k \in 1..NumSyms : k - 1 \in P => k \in P
    BY ONLY <1>4
  <2> HIDE DEF P
  <2>2. \A k \in 0..NumSyms : k \in P
    BY <1>3, <2>1, HuffmanSizes, BoundedInduction
  <2>3. QED  BY <2>2, HuffmanSizes
<1>6. Rank(NumSyms) = Many(n)
  BY <1>2, PrefixEnds DEF Many
<1>7. QED  BY <1>1, <1>5, <1>6 DEF FirstFree

LEMMA LoopsKeep ==
  ASSUME LensOK, NEW G, NEW lo \in 0..MaxLen, NEW hi \in lo..MaxLen, NEW t,
         <<t, lo, FirstFree(lo)>> \in G,
         \A n \in (lo + 1)..hi :
           /\ TakesCodes(G, n)
           /\ \A u : <<u, n - 1, FirstFree(n - 1)>> \in G => <<u, n, FirstCode(n)>> \in G
  PROVE  <<WithLengths(t, lo, hi), hi, FirstFree(hi)>> \in G
<1>0. lo \in Nat /\ hi \in Nat /\ lo <= hi /\ hi <= MaxLen /\ MaxLen \in Nat
  BY HuffmanSizes
<1>1. PICK w : /\ w[0] = t /\ WithLengths(t, lo, hi) = w[hi]
               /\ \A k \in 1..hi : w[k] = IF k <= lo THEN t ELSE WithLength(w[k - 1], k)
  <2>1. lo \in Nat /\ hi \in Nat
    BY <1>0
  <2>2. QED  BY ONLY <2>1, WithLengthsTurns
<1> DEFINE P == {k \in 0..hi : IF k <= lo THEN w[k] = t ELSE <<w[k], k, FirstFree(k)>> \in G}
<1>2. 0 \in P
  BY <1>0, <1>1
<1>3. ASSUME NEW k \in 1..hi, k - 1 \in P PROVE k \in P
  <2>1. PICK j \in Nat : j = k - 1 /\ k = j + 1 /\ k \in 0..hi /\ k \in Nat
    BY <1>0
  <2>2. CASE k <= lo
    BY <1>1, <2>1, <2>2
  <2>3. CASE ~ (k <= lo)
    <3>1. k \in (lo + 1)..hi /\ k \in 1..MaxLen
      BY <1>0, <2>1, <2>3
    <3>2. <<w[j], j, FirstFree(j)>> \in G
      <4>1. j <= lo => j = lo
        BY <1>0, <2>1, <2>3
      <4>2. QED  BY <1>3, <2>1, <4>1
    <3>3. <<w[j], k, FirstCode(k)>> \in G /\ TakesCodes(G, k)
      BY <2>1, <3>1, <3>2
    <3>4. w[k] = WithLength(w[j], k)
      BY <1>1, <2>1, <2>3
    <3>5. <<w[k], k, FirstFree(k)>> \in G
      BY <3>1, <3>3, <3>4, WithLengthKeeps
    <3>6. QED  BY <2>1, <2>3, <3>5
  <2>4. QED  BY <2>2, <2>3
<1>4. hi \in P
  <2>1. \A k \in 1..hi : k - 1 \in P => k \in P
    BY ONLY <1>3
  <2> HIDE DEF P
  <2>2. \A k \in 0..hi : k \in P
    BY <1>0, <1>2, <2>1, BoundedInduction
  <2>3. QED  BY <1>0, <2>2
<1>5. hi <= lo => hi = lo
  BY <1>0
<1>6. QED  BY <1>1, <1>4, <1>5

-----------------------------------------------------------------------------
(* Symbol v is the answer wherever d bits are those of p.                  *)
Right(v, d, p) ==
  v \in Used /\ lens[v] <= d /\ Quotient(p, Power(d - lens[v]), Code(v))

(* The short codes fill the table from its start.                          *)
ShortInv(t, n, c) ==
  t.ok => /\ t.inside /\ t.next = FirstNode
          /\ t.pos = c * Power(TableBits - n) /\ t.pos <= TableMask
          /\ \A e \in 0..(t.pos - 1) : Right(t.entries[e], TableBits, e)
ShortSet == {y \in Tables \X Nat \X Nat : ShortInv(y[1], y[2], y[3])}

LEMMA InShortSet ==
  ASSUME NEW t, NEW n, NEW c
  PROVE  <<t, n, c>> \in ShortSet <=> t \in Tables /\ n \in Nat /\ c \in Nat /\ ShortInv(t, n, c)
BY DEF ShortSet

LEMMA TwiceTimes ==
  ASSUME NEW a \in Nat, NEW r \in Nat
  PROVE  (2 * a) * r = a * (2 * r)
OBVIOUS

LEMMA ShortTakes ==
  ASSUME LensOK, NEW n \in 1..TableBits
  PROVE  TakesCodes(ShortSet, n)
<1> SUFFICES ASSUME NEW u, NEW s \in OfLength(n), <<u, n, Code(s)>> \in ShortSet
             PROVE  <<Enter(u, s), n, Code(s) + 1>> \in ShortSet
  BY DEF TakesCodes
<1>0. n \in Nat /\ n > 0 /\ n <= TableBits /\ TableBits - n \in 0..Most
  BY TableSizes, HuffmanSizes
<1>1. s \in Used /\ s \in Syms /\ s \in Int /\ lens[s] = n
  BY <1>0, HuffmanSizes DEF OfLength, Used, Syms
<1>2. u \in Tables /\ ShortInv(u, n, Code(s)) /\ Code(s) \in Nat
  BY InShortSet
<1>3. PICK r \in Nat, c \in Nat : r = Power(TableBits - n) /\ r >= 1 /\ c = Code(s)
  BY <1>0, <1>2, PowerFacts
<1>4. Enter(u, s) = ShortCode(u, s)
  BY <1>0, <1>1 DEF Enter
<1>5. SUFFICES ShortCode(u, s) \in Tables /\ ShortInv(ShortCode(u, s), n, c + 1)
  <2>1. c + 1 \in Nat
    OBVIOUS
  <2>2. QED  BY <1>0, <1>3, <1>4, <1>5, <2>1, InShortSet
<1>6. PICK end : end = u.pos + r
  OBVIOUS
<1>7. ShortCode(u, s) = IF ~u.ok \/ end > TableMask THEN [u EXCEPT !.ok = FALSE]
                        ELSE [Put(u, u.pos..(end - 1), s) EXCEPT !.pos = end]
  BY <1>1, <1>3, <1>6 DEF ShortCode
<1>8. CASE ~u.ok \/ end > TableMask
  <2>1. ShortCode(u, s) = [u EXCEPT !.ok = FALSE]
    BY <1>7, <1>8
  <2>2. ShortCode(u, s) \in Tables /\ ~ShortCode(u, s).ok
    BY <1>2, <2>1 DEF Tables
  <2>3. QED  BY <2>2 DEF ShortInv
<1>9. CASE ~(~u.ok \/ end > TableMask)
  <2>1. /\ u.ok /\ u.inside /\ u.next = FirstNode /\ u.pos = c * r
        /\ \A e \in 0..(u.pos - 1) : Right(u.entries[e], TableBits, e)
    BY <1>2, <1>3, <1>9 DEF ShortInv
  <2>2. u.pos \in Nat /\ end \in Nat /\ end <= TableMask
    <3>1. u.pos \in Nat
      BY <1>2 DEF Tables
    <3>2. QED  BY <1>3, <1>6, <1>9, <3>1, TableSizes
  <2>3. PICK S : S = u.pos..(end - 1) /\ S \subseteq Entries
    <3>1. u.pos..(end - 1) \subseteq Entries
      BY <2>2, TableSizes, HuffmanSizes DEF Entries
    <3>2. QED  BY <3>1
  <2>4. PICK v : v = Put(u, S, s)
    OBVIOUS
  <2>5. /\ v \in Tables /\ v.inside /\ v.ok /\ v.next = FirstNode
        /\ \A e \in Entries : v.entries[e] = IF e \in u.pos..(end - 1) THEN s ELSE u.entries[e]
    <3>1. /\ v \in Tables /\ v.ok = u.ok /\ v.next = u.next /\ v.inside = u.inside
          /\ \A e \in Entries : v.entries[e] = IF e \in S THEN s ELSE u.entries[e]
      <4>1. u \in Tables /\ s \in Int
        BY <1>1, <1>2
      <4>2. S \subseteq Entries
        BY <2>3
      <4>3. QED  BY ONLY <2>4, <4>1, <4>2, PutEffect
    <3>2. QED  BY <2>1, <2>3, <3>1
  <2>6. PICK w : w = [v EXCEPT !.pos = end]
    OBVIOUS
  <2>7. /\ w \in Tables /\ w.inside /\ w.next = FirstNode /\ w.pos = end
        /\ w.entries = v.entries
    BY <2>2, <2>5, <2>6 DEF Tables
  <2>8. end = (c + 1) * r
    <3>1. (c + 1) * r = c * r + r
      BY Times
    <3>2. QED  BY <1>6, <2>1, <3>1
  <2>9. ASSUME NEW e \in 0..(end - 1) PROVE Right(w.entries[e], TableBits, e)
    <3>1. e \in Entries /\ e \in Nat
      BY <2>2, TableSizes, HuffmanSizes DEF Entries
    <3>2. CASE e \in u.pos..(end - 1)
      <4>1. w.entries[e] = s
        BY <2>5, <2>7, <3>1, <3>2
      <4>2. e \in (c * r)..(c * r + r - 1)
        BY <1>6, <2>1, <3>2
      <4>3. Quotient(e, Power(TableBits - lens[s]), Code(s))
        BY <1>1, <1>3, <4>2 DEF Quotient
      <4>4. QED  BY <1>0, <1>1, <4>1, <4>3 DEF Right
    <3>3. CASE ~(e \in u.pos..(end - 1))
      <4>1. e \in 0..(u.pos - 1)
        BY <2>2, <3>1, <3>3
      <4>2. w.entries[e] = u.entries[e]
        BY <2>5, <2>7, <3>1, <3>3
      <4>3. QED  BY <2>1, <4>1, <4>2
    <3>4. QED  BY <3>2, <3>3
  <2>10. ShortCode(u, s) = w
    BY <1>7, <1>9, <2>3, <2>4, <2>6
  <2>11. ShortInv(w, n, c + 1)
    BY <1>3, <2>2, <2>7, <2>8, <2>9 DEF ShortInv
  <2>12. QED  BY <2>7, <2>10, <2>11
<1>10. QED  BY <1>8, <1>9

(* From one length to the next only the unit changes.                      *)
LEMMA NextUnit ==
  ASSUME NEW b \in 0..Most, NEW n \in 1..b
  PROVE  FirstFree(n - 1) * Power(b - (n - 1)) = FirstCode(n) * Power(b - n)
<1>1. n \in 1..Most /\ n - 1 \in 0..Most /\ b - n \in 0..Most
      /\ b - (n - 1) \in 1..Most /\ (b - (n - 1)) - 1 = b - n
  BY HuffmanSizes
<1>2. PICK k : k = b - (n - 1)
  OBVIOUS
<1>3. k \in 1..Most /\ k - 1 = b - n
  BY <1>1, <1>2
<1>4. Power(k) = 2 * Power(k - 1)
  BY <1>3, PowerFacts
<1>5. PICK f \in Nat, r \in Nat : /\ f = FirstFree(n - 1) /\ FirstCode(n) = 2 * f
                                  /\ r = Power(b - n) /\ Power(b - (n - 1)) = 2 * r
  BY <1>1, <1>2, <1>3, <1>4, FirstFreeFacts, PowerFacts
<1>6. QED  BY <1>5, TwiceTimes

LEMMA ShortTable ==
  ASSUME LensOK, NEW t, t = WithLengths(NewTable, 0, TableBits)
  PROVE  t \in Tables /\ ShortInv(t, TableBits, FirstFree(TableBits))
<1>1. <<NewTable, 0, FirstFree(0)>> \in ShortSet
  <2>1. 0 * Power(TableBits - 0) = 0
    BY TableSizes, PowerFacts, Times
  <2>2. ShortInv(NewTable, 0, 0)
    BY <2>1, NewTableTyped, TableSizes DEF ShortInv
  <2>3. QED  BY <2>2, NewTableTyped, FirstFreeFacts, InShortSet
<1>2. ASSUME NEW n \in (0 + 1)..TableBits
      PROVE  /\ TakesCodes(ShortSet, n)
             /\ \A u : <<u, n - 1, FirstFree(n - 1)>> \in ShortSet
                         => <<u, n, FirstCode(n)>> \in ShortSet
  <2>1. n \in 1..TableBits /\ n \in Nat /\ n \in 0..Most
    BY TableSizes, HuffmanSizes
  <2>2. ASSUME NEW u, <<u, n - 1, FirstFree(n - 1)>> \in ShortSet
        PROVE  <<u, n, FirstCode(n)>> \in ShortSet
    <3>1. u \in Tables /\ ShortInv(u, n - 1, FirstFree(n - 1))
      BY <2>2, InShortSet
    <3>2. FirstCode(n) \in Nat
      BY <2>1, FirstFreeFacts
    <3>3. ShortInv(u, n, FirstCode(n))
      BY <2>1, <3>1, NextUnit, TableSizes DEF ShortInv
    <3>4. QED  BY <2>1, <3>1, <3>2, <3>3, InShortSet
  <2>3. QED  BY <2>1, <2>2, ShortTakes
<1>3. 0 \in 0..MaxLen /\ TableBits \in 0..MaxLen
  BY TableSizes, HuffmanSizes
<1>4. <<t, TableBits, FirstFree(TableBits)>> \in ShortSet
  BY <1>1, <1>2, <1>3, LoopsKeep
<1>5. QED  BY <1>4, InShortSet

-----------------------------------------------------------------------------
(* A long code moves pos on, whatever becomes of its path.                 *)
LEMMA PathStarts ==
  ASSUME NEW t \in Tables, t.pos <= Power(MaxLen),
         NEW v, v = [t EXCEPT !.leaf = t.pos \div Power(Shift)]
  PROVE  /\ v \in Tables /\ v.leaf \in Nat /\ Quotient(t.pos, Power(Shift), v.leaf)
         /\ v.leaf = t.pos \div Power(Shift)
         /\ v.pos = t.pos /\ v.ok = t.ok /\ v.inside = t.inside /\ v.next = t.next
         /\ v.entries = t.entries
<1>0. /\ Shift \in 0..Most /\ t.pos \in Nat
      /\ TableMask * Power(Shift) = Power(MaxLen)
  <2>1. MaxLen \in TableBits..Most
    BY TableSizes, HuffmanSizes
  <2>2. Power(TableBits) * Power(Shift) = Power(MaxLen)
    BY <2>1, TableSizes, PowerTimes
  <2>3. QED  BY <2>2, TableSizes, HuffmanSizes DEF Tables
<1>1. PICK r \in Nat : r = Power(Shift) /\ r > 0
  BY <1>0, PowerFacts
<1>2. PICK leaf : leaf = t.pos \div r
  OBVIOUS
<1>3. leaf \in Nat /\ Quotient(t.pos, r, leaf)
  BY <1>0, <1>1, <1>2, DivQuotient
<1>4. leaf <= TableMask
  <2>1. SUFFICES ASSUME TableMask < leaf PROVE FALSE
    BY <1>3, TableSizes
  <2>2. TableMask + 1 <= leaf /\ TableMask \in Nat /\ TableMask + 1 \in Nat
    BY <1>3, <2>1, TableSizes
  <2>3. (TableMask + 1) * r <= leaf * r
    BY <1>1, <1>3, <2>2, TimesMonotone
  <2>4. (TableMask + 1) * r = TableMask * r + r /\ leaf * r \in Nat /\ TableMask * r \in Nat
    BY <1>1, <1>3, <2>2, Times
  <2>5. leaf * r <= t.pos /\ t.pos <= TableMask * r
    BY <1>0, <1>1, <1>3, <2>4 DEF Quotient
  <2>6. QED  BY ONLY <1>0, <1>1, <2>3, <2>4, <2>5
<1>5. leaf \in Entries
  BY <1>3, <1>4, TableSizes, HuffmanSizes DEF Entries
<1>6. v = [t EXCEPT !.leaf = leaf]
  BY <1>1, <1>2
<1>7. QED  BY <1>1, <1>2, <1>3, <1>5, <1>6 DEF Tables

LEMMA PathEffect ==
  ASSUME NEW t \in Tables, t.pos <= Power(MaxLen), NEW n \in Nat
  PROVE  Path(t, n) \in Tables /\ Path(t, n).pos = t.pos /\ Path(t, n).ok = t.ok
<1>1. PICK w : /\ w[0] = [t EXCEPT !.leaf = t.pos \div Power(Shift)] /\ Path(t, n) = w[n]
               /\ \A k \in 1..n : w[k] = Follow(Split(w[k - 1]), (t.pos \div Power(Shift - k)) % 2)
  BY PathTurns
<1> DEFINE P == {k \in 0..n : w[k] \in Tables /\ w[k].pos = t.pos /\ w[k].ok = t.ok}
<1>2. 0 \in P
  <2>1. w[0] \in Tables /\ w[0].pos = t.pos /\ w[0].ok = t.ok
    BY <1>1, PathStarts
  <2>2. QED  BY <2>1
<1>3. ASSUME NEW k \in 1..n, k - 1 \in P PROVE k \in P
  <2>1. PICK u \in Tables : u = w[k - 1] /\ u.pos = t.pos /\ u.ok = t.ok
    BY <1>3
  <2>2. PICK y : y = Split(u)
    OBVIOUS
  <2>3. y \in Tables /\ y.pos = t.pos /\ y.ok = t.ok
    BY <2>1, <2>2, SplitEffect
  <2>4. w[k] = Follow(y, (t.pos \div Power(Shift - k)) % 2)
    BY <1>1, <2>1, <2>2
  <2>5. w[k] \in Tables /\ w[k].pos = t.pos /\ w[k].ok = t.ok
    BY <2>3, <2>4, FollowEffect
  <2>6. QED  BY <2>5
<1>4. n \in P
  <2>1. \A k \in 1..n : k - 1 \in P => k \in P
    BY ONLY <1>3
  <2> HIDE DEF P
  <2>2. \A k \in 0..n : k \in P
    BY <1>2, <2>1, BoundedInduction
  <2>3. QED  BY <2>2
<1>5. QED  BY <1>1, <1>4

LEMMA LongCodeEffect ==
  ASSUME NEW t \in Tables, t.ok, t.pos <= Power(MaxLen), NEW s \in Syms,
         lens[s] \in (TableBits + 1)..MaxLen, NEW p, p = Path(t, lens[s] - TableBits),
         NEW end, end = t.pos + Power(MaxLen - lens[s])
  PROVE  /\ p \in Tables /\ end \in Nat
         /\ LongCode(t, s) \in Tables /\ LongCode(t, s).pos = end
         /\ LongCode(t, s).ok = (end <= Power(MaxLen))
         /\ LongCode(t, s).inside = p.inside /\ LongCode(t, s).next = p.next
         /\ \A e \in Entries : LongCode(t, s).entries[e] = IF e = p.leaf THEN s ELSE p.entries[e]
<1>0. lens[s] - TableBits \in Nat /\ MaxLen - lens[s] \in 0..Most /\ s \in Int /\ t.pos \in Nat
  BY TableSizes, HuffmanSizes DEF Syms, Tables
<1>1. p \in Tables
  BY <1>0, PathEffect
<1>2. end \in Nat
  BY <1>0, PowerFacts
<1>3. PICK v : v = Put(p, {p.leaf}, s)
  OBVIOUS
<1>4. PICK at : at = {p.leaf} /\ at \subseteq Entries
  <2>1. p.leaf \in Entries
    BY ONLY <1>1 DEF Tables
  <2>2. QED  BY <2>1
<1>5. /\ v \in Tables /\ v.inside = p.inside /\ v.next = p.next
      /\ \A e \in Entries : v.entries[e] = IF e \in at THEN s ELSE p.entries[e]
  <2>1. v = Put(p, at, s) /\ s \in Int
    BY <1>0, <1>3, <1>4
  <2>2. QED  BY ONLY <1>1, <1>4, <2>1, PutEffect
<1>6. LongCode(t, s) = [v EXCEPT !.pos = end, !.ok = end <= Power(MaxLen)]
  BY <1>3 DEF LongCode
<1>7. (end <= Power(MaxLen)) \in BOOLEAN
  OBVIOUS
<1>8. PICK w : w = [v EXCEPT !.pos = end, !.ok = end <= Power(MaxLen)]
  OBVIOUS
<1>9. /\ w \in Tables /\ w.pos = end /\ w.ok = (end <= Power(MaxLen)) /\ w.inside = p.inside
      /\ w.next = p.next /\ w.entries = v.entries
  BY <1>2, <1>5, <1>7, <1>8 DEF Tables
<1>10. \A e \in Entries : w.entries[e] = IF e = p.leaf THEN s ELSE p.entries[e]
  BY <1>4, <1>5, <1>9
<1>11. QED  BY <1>1, <1>2, <1>3, <1>6, <1>8, <1>9, <1>10

(* pos counts the codes, up to the end of the code space.                  *)
LongPos(t, n, c) == t.ok => t.pos = c * Power(MaxLen - n) /\ t.pos <= Power(MaxLen)
PosSet == {y \in Tables \X Nat \X Nat : LongPos(y[1], y[2], y[3])}

LEMMA InPosSet ==
  ASSUME NEW t, NEW n, NEW c
  PROVE  <<t, n, c>> \in PosSet <=> t \in Tables /\ n \in Nat /\ c \in Nat /\ LongPos(t, n, c)
BY DEF PosSet

LEMMA LongTakes ==
  ASSUME LensOK, NEW n \in (TableBits + 1)..MaxLen
  PROVE  TakesCodes(PosSet, n)
<1> SUFFICES ASSUME NEW u, NEW s \in OfLength(n), <<u, n, Code(s)>> \in PosSet
             PROVE  <<Enter(u, s), n, Code(s) + 1>> \in PosSet
  BY DEF TakesCodes
<1>0. n \in Nat /\ n > 0 /\ n > TableBits /\ MaxLen - n \in 0..Most
  BY TableSizes, HuffmanSizes
<1>1. s \in Syms /\ lens[s] = n
  BY <1>0 DEF OfLength
<1>2. u \in Tables /\ LongPos(u, n, Code(s)) /\ Code(s) \in Nat
  BY InPosSet
<1>3. Enter(u, s) = LongCode(u, s)
  BY <1>0, <1>1, TableSizes DEF Enter
<1>4. SUFFICES LongCode(u, s) \in Tables /\ LongPos(LongCode(u, s), n, Code(s) + 1)
  <2>1. Code(s) + 1 \in Nat
    BY <1>2
  <2>2. QED  BY <1>0, <1>3, <1>4, <2>1, InPosSet
<1>5. CASE ~u.ok
  <2>1. LongCode(u, s) = u
    BY <1>5 DEF LongCode
  <2>2. QED  BY <1>2, <1>5, <2>1 DEF LongPos
<1>6. CASE u.ok
  <2>1. PICK r \in Nat, c \in Nat : r = Power(MaxLen - n) /\ c = Code(s)
    BY <1>0, <1>2, PowerFacts
  <2>2. u.pos = c * r /\ u.pos <= Power(MaxLen)
    BY <1>2, <1>6, <2>1 DEF LongPos
  <2>3. PICK w : w = LongCode(u, s)
    OBVIOUS
  <2>4. w \in Tables /\ w.pos = u.pos + r /\ w.ok = (u.pos + r <= Power(MaxLen))
    <3>1. lens[s] \in (TableBits + 1)..MaxLen /\ r = Power(MaxLen - lens[s])
      BY <1>1, <2>1
    <3>2. PICK p, end : p = Path(u, lens[s] - TableBits) /\ end = u.pos + Power(MaxLen - lens[s])
      OBVIOUS
    <3>3. w \in Tables /\ w.pos = end /\ w.ok = (end <= Power(MaxLen))
      <4>1. u \in Tables /\ u.ok /\ u.pos <= Power(MaxLen)
        BY <1>2, <1>6, <2>2
      <4>2. s \in Syms /\ lens[s] \in (TableBits + 1)..MaxLen
        BY <1>1, <3>1
      <4>3. LongCode(u, s) \in Tables /\ LongCode(u, s).pos = end
            /\ LongCode(u, s).ok = (end <= Power(MaxLen))
        BY ONLY <4>1, <4>2, <3>2, LongCodeEffect
      <4>4. QED  BY <2>3, <4>3
    <3>4. QED  BY <3>1, <3>2, <3>3
  <2>5. (c + 1) * r = c * r + r
    BY Times
  <2>6. QED  BY <2>1, <2>2, <2>3, <2>4, <2>5 DEF LongPos
<1>7. QED  BY <1>5, <1>6

(* Where the loops end.                                                    *)
LEMMA LongEnd ==
  ASSUME LensOK, NEW t \in Tables, LongPos(t, TableBits, FirstFree(TableBits))
  PROVE  /\ WithLengths(t, TableBits, MaxLen) \in Tables
         /\ LongPos(WithLengths(t, TableBits, MaxLen), MaxLen, FirstFree(MaxLen))
<1>1. <<t, TableBits, FirstFree(TableBits)>> \in PosSet
  BY TableSizes, FirstFreeFacts, InPosSet
<1>2. ASSUME NEW n \in (TableBits + 1)..MaxLen
      PROVE  /\ TakesCodes(PosSet, n)
             /\ \A u : <<u, n - 1, FirstFree(n - 1)>> \in PosSet
                         => <<u, n, FirstCode(n)>> \in PosSet
  <2>1. n \in 1..MaxLen /\ n \in Nat /\ n \in 0..Most /\ MaxLen \in 0..Most
    BY TableSizes, HuffmanSizes
  <2>2. ASSUME NEW u, <<u, n - 1, FirstFree(n - 1)>> \in PosSet
        PROVE  <<u, n, FirstCode(n)>> \in PosSet
    <3>1. u \in Tables /\ LongPos(u, n - 1, FirstFree(n - 1))
      BY <2>2, InPosSet
    <3>2. FirstCode(n) \in Nat
      BY <2>1, FirstFreeFacts
    <3>3. LongPos(u, n, FirstCode(n))
      BY <2>1, <3>1, NextUnit DEF LongPos
    <3>4. QED  BY <2>1, <3>1, <3>2, <3>3, InPosSet
  <2>3. QED  BY <2>2, LongTakes
<1>3. TableBits \in 0..MaxLen /\ MaxLen \in TableBits..MaxLen
  BY TableSizes, HuffmanSizes
<1>4. PICK w : w = WithLengths(t, TableBits, MaxLen)
  OBVIOUS
<1>5. <<w, MaxLen, FirstFree(MaxLen)>> \in PosSet
  BY <1>1, <1>2, <1>3, <1>4, LoopsKeep
<1>6. QED  BY <1>4, <1>5, InPosSet

-----------------------------------------------------------------------------
(* Free codes of a length are as many as there are left of longer ones.    *)
LEMMA FreeGrows ==
  ASSUME NEW d \in 0..Most, NEW m \in d..Most
  PROVE  /\ FirstFree(d) * Power(m - d) <= FirstFree(m)
         /\ d < m => FirstFree(d) * Power(m - d) <= FirstCode(m)
<1> DEFINE P == {k \in 0..(Most - d) : /\ FirstFree(d) * Power(k) <= FirstFree(d + k)
                                       /\ k > 0 => FirstFree(d) * Power(k) <= FirstCode(d + k)}
<1>0. d \in Nat /\ Most - d \in Nat /\ FirstFree(d) \in Nat
  BY HuffmanSizes, FirstFreeFacts
<1>1. 0 \in P
  <2>1. FirstFree(d) * Power(0) = FirstFree(d) /\ d + 0 = d
    BY <1>0, PowerFacts, Times
  <2>2. QED  BY <1>0, <2>1
<1>2. ASSUME NEW k \in 1..(Most - d), k - 1 \in P PROVE k \in P
  <2>1. PICK j \in Nat : j = k - 1 /\ k \in 0..(Most - d) /\ k \in 1..Most /\ d + k \in 1..Most
                         /\ (d + k) - 1 = d + j /\ j \in 0..Most /\ d + k \in 0..Most
                         /\ d + j \in 0..Most
    BY <1>0, HuffmanSizes
  <2>2. Power(k) = 2 * Power(j) /\ Power(j) \in Nat
    BY <2>1, PowerFacts
  <2>3. PICK a \in Nat, b \in Nat, c \in Nat, g \in Nat :
          /\ a = FirstFree(d) * Power(j) /\ FirstFree(d) * Power(k) = 2 * a
          /\ b = FirstFree(d + j) /\ c = FirstCode(d + k) /\ g = FirstFree(d + k)
    <3>1. FirstFree(d) * (2 * Power(j)) = 2 * (FirstFree(d) * Power(j))
      BY <1>0, <2>2, Times
    <3>2. FirstFree(d) * Power(j) \in Nat
      BY <1>0, <2>2, Times
    <3>3. QED  BY <2>1, <2>2, <3>1, <3>2, FirstFreeFacts
  <2>4. c = 2 * b /\ c <= g
    BY <2>1, <2>3, FirstFreeFacts
  <2>5. a <= b
    BY <1>2, <2>1, <2>3
  <2>6. 2 * a <= c /\ 2 * a <= g
    BY <2>4, <2>5
  <2>7. QED  BY <2>1, <2>3, <2>6
<1>3. \A k \in 0..(Most - d) : k \in P
  <2>1. \A k \in 1..(Most - d) : k - 1 \in P => k \in P
    BY ONLY <1>2
  <2> HIDE DEF P
  <2>2. QED  BY <1>0, <1>1, <2>1, BoundedInduction
<1>4. m - d \in 0..(Most - d) /\ d + (m - d) = m /\ (d < m => m - d > 0)
  BY <1>0, HuffmanSizes
<1>5. PICK k : k = m - d
  OBVIOUS
<1>6. k \in P
  BY <1>3, <1>4, <1>5
<1>7. QED  BY <1>4, <1>5, <1>6

(* The codes take all of the code space.                                   *)
Full == FirstFree(MaxLen) = Power(MaxLen)

LEMMA FullFits ==
  ASSUME Full, NEW d \in 0..MaxLen
  PROVE  FirstFree(d) <= Power(d)
<1>1. d \in 0..Most /\ MaxLen \in d..Most
  BY HuffmanSizes
<1>2. PICK r \in Nat, f \in Nat, p \in Nat : /\ r = Power(MaxLen - d) /\ r > 0
                                             /\ f = FirstFree(d) /\ p = Power(d)
  <2>1. MaxLen - d \in 0..Most
    BY HuffmanSizes
  <2>2. QED  BY <1>1, <2>1, PowerFacts, FirstFreeFacts
<1>3. f * r <= p * r
  BY <1>1, <1>2, FreeGrows, PowerTimes DEF Full
<1>4. SUFFICES ASSUME p < f PROVE FALSE
  BY <1>2
<1>5. p + 1 <= f /\ p + 1 \in Nat
  BY <1>2, <1>4
<1>6. (p + 1) * r <= f * r
  BY <1>2, <1>5, TimesMonotone
<1>7. (p + 1) * r = p * r + r /\ p * r \in Nat /\ f * r \in Nat
  BY <1>2, Times
<1>8. QED  BY <1>2, <1>3, <1>6, <1>7

(* pos is behind the first d bits p.                                       *)
At(pos, d, p) == Quotient(pos, Power(MaxLen - d), p)

LEMMA OneMoreBit ==
  ASSUME NEW d \in 0..MaxLen, d < MaxLen, NEW pos \in Nat, NEW p \in Nat, At(pos, d, p),
         NEW bit, bit = (pos \div Power(MaxLen - (d + 1))) % 2
  PROVE  bit \in {0, 1} /\ At(pos, d + 1, 2 * p + bit)
<1>1. PICK k : k = MaxLen - d
  OBVIOUS
<1>2. k \in 1..Most /\ k - 1 = MaxLen - (d + 1) /\ k - 1 \in 0..Most
  BY <1>1, HuffmanSizes
<1>3. PICK r \in Nat : r = Power(k - 1) /\ r > 0 /\ Power(k) = 2 * r
  BY <1>2, PowerFacts
<1>4. PICK q \in Nat : q = pos \div r /\ Quotient(pos, r, q)
  BY <1>3, DivQuotient
<1>5. bit = q % 2 /\ bit \in {0, 1}
  BY <1>2, <1>3, <1>4
<1>6. PICK h \in Nat : q = 2 * h + bit
  <2>1. q \div 2 \in Nat /\ q = 2 * (q \div 2) + (q % 2)
    OBVIOUS
  <2>2. QED  BY <1>5, <2>1
<1>7. Quotient(pos, 2 * r, h)
  <2>1. PICK z \in Nat : z = h * r /\ h * (2 * r) = 2 * z /\ (2 * h) * r = 2 * z
                         /\ (2 * h + 1) * r = 2 * z + r
    <3>1. h * r \in Nat /\ h * (2 * r) = 2 * (h * r) /\ (2 * h) * r = h * (2 * r) /\ 2 * h \in Nat
      BY Times, TwiceTimes
    <3>2. (2 * h + 1) * r = (2 * h) * r + r
      BY <3>1, Times
    <3>3. QED  BY <3>1, <3>2
  <2>2. bit = 0 \/ bit = 1
    BY <1>5
  <2>3. CASE bit = 0
    <3>1. q * r = 2 * z
      BY <1>6, <2>1, <2>3
    <3>2. pos \in (2 * z)..(2 * z + r - 1)
      BY <1>4, <3>1 DEF Quotient
    <3>3. pos \in (2 * z)..(2 * z + 2 * r - 1)
      BY <3>2
    <3>4. QED  BY <2>1, <3>3 DEF Quotient
  <2>4. CASE bit = 1
    <3>1. q * r = 2 * z + r
      BY <1>6, <2>1, <2>4
    <3>2. pos \in (2 * z + r)..((2 * z + r) + r - 1)
      BY <1>4, <3>1 DEF Quotient
    <3>3. pos \in (2 * z)..(2 * z + 2 * r - 1)
      BY <3>2
    <3>4. QED  BY <2>1, <3>3 DEF Quotient
  <2>5. QED  BY <2>2, <2>3, <2>4
<1>8. Quotient(pos, 2 * r, p)
  BY <1>1, <1>3 DEF At
<1>9. h = p
  <2>1. 2 * r \in Nat
    OBVIOUS
  <2>2. QED  BY <1>7, <1>8, <2>1, OneQuotient
<1>10. Quotient(pos, r, 2 * p + bit)
  BY <1>4, <1>6, <1>9
<1>11. QED  BY <1>2, <1>3, <1>5, <1>10 DEF At

-----------------------------------------------------------------------------
(* Nodes stand for beginnings of longer codes. Counted from the shortest   *)
(* to the longest, and those of a length one by one, they get different    *)
(* numbers below that of the symbols.                                      *)
SlotBase(d) == (Power(d) - FirstFree(d)) + FirstIndex(d + 1)
Slot(d, p) == SlotBase(d) + (p - FirstFree(d))

LEMMA BaseGrows ==
  ASSUME LensOK, Full, NEW d \in 0..MaxLen
  PROVE  /\ SlotBase(d) \in Nat
         /\ d < MaxLen => SlotBase(d + 1) = SlotBase(d) + (Power(d) - FirstFree(d))
<1>1. d \in Nat /\ d \in 0..Most /\ d + 1 \in Nat /\ MaxLen \in Nat
  BY HuffmanSizes
<1>2. /\ Power(d) \in Nat /\ FirstFree(d) \in Nat /\ FirstFree(d) <= Power(d)
      /\ FirstIndex(d + 1) \in Nat
  BY <1>1, PowerFacts, FirstFreeFacts, FullFits, FirstIndexFacts
<1>3. SlotBase(d) \in Nat
  BY <1>2 DEF SlotBase
<1>4. ASSUME d < MaxLen PROVE SlotBase(d + 1) = SlotBase(d) + (Power(d) - FirstFree(d))
  <2>1. PICK m \in Nat : m = d + 1 /\ m \in 1..Most /\ m - 1 = d /\ m > 0
    BY <1>1, <1>4, HuffmanSizes
  <2>2. Power(m) = 2 * Power(d) /\ FirstCode(m) = 2 * FirstFree(d)
    BY <2>1, PowerFacts, FirstFreeFacts
  <2>3. FirstIndex(m + 1) = FirstIndex(m) + Many(m) /\ FirstIndex(m) \in Nat /\ Many(m) \in Nat
    BY <2>1, FirstIndexFacts, ManyFacts
  <2>4. FirstFree(m) = 2 * FirstFree(d) + Many(m)
    BY <2>2 DEF FirstFree
  <2>5. PICK p \in Nat, f \in Nat, i \in Nat, y \in Nat :
          p = Power(d) /\ f = FirstFree(d) /\ i = FirstIndex(m) /\ y = Many(m)
    BY <1>2, <2>3
  <2>6. SlotBase(m) = (2 * p - (2 * f + y)) + (i + y)
    BY <2>2, <2>3, <2>4, <2>5 DEF SlotBase
  <2>7. SlotBase(d) = (p - f) + i
    BY <2>1, <2>5 DEF SlotBase
  <2>8. QED  BY <2>1, <2>5, <2>6, <2>7
<1>5. QED  BY <1>3, <1>4

LEMMA BaseMonotone ==
  ASSUME LensOK, Full, NEW d \in 0..MaxLen, NEW m \in 0..MaxLen, d <= m
  PROVE  SlotBase(d) <= SlotBase(m)
<1> DEFINE P == {k \in 0..(MaxLen - d) : SlotBase(d) <= SlotBase(d + k)}
<1>0. d \in Nat /\ m \in Nat /\ MaxLen - d \in Nat /\ m - d \in 0..(MaxLen - d) /\ d + (m - d) = m
  BY HuffmanSizes
<1>1. 0 \in P
  <2>1. d + 0 = d /\ SlotBase(d) \in Nat
    BY <1>0, BaseGrows
  <2>2. QED  BY <1>0, <2>1
<1>2. ASSUME NEW k \in 1..(MaxLen - d), k - 1 \in P PROVE k \in P
  <2>1. PICK j \in Nat : /\ j = d + (k - 1) /\ d + k = j + 1 /\ j \in 0..MaxLen /\ j < MaxLen
                         /\ j + 1 \in 0..MaxLen /\ k \in 0..(MaxLen - d)
    BY <1>0, HuffmanSizes
  <2>2. SlotBase(d) <= SlotBase(j)
    BY <1>2, <2>1
  <2>3. j \in 0..Most
    BY <2>1, HuffmanSizes
  <2>4. /\ SlotBase(d) \in Nat /\ SlotBase(j) \in Nat
        /\ Power(j) \in Nat /\ FirstFree(j) \in Nat /\ FirstFree(j) <= Power(j)
        /\ SlotBase(j + 1) = SlotBase(j) + (Power(j) - FirstFree(j))
    BY <2>1, <2>3, BaseGrows, PowerFacts, FirstFreeFacts, FullFits
  <2>5. SlotBase(d) <= SlotBase(j + 1)
    BY <2>2, <2>4
  <2>6. QED  BY <2>1, <2>5
<1>3. \A k \in 0..(MaxLen - d) : k \in P
  <2>1. \A k \in 1..(MaxLen - d) : k - 1 \in P => k \in P
    BY ONLY <1>2
  <2> HIDE DEF P
  <2>2. QED  BY <1>0, <1>1, <2>1, BoundedInduction
<1>4. PICK k : k = m - d
  OBVIOUS
<1>5. k \in P
  BY <1>0, <1>3, <1>4
<1>6. QED  BY <1>0, <1>4, <1>5

(* The beginnings of d bits that are not taken by a code of d bits or less.*)
Beginning(d, p) == d \in 0..(MaxLen - 1) /\ p \in Nat /\ FirstFree(d) <= p /\ p < Power(d)

LEMMA SlotFacts ==
  ASSUME LensOK, Full, NEW d, NEW p, Beginning(d, p)
  PROVE  Slot(d, p) \in 0..(NumSyms - 1)
<1>1. d \in 0..MaxLen /\ d < MaxLen /\ d \in Nat /\ d + 1 \in 0..MaxLen /\ d + 1 <= MaxLen
      /\ MaxLen \in 0..MaxLen /\ d \in 0..Most /\ MaxLen \in 0..Most /\ MaxLen \in Nat
      /\ p \in Nat /\ FirstFree(d) <= p /\ p < Power(d)
  BY HuffmanSizes DEF Beginning
<1>2. SlotBase(MaxLen) <= NumSyms
  <2>1. PICK m \in Nat : m = MaxLen + 1
    BY <1>1
  <2>2. FirstIndex(MaxLen + 1) <= NumSyms
    <3>1. CASE MaxLen > 0
      <4>1. FirstIndex(MaxLen + 1) <= Cardinality(Used) /\ FirstIndex(MaxLen + 1) \in Nat
        BY <1>1, <3>1, FirstIndexFacts
      <4>2. Cardinality(Used) <= NumSyms /\ Cardinality(Used) \in Nat
        <5>1. Used \in SUBSET Syms /\ IsFiniteSet(Syms) /\ Cardinality(Syms) = NumSyms
          BY FS_Interval, HuffmanSizes DEF Used, Syms
        <5>2. QED  BY <5>1, FS_Subset, FS_CardinalityType
      <4>3. QED  BY <4>1, <4>2, HuffmanSizes
    <3>2. QED  BY <1>1, <3>1
  <2>3. Power(MaxLen) \in Nat /\ FirstFree(MaxLen) = Power(MaxLen) /\ FirstIndex(MaxLen + 1) \in Nat
    BY <1>1, <2>1, PowerFacts, FirstIndexFacts DEF Full
  <2>4. QED  BY <2>2, <2>3 DEF SlotBase
<1>3. /\ SlotBase(d) \in Nat /\ SlotBase(d + 1) \in Nat /\ SlotBase(MaxLen) \in Nat
      /\ SlotBase(d + 1) <= SlotBase(MaxLen)
      /\ SlotBase(d + 1) = SlotBase(d) + (Power(d) - FirstFree(d))
      /\ Power(d) \in Nat /\ FirstFree(d) \in Nat
  BY <1>1, BaseGrows, BaseMonotone, PowerFacts, FirstFreeFacts
<1>4. PICK b \in Nat, c \in Nat, w \in Nat, f \in Nat :
        b = SlotBase(d) /\ c = SlotBase(d + 1) /\ w = Power(d) /\ f = FirstFree(d)
  BY <1>3
<1>5. b + (p - f) >= 0 /\ b + (p - f) < c /\ c <= NumSyms /\ b + (p - f) \in Int
  BY <1>1, <1>2, <1>3, <1>4, HuffmanSizes
<1>6. QED  BY <1>4, <1>5, HuffmanSizes DEF Slot

LEMMA SlotsDiffer ==
  ASSUME LensOK, Full, NEW d, NEW p, Beginning(d, p), NEW e, NEW q, Beginning(e, q),
         Slot(d, p) = Slot(e, q)
  PROVE  d = e /\ p = q
<1>1. ASSUME NEW i, NEW y, Beginning(i, y)
      PROVE  /\ i \in 0..MaxLen /\ i \in Nat /\ i + 1 \in 0..MaxLen /\ y \in Nat
             /\ SlotBase(i) \in Nat /\ SlotBase(i + 1) \in Nat /\ FirstFree(i) \in Nat
             /\ SlotBase(i) <= Slot(i, y) /\ Slot(i, y) < SlotBase(i + 1) /\ Slot(i, y) \in Int
             /\ Slot(i, y) = SlotBase(i) + (y - FirstFree(i))
  <2>1. i \in 0..MaxLen /\ i \in Nat /\ i + 1 \in 0..MaxLen /\ y \in Nat /\ i < MaxLen
        /\ i \in 0..Most /\ FirstFree(i) <= y /\ y < Power(i)
    BY <1>1, HuffmanSizes DEF Beginning
  <2>2. /\ SlotBase(i) \in Nat /\ SlotBase(i + 1) \in Nat
        /\ SlotBase(i + 1) = SlotBase(i) + (Power(i) - FirstFree(i))
        /\ Power(i) \in Nat /\ FirstFree(i) \in Nat
    BY <2>1, BaseGrows, PowerFacts, FirstFreeFacts
  <2>3. Slot(i, y) = SlotBase(i) + (y - FirstFree(i))
    BY DEF Slot
  <2>4. PICK b \in Nat, c \in Nat, w \in Nat, f \in Nat :
          b = SlotBase(i) /\ c = SlotBase(i + 1) /\ w = Power(i) /\ f = FirstFree(i)
    BY <2>2
  <2>5. b <= b + (y - f) /\ b + (y - f) < c
    BY <2>1, <2>2, <2>4
  <2>6. QED  BY <2>1, <2>2, <2>3, <2>4, <2>5
<1>2. ~ (d < e)
  <2>1. SUFFICES ASSUME d < e PROVE FALSE
    OBVIOUS
  <2>2. d + 1 <= e /\ d \in Nat /\ e \in Nat /\ d + 1 \in 0..MaxLen /\ e \in 0..MaxLen
    BY <1>1, <2>1
  <2>3. SlotBase(d + 1) <= SlotBase(e)
    BY <2>2, BaseMonotone
  <2>4. Slot(d, p) < SlotBase(d + 1) /\ SlotBase(e) <= Slot(e, q)
        /\ SlotBase(d + 1) \in Nat /\ SlotBase(e) \in Nat /\ Slot(d, p) \in Int /\ Slot(e, q) \in Int
    BY <1>1
  <2>5. QED  BY <2>3, <2>4
<1>3. ~ (e < d)
  <2>1. SUFFICES ASSUME e < d PROVE FALSE
    OBVIOUS
  <2>2. e + 1 <= d /\ d \in Nat /\ e \in Nat /\ e + 1 \in 0..MaxLen /\ d \in 0..MaxLen
    BY <1>1, <2>1
  <2>3. SlotBase(e + 1) <= SlotBase(d)
    BY <2>2, BaseMonotone
  <2>4. Slot(e, q) < SlotBase(e + 1) /\ SlotBase(d) <= Slot(d, p)
        /\ SlotBase(e + 1) \in Nat /\ SlotBase(d) \in Nat /\ Slot(d, p) \in Int /\ Slot(e, q) \in Int
    BY <1>1
  <2>5. QED  BY <2>3, <2>4
<1>4. d = e
  <2>1. d \in Nat /\ e \in Nat
    BY <1>1
  <2>2. QED  BY <1>2, <1>3, <2>1
<1>5. PICK b \in Nat, f \in Nat : b = SlotBase(d) /\ f = FirstFree(d)
  BY <1>1
<1>6. p \in Nat /\ q \in Nat /\ b + (p - f) = b + (q - f)
  BY <1>1, <1>4, <1>5
<1>7. p = q
  BY <1>6
<1>8. QED  BY <1>4, <1>7

(* So there are no more of them than symbols.                              *)
LEMMA BeginningsFit ==
  ASSUME LensOK, Full, NEW a \in Nat, NEW b \in Nat, a <= b, NEW D, NEW P,
         \A k \in a..b : Beginning(D[k], P[k]),
         \A k \in a..b, j \in a..b : D[k] = D[j] /\ P[k] = P[j] => k = j
  PROVE  b + 1 - a <= NumSyms
<1>1. PICK f : f = [k \in a..b |-> Slot(D[k], P[k])]
  OBVIOUS
<1>2. f \in [a..b -> 0..(NumSyms - 1)]
  BY <1>1, SlotFacts
<1>3. \A k \in a..b, j \in a..b : f[k] = f[j] => k = j
  <2>1. ASSUME NEW k \in a..b, NEW j \in a..b, f[k] = f[j] PROVE k = j
    <3>1. Beginning(D[k], P[k]) /\ Beginning(D[j], P[j])
      OBVIOUS
    <3>2. Slot(D[k], P[k]) = Slot(D[j], P[j])
      BY <1>1, <2>1
    <3>3. D[k] = D[j] /\ P[k] = P[j]
      BY <3>1, <3>2, SlotsDiffer
    <3>4. QED  BY <3>3
  <2>2. QED  BY <2>1
<1>4. PICK S, U : S = a..b /\ U = 0..(NumSyms - 1)
  OBVIOUS
<1>5. IsFiniteSet(S) /\ Cardinality(S) = b - a + 1 /\ IsFiniteSet(U) /\ Cardinality(U) = NumSyms
  BY <1>4, FS_Interval, HuffmanSizes
<1>6. ~ (Cardinality(U) < Cardinality(S))
  <2>1. f \in [S -> U] /\ \A k, j \in S : k # j => f[k] # f[j]
    BY <1>2, <1>3, <1>4
  <2>2. QED  BY <1>5, <2>1, FS_PigeonHole
<1>7. QED  BY <1>5, <1>6, HuffmanSizes

-----------------------------------------------------------------------------
(* The tree behind the table. nx is the next node's number, and the        *)
(* entries in use are those of the table and two for each node. dep and    *)
(* pre tell by how many and by which bits an entry is reached.             *)
Live(nx) == 0..(2 * nx - 1)
NodesTo(nx) == FirstNode..(nx - 1)

Placed(e, dep, pre, n) ==
  /\ dep[e] \in TableBits..n /\ pre[e] \in Nat /\ pre[e] < Power(dep[e])
  /\ e < TableMask => dep[e] = TableBits /\ pre[e] = e

ChildrenOf(e, k, dep, pre) ==
  /\ dep[2 * k] = dep[e] + 1 /\ pre[2 * k] = 2 * pre[e]
  /\ dep[2 * k + 1] = dep[e] + 1 /\ pre[2 * k + 1] = 2 * pre[e] + 1

(* Symbols lie before pos, unused entries do not.                          *)
Settled(v, d, p, pos) ==
  /\ v \in Used => Right(v, d, p) /\ (p + 1) * Power(MaxLen - d) <= pos
  /\ v = Unused => pos <= p * Power(MaxLen - d)

LabelsDiffer(nx, dep, pre) ==
  \A e \in Live(nx), g \in Live(nx) : dep[e] = dep[g] /\ pre[e] = pre[g] => e = g

Grown(E, nx, dep, pre, n, pos) ==
  /\ nx \in Nat /\ FirstNode <= nx /\ nx <= FirstNode + NumSyms
  /\ n \in TableBits..MaxLen
  /\ \A e \in Live(nx) : Placed(e, dep, pre, n)
  /\ LabelsDiffer(nx, dep, pre)
  /\ \A e \in Live(nx) : E[e] \in Used \/ E[e] = Unused \/ E[e] \in NodesTo(nx)
  /\ \A e \in Live(nx) : E[e] \in NodesTo(nx) => /\ ChildrenOf(e, E[e], dep, pre)
                                                 /\ Beginning(dep[e], pre[e])
  /\ \A k \in NodesTo(nx) : \E e \in Live(nx) : E[e] = k
  /\ \A e \in Live(nx) : Settled(E[e], dep[e], pre[e], pos)

(* Symbols, unused entries and nodes are told apart.                       *)
LEMMA KindsDiffer ==
  /\ \A v \in Used : v \in Nat /\ v < FirstNode /\ v < NumSyms /\ v # Unused
  /\ \A nx : \A v \in NodesTo(nx) : v \in Nat /\ v >= FirstNode /\ v # Unused /\ ~ (v < NumSyms)
<1>1. Unused = -1
  BY DEF Unused
<1>2. QED  BY <1>1, TableSizes, HuffmanSizes DEF Used, Syms, NodesTo

LEMMA NodeEntries ==
  ASSUME NEW nx \in Nat, NEW k \in NodesTo(nx)
  PROVE  /\ 2 * k \in Live(nx) /\ 2 * k + 1 \in Live(nx)
         /\ 2 * k >= TableMask /\ k \in Nat
BY TableSizes DEF NodesTo, Live

LEMMA ParentOf ==
  ASSUME NEW E, NEW nx, NEW dep, NEW pre, NEW n, NEW pos, Grown(E, nx, dep, pre, n, pos),
         NEW e \in Live(nx), dep[e] # TableBits
  PROVE  \E g \in Live(nx), b \in {0, 1} :
            /\ E[g] \in NodesTo(nx) /\ e = 2 * E[g] + b
            /\ dep[e] = dep[g] + 1 /\ pre[e] = 2 * pre[g] + b
<1>1. nx \in Nat /\ Placed(e, dep, pre, n)
  BY DEF Grown
<1>2. e \in Nat /\ e >= TableMask /\ e <= 2 * nx - 1
  BY <1>1, TableSizes DEF Placed, Live
<1>3. PICK k \in Nat, b \in {0, 1} : e = 2 * k + b
  <2>1. e \div 2 \in Nat /\ e % 2 \in {0, 1} /\ e = 2 * (e \div 2) + (e % 2)
    BY <1>2
  <2>2. QED  BY <2>1
<1>4. k \in NodesTo(nx)
  BY <1>1, <1>2, <1>3, TableSizes DEF NodesTo
<1>5. PICK g \in Live(nx) : E[g] = k
  BY <1>4 DEF Grown
<1>6. ChildrenOf(g, k, dep, pre)
  BY <1>4, <1>5 DEF Grown
<1>7. dep[e] = dep[g] + 1 /\ pre[e] = 2 * pre[g] + b
  <2>1. CASE b = 0
    <3>1. e = 2 * k
      BY <1>3, <2>1
    <3>2. 2 * pre[g] = 2 * pre[g] + 0
      <4>1. pre[g] \in Nat
        BY DEF Grown, Placed
      <4>2. QED  BY <4>1
    <3>3. QED  BY <1>6, <2>1, <3>1, <3>2 DEF ChildrenOf
  <2>2. CASE b = 1
    <3>1. e = 2 * k + 1
      BY <1>3, <2>2
    <3>2. QED  BY <1>6, <2>2, <3>1 DEF ChildrenOf
  <2>3. QED  BY <2>1, <2>2
<1>8. QED  BY <1>3, <1>4, <1>5, <1>7

(* There is room for one more node.                                        *)
LEMMA RoomForOne ==
  ASSUME LensOK, Full, NEW E, NEW nx, NEW dep, NEW pre, NEW n, NEW pos,
         Grown(E, nx, dep, pre, n, pos),
         NEW leaf \in Live(nx), E[leaf] = Unused, Beginning(dep[leaf], pre[leaf])
  PROVE  nx + 1 <= FirstNode + NumSyms
<1>1. nx \in Nat /\ FirstNode <= nx /\ FirstNode \in Nat
  BY TableSizes DEF Grown
<1>2. PICK own : own = [k \in FirstNode..nx |-> IF k < nx THEN CHOOSE e \in Live(nx) : E[e] = k
                                                ELSE leaf]
  OBVIOUS
<1>3. PICK D : D = [k \in FirstNode..nx |-> dep[own[k]]]
  OBVIOUS
<1>4. PICK P : P = [k \in FirstNode..nx |-> pre[own[k]]]
  OBVIOUS
<1>5. ASSUME NEW k \in FirstNode..nx
      PROVE  own[k] \in Live(nx) /\ Beginning(D[k], P[k])
             /\ (k < nx => E[own[k]] = k) /\ (~ (k < nx) => k = nx /\ E[own[k]] = Unused)
  <2>1. D[k] = dep[own[k]] /\ P[k] = pre[own[k]]
    BY <1>3, <1>4
  <2>2. CASE k < nx
    <3>1. k \in NodesTo(nx)
      BY <1>1, <2>2 DEF NodesTo
    <3>2. \E e \in Live(nx) : E[e] = k
      BY <3>1 DEF Grown
    <3>3. own[k] = CHOOSE e \in Live(nx) : E[e] = k
      BY <1>2, <2>2
    <3>4. own[k] \in Live(nx) /\ E[own[k]] = k
      BY <3>2, <3>3
    <3>5. Beginning(dep[own[k]], pre[own[k]])
      BY <3>1, <3>4 DEF Grown
    <3>6. QED  BY <2>1, <2>2, <3>4, <3>5
  <2>3. CASE ~ (k < nx)
    <3>1. own[k] = leaf /\ k = nx
      BY <1>1, <1>2, <2>3
    <3>2. QED  BY <2>1, <2>3, <3>1
  <2>4. QED  BY <2>2, <2>3
<1>6. ASSUME NEW k \in FirstNode..nx, NEW j \in FirstNode..nx, D[k] = D[j], P[k] = P[j]
      PROVE  k = j
  <2>1. own[k] = own[j]
    <3>1. own[k] \in Live(nx) /\ own[j] \in Live(nx)
      BY <1>5
    <3>2. dep[own[k]] = dep[own[j]] /\ pre[own[k]] = pre[own[j]]
      BY <1>3, <1>4, <1>6
    <3>3. LabelsDiffer(nx, dep, pre)
      BY DEF Grown
    <3>4. QED  BY <3>1, <3>2, <3>3 DEF LabelsDiffer
  <2>2. Unused = -1 /\ k \in Nat /\ j \in Nat
    BY <1>1 DEF Unused
  <2>3. QED  BY <1>5, <2>1, <2>2
<1>7. nx + 1 - FirstNode <= NumSyms
  <2>1. \A k \in FirstNode..nx : Beginning(D[k], P[k])
    BY <1>5
  <2>2. \A k \in FirstNode..nx, j \in FirstNode..nx : D[k] = D[j] /\ P[k] = P[j] => k = j
    BY <1>6
  <2>3. QED  BY <1>1, <2>1, <2>2, BeginningsFit
<1>8. QED  BY <1>1, <1>7, HuffmanSizes

-----------------------------------------------------------------------------
(* What the tree is after an unused entry has become a node.               *)
Splits(E, nx, dep, pre, leaf, E2, dep2, pre2) ==
  /\ \A e \in Live(nx) : dep2[e] = dep[e] /\ pre2[e] = pre[e]
  /\ ChildrenOf(leaf, nx, dep2, pre2)
  /\ E2[leaf] = nx /\ E2[2 * nx] = Unused /\ E2[2 * nx + 1] = Unused
  /\ \A e \in Live(nx) : e # leaf => E2[e] = E[e]

LEMMA LiveGrows ==
  ASSUME NEW nx \in Nat
  PROVE  /\ \A e \in Live(nx) : e \in Live(nx + 1) /\ e \in Nat /\ e # 2 * nx /\ e # 2 * nx + 1
         /\ \A e \in Live(nx + 1) : e \in Live(nx) \/ e = 2 * nx \/ e = 2 * nx + 1
         /\ 2 * nx \in Live(nx + 1) /\ 2 * nx + 1 \in Live(nx + 1)
         /\ \A k \in NodesTo(nx) : k \in NodesTo(nx + 1) /\ k # nx
         /\ \A k \in NodesTo(nx + 1) : k \in NodesTo(nx) \/ k = nx
         /\ FirstNode <= nx => nx \in NodesTo(nx + 1) /\ 2 * nx >= TableMask
BY TableSizes DEF Live, NodesTo

LEMMA SplitLabels ==
  ASSUME LensOK, Full, NEW E, NEW nx, NEW dep, NEW pre, NEW n, NEW pos,
         Grown(E, nx, dep, pre, n, pos),
         NEW leaf \in Live(nx), E[leaf] = Unused, dep[leaf] < n,
         NEW E2, NEW dep2, NEW pre2, Splits(E, nx, dep, pre, leaf, E2, dep2, pre2)
  PROVE  /\ \A e \in Live(nx + 1) : Placed(e, dep2, pre2, n)
         /\ LabelsDiffer(nx + 1, dep2, pre2)
<1>0. nx \in Nat /\ FirstNode <= nx /\ n \in TableBits..MaxLen /\ n \in Nat
  BY TableSizes, HuffmanSizes DEF Grown
<1>1. PICK d \in Nat, p \in Nat : /\ d = dep[leaf] /\ p = pre[leaf] /\ p < Power(d)
                                  /\ TableBits <= d /\ d < n /\ d + 1 \in 1..Most
                                  /\ d + 1 \in TableBits..n
  BY <1>0, TableSizes, HuffmanSizes DEF Grown, Placed
<1>2. /\ dep2[2 * nx] = d + 1 /\ pre2[2 * nx] = 2 * p
      /\ dep2[2 * nx + 1] = d + 1 /\ pre2[2 * nx + 1] = 2 * p + 1
  <2>1. dep2[leaf] = d /\ pre2[leaf] = p
    BY <1>1 DEF Splits
  <2>2. QED  BY <2>1 DEF Splits, ChildrenOf
<1>3. Power(d + 1) = 2 * Power(d) /\ Power(d) \in Nat
  <2>1. (d + 1) - 1 = d /\ d \in 0..Most
    BY <1>1, HuffmanSizes
  <2>2. QED  BY <1>1, <2>1, PowerFacts
<1>4. ASSUME NEW e \in Live(nx + 1) PROVE Placed(e, dep2, pre2, n)
  <2>1. CASE e \in Live(nx)
    BY <2>1 DEF Grown, Placed, Splits
  <2>2. CASE e = 2 * nx \/ e = 2 * nx + 1
    <3>1. ~ (e < TableMask)
      BY <1>0, <2>2, TableSizes
    <3>2. dep2[e] = d + 1 /\ (pre2[e] = 2 * p \/ pre2[e] = 2 * p + 1)
      BY <1>2, <2>2
    <3>3. pre2[e] \in Nat /\ pre2[e] < 2 * Power(d)
      BY <1>1, <1>3, <3>2
    <3>4. QED  BY <1>1, <1>3, <3>1, <3>2, <3>3 DEF Placed
  <2>3. QED  BY <1>0, <2>1, <2>2, LiveGrows
<1>5. ASSUME NEW g \in Live(nx), NEW b \in {0, 1}, dep2[g] = d + 1, pre2[g] = 2 * p + b
      PROVE  FALSE
  <2>1. dep[g] = d + 1 /\ pre[g] = 2 * p + b
    BY <1>5 DEF Splits
  <2>2. dep[g] # TableBits
    BY <1>1, <2>1, TableSizes
  <2>3. PICK u \in Live(nx), c \in {0, 1} : /\ E[u] \in NodesTo(nx) /\ dep[g] = dep[u] + 1
                                            /\ pre[g] = 2 * pre[u] + c
    BY <2>2, ParentOf
  <2>4. dep[u] \in Nat /\ pre[u] \in Nat
    BY TableSizes DEF Grown, Placed
  <2>5. dep[u] = d /\ pre[u] = p
    BY <2>1, <2>3, <2>4
  <2>6. u = leaf
    <3>1. LabelsDiffer(nx, dep, pre)
      BY DEF Grown
    <3>2. QED  BY <1>1, <2>5, <3>1 DEF LabelsDiffer
  <2>7. QED  BY <2>3, <2>6, KindsDiffer
<1>6. ASSUME NEW e \in Live(nx + 1), NEW g \in Live(nx + 1), dep2[e] = dep2[g], pre2[e] = pre2[g]
      PROVE  e = g
  <2>0. 2 * p + 0 = 2 * p /\ 2 * p # 2 * p + 1
    OBVIOUS
  <2>1. CASE e \in Live(nx) /\ g \in Live(nx)
    BY <1>6, <2>1 DEF Grown, LabelsDiffer, Splits
  <2>2. CASE e \in Live(nx) /\ (g = 2 * nx \/ g = 2 * nx + 1)
    <3>1. \E b \in {0, 1} : dep2[e] = d + 1 /\ pre2[e] = 2 * p + b
      BY <1>2, <1>6, <2>0, <2>2
    <3>2. QED  BY <1>5, <2>2, <3>1
  <2>3. CASE g \in Live(nx) /\ (e = 2 * nx \/ e = 2 * nx + 1)
    <3>1. \E b \in {0, 1} : dep2[g] = d + 1 /\ pre2[g] = 2 * p + b
      BY <1>2, <1>6, <2>0, <2>3
    <3>2. QED  BY <1>5, <2>3, <3>1
  <2>4. CASE (e = 2 * nx \/ e = 2 * nx + 1) /\ (g = 2 * nx \/ g = 2 * nx + 1)
    BY <1>2, <1>6, <2>0, <2>4
  <2>5. QED  BY <1>0, <2>1, <2>2, <2>3, <2>4, LiveGrows
<1>7. QED  BY <1>4, <1>6 DEF LabelsDiffer

LEMMA SplitGrows ==
  ASSUME LensOK, Full, NEW E, NEW nx, NEW dep, NEW pre, NEW n, NEW pos \in Nat,
         Grown(E, nx, dep, pre, n, pos),
         NEW leaf \in Live(nx), E[leaf] = Unused, dep[leaf] < n, Beginning(dep[leaf], pre[leaf]),
         NEW E2, NEW dep2, NEW pre2, Splits(E, nx, dep, pre, leaf, E2, dep2, pre2)
  PROVE  Grown(E2, nx + 1, dep2, pre2, n, pos)
<1>0. nx \in Nat /\ FirstNode <= nx /\ n \in TableBits..MaxLen
  BY DEF Grown
<1>1. nx + 1 \in Nat /\ FirstNode <= nx + 1 /\ nx + 1 <= FirstNode + NumSyms
  BY <1>0, RoomForOne, TableSizes
<1>2. \A e \in Live(nx) : dep2[e] = dep[e] /\ pre2[e] = pre[e]
  BY DEF Splits
<1>3. E2[leaf] = nx /\ E2[2 * nx] = Unused /\ E2[2 * nx + 1] = Unused
      /\ \A e \in Live(nx) : e # leaf => E2[e] = E[e]
  BY DEF Splits
<1>4. nx \in NodesTo(nx + 1)
  BY <1>0, LiveGrows
<1>5. \A e \in Live(nx + 1) : E2[e] \in Used \/ E2[e] = Unused \/ E2[e] \in NodesTo(nx + 1)
  <2>1. \A e \in Live(nx) : E[e] \in Used \/ E[e] = Unused \/ E[e] \in NodesTo(nx)
    BY DEF Grown
  <2>2. QED  BY <1>0, <1>3, <1>4, <2>1, LiveGrows
<1>6. ASSUME NEW e \in Live(nx + 1), E2[e] \in NodesTo(nx + 1)
      PROVE  ChildrenOf(e, E2[e], dep2, pre2) /\ Beginning(dep2[e], pre2[e])
  <2>1. e \in Live(nx)
    BY <1>0, <1>3, <1>6, LiveGrows, KindsDiffer
  <2>2. CASE e = leaf
    BY <1>2, <1>3, <2>1, <2>2 DEF Splits
  <2>3. CASE e # leaf
    <3>1. PICK k \in NodesTo(nx) : E[e] = k /\ E2[e] = k
      <4>1. E2[e] = E[e]
        BY <1>3, <2>1, <2>3
      <4>2. E[e] \in NodesTo(nx)
        BY <1>6, <2>1, <4>1, KindsDiffer DEF Grown
      <4>3. QED  BY <4>1, <4>2
    <3>2. ChildrenOf(e, k, dep, pre) /\ Beginning(dep[e], pre[e])
      BY <2>1, <3>1 DEF Grown
    <3>3. 2 * k \in Live(nx) /\ 2 * k + 1 \in Live(nx)
      BY <1>0, NodeEntries
    <3>4. QED  BY <1>2, <2>1, <3>1, <3>2, <3>3 DEF ChildrenOf
  <2>4. QED  BY <2>2, <2>3
<1>7. ASSUME NEW k \in NodesTo(nx + 1) PROVE \E e \in Live(nx + 1) : E2[e] = k
  <2>1. CASE k = nx
    BY <1>0, <1>3, <2>1, LiveGrows
  <2>2. CASE k \in NodesTo(nx)
    <3>1. PICK e \in Live(nx) : E[e] = k
      BY <2>2 DEF Grown
    <3>2. e # leaf
      BY <2>2, <3>1, KindsDiffer
    <3>3. QED  BY <1>0, <1>3, <3>1, <3>2, LiveGrows
  <2>3. QED  BY <1>0, <2>1, <2>2, LiveGrows
<1>8. ASSUME NEW e \in Live(nx + 1) PROVE Settled(E2[e], dep2[e], pre2[e], pos)
  <2>1. CASE e = leaf
    <3>1. nx \notin Used /\ nx # Unused
      BY <1>4, KindsDiffer
    <3>2. QED  BY <1>3, <2>1, <3>1 DEF Settled
  <2>2. CASE e \in Live(nx) /\ e # leaf
    BY <1>2, <1>3, <2>2 DEF Grown
  <2>3. CASE e = 2 * nx \/ e = 2 * nx + 1
    <3>1. PICK d \in Nat, p \in Nat : d = dep[leaf] /\ p = pre[leaf] /\ d < MaxLen
      BY HuffmanSizes DEF Beginning
    <3>2. PICK r \in Nat : r = Power(MaxLen - (d + 1)) /\ Power(MaxLen - d) = 2 * r
      <4>1. MaxLen - d \in 1..Most /\ (MaxLen - d) - 1 = MaxLen - (d + 1)
            /\ MaxLen - (d + 1) \in 0..Most
        BY <3>1, HuffmanSizes
      <4>2. QED  BY <4>1, PowerFacts
    <3>3. pos <= p * (2 * r)
      <4>1. Settled(Unused, d, p, pos)
        BY <3>1 DEF Grown
      <4>2. QED  BY <3>2, <4>1 DEF Settled
    <3>4. p * (2 * r) = (2 * p) * r /\ (2 * p + 1) * r = (2 * p) * r + r /\ (2 * p) * r \in Nat
      <4>1. 2 * p \in Nat
        OBVIOUS
      <4>2. QED  BY <4>1, Times, TwiceTimes
    <3>5. pos <= (2 * p) * r /\ pos <= (2 * p + 1) * r
      BY <3>3, <3>4
    <3>6. dep2[leaf] = d /\ pre2[leaf] = p
      BY <1>2, <3>1
    <3>7. dep2[e] = d + 1 /\ (pre2[e] = 2 * p \/ pre2[e] = 2 * p + 1)
      BY <2>3, <3>6 DEF Splits, ChildrenOf
    <3>8. E2[e] = Unused /\ Unused \notin Used
      BY <1>3, <2>3, KindsDiffer
    <3>9. pos <= pre2[e] * r
      BY <3>5, <3>7
    <3>10. QED  BY <3>2, <3>7, <3>8, <3>9 DEF Settled
  <2>4. QED  BY <1>0, <2>1, <2>2, <2>3, LiveGrows
<1>9. (\A e \in Live(nx + 1) : Placed(e, dep2, pre2, n)) /\ LabelsDiffer(nx + 1, dep2, pre2)
  BY SplitLabels
<1>10. QED
  <2>1. \A e \in Live(nx + 1) : E2[e] \in NodesTo(nx + 1) => /\ ChildrenOf(e, E2[e], dep2, pre2)
                                                             /\ Beginning(dep2[e], pre2[e])
    BY ONLY <1>6
  <2>2. \A k \in NodesTo(nx + 1) : \E e \in Live(nx + 1) : E2[e] = k
    BY ONLY <1>7
  <2>3. \A e \in Live(nx + 1) : Settled(E2[e], dep2[e], pre2[e], pos)
    BY ONLY <1>8
  <2>4. QED  BY ONLY <1>0, <1>1, <1>5, <1>9, <2>1, <2>2, <2>3 DEF Grown

-----------------------------------------------------------------------------
(* The path of a code. t has followed d bits of pos, and no unused entry   *)
(* is left above its leaf.                                                 *)
Passed(t, dep, pre, d, pos) ==
  \A g \in Live(t.next) : dep[g] < d /\ At(pos, dep[g], pre[g]) => t.entries[g] # Unused

Trail(t, dep, pre, n, d, pos) ==
  /\ t \in Tables /\ t.ok /\ t.inside /\ t.pos = pos
  /\ Grown(t.entries, t.next, dep, pre, n, pos)
  /\ t.leaf \in Live(t.next) /\ dep[t.leaf] = d /\ At(pos, d, pre[t.leaf])
  /\ Passed(t, dep, pre, d, pos)

LEMMA SameLeaf ==
  ASSUME NEW E, NEW nx, NEW dep, NEW pre, NEW n, NEW pos \in Nat, NEW d \in 0..MaxLen,
         Grown(E, nx, dep, pre, n, pos),
         NEW e \in Live(nx), dep[e] = d, At(pos, d, pre[e]),
         NEW g \in Live(nx), dep[g] = d, At(pos, d, pre[g])
  PROVE  g = e
<1>1. pre[e] \in Nat /\ pre[g] \in Nat
  BY DEF Grown, Placed
<1>2. Power(MaxLen - d) \in Nat
  BY PowerFacts, HuffmanSizes
<1>3. pre[e] = pre[g]
  BY <1>1, <1>2, OneQuotient DEF At
<1>4. LabelsDiffer(nx, dep, pre)
  BY DEF Grown
<1>5. QED  BY <1>3, <1>4 DEF LabelsDiffer

LEMMA LiveInside ==
  ASSUME NEW nx \in Nat, nx <= FirstNode + NumSyms
  PROVE  Live(nx) \subseteq Entries
BY TableSizes, HuffmanSizes DEF Live, Entries

LEMMA SplitMakes ==
  ASSUME NEW t \in Tables, t.entries[t.leaf] = Unused, t.leaf \in Live(t.next),
         Live(t.next + 1) \subseteq Entries
  PROVE  /\ Split(t).next = t.next + 1 /\ Split(t).inside = t.inside
         /\ Split(t).entries[t.leaf] = t.next
         /\ Split(t).entries[2 * t.next] = Unused /\ Split(t).entries[2 * t.next + 1] = Unused
         /\ \A e \in Live(t.next) : e # t.leaf => Split(t).entries[e] = t.entries[e]
<1>0. t.next \in Nat /\ t.next \in Int /\ Unused \in Int
  BY DEF Tables, Unused
<1>1. /\ 2 * t.next \in Entries /\ 2 * t.next + 1 \in Entries /\ t.leaf \in Entries
      /\ \A e \in Live(t.next) : e \in Entries /\ e # 2 * t.next /\ e # 2 * t.next + 1
  BY <1>0, LiveGrows
<1>2. PICK S : S = {2 * t.next, 2 * t.next + 1} /\ S \subseteq Entries
  BY <1>1
<1>3. PICK u : u = Put(t, S, Unused)
  OBVIOUS
<1>4. /\ u \in Tables /\ u.next = t.next /\ u.inside = t.inside
      /\ \A e \in Entries : u.entries[e] = IF e \in S THEN Unused ELSE t.entries[e]
  BY ONLY <1>0, <1>2, <1>3, t \in Tables, PutEffect
<1>5. PICK U : U = {t.leaf} /\ U \subseteq Entries
  BY <1>1
<1>6. PICK y : y = Put(u, U, t.next)
  OBVIOUS
<1>7. /\ y \in Tables /\ y.next = t.next /\ y.inside = t.inside
      /\ \A e \in Entries : y.entries[e] = IF e \in U THEN t.next ELSE u.entries[e]
  <2>1. /\ y \in Tables /\ y.next = u.next /\ y.inside = u.inside
        /\ \A e \in Entries : y.entries[e] = IF e \in U THEN t.next ELSE u.entries[e]
    BY ONLY <1>0, <1>4, <1>5, <1>6, PutEffect
  <2>2. QED  BY <1>4, <2>1
<1>8. Split(t) = [y EXCEPT !.next = @ + 1]
  BY <1>2, <1>3, <1>5, <1>6 DEF Split
<1>9. Split(t).entries = y.entries /\ Split(t).next = t.next + 1 /\ Split(t).inside = t.inside
  BY <1>7, <1>8 DEF Tables
<1>10. QED  BY <1>1, <1>2, <1>4, <1>5, <1>7, <1>9

LEMMA SplitStep ==
  ASSUME LensOK, Full, NEW t, NEW dep, NEW pre, NEW n, NEW d, NEW pos \in Nat,
         Trail(t, dep, pre, n, d, pos), d < n, FirstFree(d) * Power(MaxLen - d) <= pos,
         NEW y, y = Split(t)
  PROVE  /\ y \in Tables /\ y.ok /\ y.inside /\ y.pos = pos /\ y.leaf \in Live(y.next)
         /\ \E dep2, pre2 :
              /\ Grown(y.entries, y.next, dep2, pre2, n, pos)
              /\ dep2[y.leaf] = d /\ At(pos, d, pre2[y.leaf])
              /\ y.entries[y.leaf] \in NodesTo(y.next)
              /\ Passed(y, dep2, pre2, d + 1, pos)
<1>0. /\ t \in Tables /\ t.ok /\ t.inside /\ t.pos = pos
      /\ Grown(t.entries, t.next, dep, pre, n, pos)
      /\ t.leaf \in Live(t.next) /\ dep[t.leaf] = d /\ At(pos, d, pre[t.leaf])
      /\ Passed(t, dep, pre, d, pos)
  BY DEF Trail
<1>1. PICK leaf, nx, p : leaf = t.leaf /\ nx = t.next /\ p = pre[t.leaf]
  OBVIOUS
<1>2. /\ nx \in Nat /\ FirstNode <= nx /\ n \in TableBits..MaxLen
      /\ d \in TableBits..n /\ p \in Nat /\ p < Power(d) /\ d \in Nat /\ d < MaxLen
      /\ d \in 0..MaxLen /\ d \in 0..(MaxLen - 1)
  <2>1. Placed(leaf, dep, pre, n) /\ nx \in Nat /\ FirstNode <= nx /\ n \in TableBits..MaxLen
    BY <1>0, <1>1 DEF Grown
  <2>2. d \in TableBits..n /\ p \in Nat /\ p < Power(d)
    BY <1>0, <1>1, <2>1 DEF Placed
  <2>3. QED  BY <2>1, <2>2, TableSizes, HuffmanSizes
<1>3. PICK r \in Nat : r = Power(MaxLen - d)
  BY <1>2, PowerFacts, HuffmanSizes
<1>4. pos < (p + 1) * r
  <2>1. p * r \in Nat /\ (p + 1) * r = p * r + r
    BY <1>2, <1>3, Times
  <2>2. pos \in (p * r)..(p * r + r - 1)
    BY <1>0, <1>1, <1>3 DEF At, Quotient
  <2>3. QED  BY <2>1, <2>2
<1>5. Beginning(d, p)
  <2>1. FirstFree(d) \in Nat /\ p + 1 \in Nat
    BY <1>2, FirstFreeFacts, HuffmanSizes
  <2>2. FirstFree(d) * r < (p + 1) * r
    <3>1. FirstFree(d) * r \in Nat /\ (p + 1) * r \in Nat
      BY <1>3, <2>1, Times
    <3>2. QED  BY <1>3, <1>4, <3>1
  <2>3. FirstFree(d) < p + 1
    BY <1>3, <2>1, <2>2, TimesLess
  <2>4. QED  BY <1>2, <2>1, <2>3 DEF Beginning
<1>6. t.entries[leaf] \notin Used
  <2>1. SUFFICES ASSUME t.entries[leaf] \in Used PROVE FALSE
    OBVIOUS
  <2>2. Settled(t.entries[leaf], d, p, pos)
    BY <1>0, <1>1 DEF Grown
  <2>3. (p + 1) * r <= pos /\ (p + 1) * r \in Nat
    <3>1. p + 1 \in Nat
      BY <1>2
    <3>2. QED  BY <1>3, <2>1, <2>2, <3>1, Times DEF Settled
  <2>4. QED  BY <1>4, <2>3
<1>7. t.entries[leaf] = Unused \/ t.entries[leaf] \in NodesTo(nx)
  BY <1>0, <1>1, <1>6 DEF Grown
<1>8. ASSUME NEW g \in Live(nx), dep[g] < d + 1, At(pos, dep[g], pre[g])
      PROVE  g = leaf \/ (dep[g] < d /\ t.entries[g] # Unused)
  <2>1. CASE dep[g] < d
    BY <1>0, <1>1, <1>8, <2>1 DEF Passed
  <2>2. CASE ~ (dep[g] < d)
    <3>1. dep[g] \in Nat
      BY <1>0, <1>1, TableSizes DEF Grown, Placed
    <3>2. dep[g] = d
      BY <1>2, <1>8, <2>2, <3>1
    <3>3. Grown(t.entries, nx, dep, pre, n, pos) /\ leaf \in Live(nx) /\ dep[leaf] = d
          /\ At(pos, d, pre[leaf]) /\ At(pos, d, pre[g])
      BY <1>0, <1>1, <1>8, <3>2
    <3>4. g = leaf
      BY ONLY <1>2, <3>2, <3>3, pos \in Nat, SameLeaf
    <3>5. QED  BY <3>4
  <2>3. QED  BY <2>1, <2>2
<1>9. y \in Tables /\ y.pos = pos /\ y.ok /\ y.leaf = leaf
  BY <1>0, <1>1, SplitEffect
<1>10. CASE t.entries[leaf] \in NodesTo(nx)
  <2>1. y = t
    BY <1>1, <1>10, KindsDiffer DEF Split
  <2>2. Passed(y, dep, pre, d + 1, pos)
    BY <1>1, <1>8, <1>10, <2>1, KindsDiffer DEF Passed
  <2>3. QED  BY <1>0, <1>1, <1>10, <2>1, <2>2
<1>11. CASE t.entries[leaf] = Unused
  <2>1. PICK dep2 : dep2 = [e \in Live(nx + 1) |-> IF e \in Live(nx) THEN dep[e] ELSE d + 1]
    OBVIOUS
  <2>2. PICK pre2 : pre2 = [e \in Live(nx + 1) |-> IF e \in Live(nx) THEN pre[e]
                                                  ELSE IF e = 2 * nx THEN 2 * p ELSE 2 * p + 1]
    OBVIOUS
  <2>3. nx + 1 <= FirstNode + NumSyms /\ nx + 1 \in Nat
    <3>1. Grown(t.entries, nx, dep, pre, n, pos) /\ leaf \in Live(nx)
          /\ Beginning(dep[leaf], pre[leaf])
      BY <1>0, <1>1, <1>5
    <3>2. nx + 1 <= FirstNode + NumSyms
      BY ONLY LensOK, Full, <1>11, <3>1, RoomForOne
    <3>3. QED  BY <1>2, <3>2
  <2>4. Live(nx + 1) \subseteq Entries
    BY <2>3, LiveInside
  <2>5. /\ y.next = nx + 1 /\ y.inside
        /\ y.entries[leaf] = nx /\ y.entries[2 * nx] = Unused /\ y.entries[2 * nx + 1] = Unused
        /\ \A e \in Live(nx) : e # leaf => y.entries[e] = t.entries[e]
    <3>1. t.entries[t.leaf] = Unused /\ t.leaf \in Live(t.next) /\ Live(t.next + 1) \subseteq Entries
      BY <1>0, <1>1, <1>11, <2>4
    <3>2. QED  BY <1>0, <1>1, <3>1, SplitMakes
  <2>6. leaf \in Live(nx) /\ leaf \in Live(nx + 1)
    BY <1>0, <1>1, <1>2, LiveGrows
  <2>7. \A e \in Live(nx) : dep2[e] = dep[e] /\ pre2[e] = pre[e]
    BY <1>2, <2>1, <2>2, LiveGrows
  <2>8. ChildrenOf(leaf, nx, dep2, pre2)
    <3>1. 2 * nx \notin Live(nx) /\ 2 * nx + 1 \notin Live(nx) /\ 2 * nx # 2 * nx + 1
          /\ 2 * nx \in Live(nx + 1) /\ 2 * nx + 1 \in Live(nx + 1)
      BY <1>2, LiveGrows
    <3>2. dep2[leaf] = d /\ pre2[leaf] = p
      BY <1>0, <1>1, <2>6, <2>7
    <3>3. dep2[2 * nx] = d + 1 /\ dep2[2 * nx + 1] = d + 1
      BY <2>1, <3>1
    <3>4. pre2[2 * nx] = 2 * p /\ pre2[2 * nx + 1] = 2 * p + 1
      BY <2>2, <3>1
    <3>5. QED  BY <3>2, <3>3, <3>4 DEF ChildrenOf
  <2>9. Splits(t.entries, nx, dep, pre, leaf, y.entries, dep2, pre2)
    BY <2>5, <2>7, <2>8 DEF Splits
  <2>10. Grown(y.entries, y.next, dep2, pre2, n, pos)
    <3>1. Grown(t.entries, nx, dep, pre, n, pos) /\ dep[leaf] < n
          /\ Beginning(dep[leaf], pre[leaf])
      BY <1>0, <1>1, <1>5
    <3>2. Grown(y.entries, nx + 1, dep2, pre2, n, pos)
      BY ONLY LensOK, Full, pos \in Nat, <1>11, <2>6, <2>9, <3>1, SplitGrows
    <3>3. QED  BY <2>5, <3>2
  <2>11. y.entries[y.leaf] \in NodesTo(y.next) /\ y.leaf \in Live(y.next)
    BY <1>2, <1>9, <2>5, <2>6, LiveGrows
  <2>12. dep2[y.leaf] = d /\ At(pos, d, pre2[y.leaf])
    BY <1>0, <1>1, <1>9, <2>6, <2>7
  <2>13. Passed(y, dep2, pre2, d + 1, pos)
    <3>1. SUFFICES ASSUME NEW g \in Live(nx + 1), dep2[g] < d + 1, At(pos, dep2[g], pre2[g])
                   PROVE  y.entries[g] # Unused
      BY <2>5 DEF Passed
    <3>2. g \in Live(nx)
      <4>1. SUFFICES ASSUME g \notin Live(nx) PROVE FALSE
        OBVIOUS
      <4>2. dep2[g] = d + 1
        BY <2>1, <4>1
      <4>3. QED  BY <1>2, <3>1, <4>2
    <3>3. g = leaf \/ t.entries[g] # Unused
      BY <1>8, <2>7, <3>1, <3>2
    <3>4. nx # Unused
      BY <1>2, KindsDiffer, LiveGrows
    <3>5. QED  BY <2>5, <3>2, <3>3, <3>4
  <2>14. QED  BY <1>9, <2>5, <2>10, <2>11, <2>12, <2>13
<1>12. QED  BY <1>7, <1>10, <1>11

-----------------------------------------------------------------------------
LEMMA FollowStep ==
  ASSUME NEW y \in Tables, NEW dep, NEW pre, NEW n, NEW d \in Nat, NEW pos \in Nat,
         y.ok, y.inside, y.pos = pos, y.leaf \in Live(y.next),
         Grown(y.entries, y.next, dep, pre, n, pos), dep[y.leaf] = d,
         y.entries[y.leaf] \in NodesTo(y.next), Passed(y, dep, pre, d + 1, pos),
         NEW bit \in {0, 1}, At(pos, d + 1, 2 * pre[y.leaf] + bit)
  PROVE  Trail(Follow(y, bit), dep, pre, n, d + 1, pos)
<1>1. PICK k, p, nx : k = y.entries[y.leaf] /\ p = pre[y.leaf] /\ nx = y.next
  OBVIOUS
<1>2. nx \in Nat /\ nx <= FirstNode + NumSyms /\ k \in NodesTo(nx) /\ ChildrenOf(y.leaf, k, dep, pre)
  BY <1>1 DEF Grown
<1>3. p \in Nat
  BY <1>1 DEF Grown, Placed
<1>4. PICK leaf : leaf = 2 * k + bit
  OBVIOUS
<1>5. /\ leaf \in Live(nx) /\ dep[leaf] = d + 1 /\ pre[leaf] = 2 * p + bit
  <2>1. k \in Nat /\ 2 * k \in Live(nx) /\ 2 * k + 1 \in Live(nx)
    BY <1>2, NodeEntries
  <2>2. CASE bit = 0
    <3>1. leaf = 2 * k /\ 2 * p + bit = 2 * p
      BY <1>3, <1>4, <2>1, <2>2
    <3>2. QED  BY <1>1, <1>2, <2>1, <3>1 DEF ChildrenOf
  <2>3. CASE bit = 1
    <3>1. leaf = 2 * k + 1 /\ 2 * p + bit = 2 * p + 1
      BY <1>4, <2>3
    <3>2. QED  BY <1>1, <1>2, <2>1, <3>1 DEF ChildrenOf
  <2>4. QED  BY <2>2, <2>3
<1>6. leaf \in Entries
  BY <1>2, <1>5, LiveInside
<1>7. k # Unwritten
  BY <1>2, NodeEntries DEF Unwritten
<1>8. PICK z : z = [y EXCEPT !.leaf = leaf]
  OBVIOUS
<1>9. Follow(y, bit) = z
  BY <1>1, <1>4, <1>6, <1>7, <1>8 DEF Follow
<1>10. /\ z \in Tables /\ z.ok /\ z.inside /\ z.pos = pos /\ z.leaf = leaf /\ z.next = nx
       /\ z.entries = y.entries
  BY <1>1, <1>6, <1>8 DEF Tables
<1>11. Passed(z, dep, pre, d + 1, pos)
  BY <1>1, <1>10 DEF Passed
<1>12. QED  BY <1>1, <1>5, <1>9, <1>10, <1>11 DEF Trail

LEMMA PathGrows ==
  ASSUME LensOK, Full, NEW t \in Tables, NEW dep, NEW pre, NEW n, NEW pos \in Nat,
         t.ok, t.inside, t.pos = pos, pos < Power(MaxLen),
         Grown(t.entries, t.next, dep, pre, n, pos),
         \A d \in TableBits..(n - 1) : FirstFree(d) * Power(MaxLen - d) <= pos
  PROVE  \E dep2, pre2 : Trail(Path(t, n - TableBits), dep2, pre2, n, n, pos)
<1>0. /\ n \in TableBits..MaxLen /\ n - TableBits \in Nat /\ n \in Nat /\ TableBits \in Nat
      /\ t.next \in Nat /\ FirstNode <= t.next
  BY TableSizes, HuffmanSizes DEF Grown
<1>1. PICK w : /\ w[0] = [t EXCEPT !.leaf = t.pos \div Power(Shift)]
               /\ Path(t, n - TableBits) = w[n - TableBits]
               /\ \A k \in 1..(n - TableBits) :
                    w[k] = Follow(Split(w[k - 1]), (t.pos \div Power(Shift - k)) % 2)
  BY <1>0, PathTurns
<1> DEFINE P == {k \in 0..(n - TableBits) : \E D, B : Trail(w[k], D, B, n, TableBits + k, pos)}
<1>2. 0 \in P
  <2>1. PICK v : v = w[0]
    OBVIOUS
  <2>2. Power(MaxLen) \in Nat /\ t.pos <= Power(MaxLen)
    BY PowerFacts, HuffmanSizes
  <2>3. /\ v \in Tables /\ v.leaf \in Nat /\ Quotient(pos, Power(Shift), v.leaf)
        /\ v.pos = pos /\ v.ok /\ v.inside /\ v.next = t.next /\ v.entries = t.entries
    BY <1>1, <2>1, <2>2, PathStarts
  <2>4. v.leaf < TableMask
    <3>1. TableMask * Power(Shift) = Power(MaxLen) /\ Power(Shift) \in Nat
      <4>1. MaxLen \in TableBits..Most /\ TableBits \in 0..Most
        BY TableSizes, HuffmanSizes
      <4>2. Power(TableBits) * Power(MaxLen - TableBits) = Power(MaxLen)
            /\ MaxLen - TableBits \in 0..Most
        BY <4>1, PowerTimes
      <4>3. QED  BY <4>2, TableSizes, PowerFacts
    <3>2. v.leaf * Power(Shift) <= pos /\ v.leaf * Power(Shift) \in Nat
      BY <2>3, <3>1, Times DEF Quotient
    <3>3. v.leaf * Power(Shift) < TableMask * Power(Shift)
      BY <2>2, <3>1, <3>2
    <3>4. QED  BY <2>3, <3>1, <3>3, TableSizes, TimesLess
  <2>5. v.leaf \in Live(v.next)
    BY <1>0, <2>3, <2>4, TableSizes DEF Live
  <2>6. dep[v.leaf] = TableBits /\ pre[v.leaf] = v.leaf
    BY <2>3, <2>4, <2>5 DEF Grown, Placed
  <2>7. At(pos, TableBits, pre[v.leaf])
    BY <2>3, <2>6, TableSizes DEF At
  <2>8. Passed(v, dep, pre, TableBits, pos)
    <3>1. ASSUME NEW g \in Live(v.next) PROVE ~ (dep[g] < TableBits)
      BY <2>3, TableSizes, HuffmanSizes DEF Grown, Placed
    <3>2. QED  BY <3>1 DEF Passed
  <2>9. Trail(v, dep, pre, n, TableBits, pos)
    BY <2>3, <2>5, <2>6, <2>7, <2>8 DEF Trail
  <2>10. 0 \in 0..(n - TableBits) /\ TableBits + 0 = TableBits
    BY <1>0
  <2>11. QED  BY <2>1, <2>9, <2>10
<1>3. ASSUME NEW k \in 1..(n - TableBits), k - 1 \in P PROVE k \in P
  <2>1. PICK d \in Nat : /\ d = TableBits + (k - 1) /\ TableBits + k = d + 1 /\ d < n
                         /\ d \in TableBits..(n - 1) /\ d \in 0..MaxLen /\ d < MaxLen
                         /\ Shift - k = MaxLen - (d + 1) /\ k \in 0..(n - TableBits)
    BY <1>0, TableSizes, HuffmanSizes
  <2>2. PICK u, D, B : u = w[k - 1] /\ Trail(u, D, B, n, d, pos)
    BY <1>3, <2>1
  <2>3. PICK y : y = Split(u)
    OBVIOUS
  <2>4. FirstFree(d) * Power(MaxLen - d) <= pos
    BY <2>1
  <2>5. /\ y \in Tables /\ y.ok /\ y.inside /\ y.pos = pos /\ y.leaf \in Live(y.next)
        /\ \E dep2, pre2 :
             /\ Grown(y.entries, y.next, dep2, pre2, n, pos)
             /\ dep2[y.leaf] = d /\ At(pos, d, pre2[y.leaf])
             /\ y.entries[y.leaf] \in NodesTo(y.next)
             /\ Passed(y, dep2, pre2, d + 1, pos)
    BY ONLY LensOK, Full, pos \in Nat, <2>1, <2>2, <2>3, <2>4, SplitStep
  <2>6. PICK D2, B2 : /\ Grown(y.entries, y.next, D2, B2, n, pos)
                      /\ D2[y.leaf] = d /\ At(pos, d, B2[y.leaf])
                      /\ y.entries[y.leaf] \in NodesTo(y.next)
                      /\ Passed(y, D2, B2, d + 1, pos)
    BY <2>5
  <2>7. B2[y.leaf] \in Nat
    BY <2>5, <2>6 DEF Grown, Placed
  <2>8. PICK bit : bit = (pos \div Power(MaxLen - (d + 1))) % 2
    OBVIOUS
  <2>9. bit \in {0, 1} /\ At(pos, d + 1, 2 * B2[y.leaf] + bit)
    BY <2>1, <2>6, <2>7, <2>8, OneMoreBit
  <2>10. w[k] = Follow(y, bit)
    BY <1>1, <2>1, <2>2, <2>3, <2>8
  <2>11. Trail(Follow(y, bit), D2, B2, n, d + 1, pos)
    BY ONLY pos \in Nat, <2>1, <2>5, <2>6, <2>9, FollowStep
  <2>12. QED  BY <2>1, <2>10, <2>11
<1>4. n - TableBits \in P
  <2>1. \A k \in 1..(n - TableBits) : k - 1 \in P => k \in P
    BY ONLY <1>3
  <2> HIDE DEF P
  <2>2. \A k \in 0..(n - TableBits) : k \in P
    BY <1>0, <1>2, <2>1, BoundedInduction
  <2>3. QED  BY <1>0, <2>2
<1>5. TableBits + (n - TableBits) = n
  BY <1>0
<1>6. QED  BY <1>1, <1>4, <1>5

(* At its end there is an unused entry, and no other one is passed.        *)
LEMMA TimesTimes ==
  ASSUME NEW a \in Nat, NEW b \in Nat, NEW r \in Nat
  PROVE  a * (b * r) = (a * b) * r /\ a * b \in Nat
OBVIOUS

LEMMA SymbolEntered ==
  ASSUME LensOK, NEW s \in Used, NEW n \in TableBits..MaxLen, lens[s] = n,
         NEW pos \in Nat, pos = Code(s) * Power(MaxLen - n),
         NEW t, NEW dep, NEW pre, Trail(t, dep, pre, n, n, pos),
         NEW E, \A e \in Live(t.next) : E[e] = IF e = t.leaf THEN s ELSE t.entries[e]
  PROVE  Grown(E, t.next, dep, pre, n, pos + Power(MaxLen - n))
<1>0. /\ n \in Nat /\ n \in 0..MaxLen /\ MaxLen - n \in 0..Most
      /\ Grown(t.entries, t.next, dep, pre, n, pos)
      /\ t.leaf \in Live(t.next) /\ dep[t.leaf] = n /\ At(pos, n, pre[t.leaf])
      /\ Passed(t, dep, pre, n, pos)
  BY TableSizes, HuffmanSizes DEF Trail
<1>1. PICK r \in Nat, c \in Nat : r = Power(MaxLen - n) /\ r >= 1 /\ c = Code(s)
  BY <1>0, PowerFacts, CodeFacts
<1>2. pos = c * r /\ c < FirstFree(n)
  BY <1>1, CodeFacts
<1>3. PICK leaf, nx : leaf = t.leaf /\ nx = t.next /\ pre[leaf] \in Nat
  BY <1>0 DEF Grown, Placed
<1>4. pre[leaf] = c
  <2>1. Quotient(pos, r, c)
    BY <1>1, <1>2 DEF Quotient
  <2>2. Quotient(pos, r, pre[leaf])
    BY <1>0, <1>1, <1>3 DEF At
  <2>3. QED  BY <1>1, <1>3, <2>1, <2>2, OneQuotient
<1>5. t.entries[leaf] = Unused
  <2>1. t.entries[leaf] \in Used \/ t.entries[leaf] = Unused \/ t.entries[leaf] \in NodesTo(nx)
    BY <1>0, <1>3 DEF Grown
  <2>2. t.entries[leaf] \notin Used
    <3>1. SUFFICES ASSUME t.entries[leaf] \in Used PROVE FALSE
      OBVIOUS
    <3>2. Settled(t.entries[leaf], n, c, pos)
      BY <1>0, <1>3, <1>4 DEF Grown
    <3>3. (c + 1) * r <= pos /\ (c + 1) * r = c * r + r
      BY <1>1, <3>1, <3>2, Times DEF Settled
    <3>4. QED  BY <1>1, <1>2, <3>3
  <2>3. t.entries[leaf] \notin NodesTo(nx)
    <3>1. SUFFICES ASSUME t.entries[leaf] \in NodesTo(nx) PROVE FALSE
      OBVIOUS
    <3>2. Beginning(n, c)
      BY <1>0, <1>3, <1>4, <3>1 DEF Grown
    <3>3. FirstFree(n) <= c /\ FirstFree(n) \in Nat
      BY <1>0, <3>2, HuffmanSizes, FirstFreeFacts DEF Beginning
    <3>4. QED  BY <1>2, <3>3
  <2>4. QED  BY <2>1, <2>2, <2>3
<1>6. PICK end \in Nat : end = pos + r /\ end = (c + 1) * r
  BY <1>1, <1>2, Times
<1>7. ASSUME NEW e \in Live(nx), e # leaf, t.entries[e] = Unused
      PROVE  end <= pre[e] * Power(MaxLen - dep[e])
  <2>1. PICK d \in Nat, p \in Nat : d = dep[e] /\ p = pre[e] /\ d <= n /\ d \in 0..MaxLen
    <3>1. Placed(e, dep, pre, n)
      BY <1>0, <1>3 DEF Grown
    <3>2. QED  BY <1>0, <3>1, TableSizes, HuffmanSizes DEF Placed
  <2>2. PICK m \in Nat : m = Power(n - d) /\ Power(MaxLen - d) = m * r /\ Power(MaxLen - d) >= 1
    <3>1. MaxLen - d \in (MaxLen - n)..Most /\ (MaxLen - d) - (MaxLen - n) = n - d
      BY <1>0, <2>1, HuffmanSizes
    <3>2. r * Power(n - d) = Power(MaxLen - d) /\ n - d \in 0..Most /\ MaxLen - d \in 0..Most
      BY <1>0, <1>1, <3>1, PowerTimes
    <3>3. Power(n - d) \in Nat /\ Power(MaxLen - d) >= 1
      BY <3>2, PowerFacts
    <3>4. r * Power(n - d) = Power(n - d) * r
      BY <3>3
    <3>5. QED  BY <3>2, <3>3, <3>4
  <2>3. PICK z \in Nat : z = p * m /\ p * Power(MaxLen - d) = z * r
    BY <2>1, <2>2, TimesTimes
  <2>4. pos <= z * r
    <3>1. Settled(Unused, d, p, pos)
      BY <1>0, <1>3, <1>7, <2>1 DEF Grown
    <3>2. QED  BY <2>3, <3>1 DEF Settled
  <2>5. SUFFICES ASSUME z * r < end PROVE FALSE
    <3>1. z * r \in Nat
      BY Times
    <3>2. QED  BY <2>1, <2>3, <2>5, <3>1
  <2>6. z < c + 1
    <3>1. z * r < (c + 1) * r /\ c + 1 \in Nat
      BY <1>6, <2>5
    <3>2. QED  BY <3>1, TimesLess
  <2>7. z >= c
    <3>1. SUFFICES ASSUME z < c PROVE FALSE
      OBVIOUS
    <3>2. z + 1 <= c /\ z + 1 \in Nat
      BY <3>1
    <3>3. (z + 1) * r <= c * r /\ (z + 1) * r = z * r + r /\ z * r \in Nat /\ c * r \in Nat
      BY <3>2, Times, TimesMonotone
    <3>4. QED  BY <1>1, <1>2, <2>4, <3>3
  <2>8. pos = p * Power(MaxLen - d)
    <3>1. z = c
      BY <2>6, <2>7
    <3>2. QED  BY <1>2, <2>3, <3>1
  <2>9. At(pos, d, p)
    <3>1. PICK y \in Nat : y = Power(MaxLen - d) /\ y >= 1 /\ pos = p * y
      BY <2>2, <2>8, Times
    <3>2. Quotient(pos, y, p)
      BY <3>1 DEF Quotient
    <3>3. QED  BY <3>1, <3>2 DEF At
  <2>10. CASE d < n
    BY <1>0, <1>3, <1>7, <2>1, <2>9, <2>10 DEF Passed
  <2>11. CASE ~ (d < n)
    <3>1. d = n
      BY <1>0, <2>1, <2>11
    <3>2. Grown(t.entries, nx, dep, pre, n, pos) /\ leaf \in Live(nx) /\ dep[leaf] = n
          /\ At(pos, n, pre[leaf]) /\ dep[e] = n /\ At(pos, n, pre[e])
      BY <1>0, <1>3, <2>1, <2>9, <3>1
    <3>3. e = leaf
      BY ONLY <1>0, <3>2, e \in Live(nx), pos \in Nat, SameLeaf
    <3>4. QED  BY <1>7, <3>3
  <2>12. QED  BY <2>10, <2>11
<1>8. leaf \in Live(nx) /\ (\A e \in Live(nx) : E[e] = IF e = leaf THEN s ELSE t.entries[e])
  BY <1>0, <1>3
<1>9. ASSUME NEW e \in Live(nx) PROVE Settled(E[e], dep[e], pre[e], end)
  <2>1. CASE e = leaf
    <3>1. E[e] = s /\ dep[e] = n /\ pre[e] = c /\ s # Unused
      BY <1>0, <1>3, <1>4, <1>8, <2>1, KindsDiffer
    <3>2. Right(s, n, c)
      <4>1. n - lens[s] = 0 /\ lens[s] <= n
        BY <1>0
      <4>2. Quotient(c, 1, c)
        BY Times DEF Quotient
      <4>3. QED  BY <1>1, <4>1, <4>2, PowerFacts DEF Right
    <3>3. QED  BY <1>1, <1>6, <3>1, <3>2 DEF Settled
  <2>2. CASE e # leaf
    <3>1. E[e] = t.entries[e]
      BY <1>8, <2>2
    <3>2. Settled(t.entries[e], dep[e], pre[e], pos)
      BY <1>0, <1>3 DEF Grown
    <3>3. ASSUME t.entries[e] \in Used
          PROVE  /\ Right(t.entries[e], dep[e], pre[e])
                 /\ (pre[e] + 1) * Power(MaxLen - dep[e]) <= end
      <4>1. (pre[e] + 1) * Power(MaxLen - dep[e]) <= pos /\ Right(t.entries[e], dep[e], pre[e])
        BY <3>2, <3>3 DEF Settled
      <4>2. (pre[e] + 1) * Power(MaxLen - dep[e]) \in Nat
        <5>1. Placed(e, dep, pre, n)
          BY <1>0, <1>3 DEF Grown
        <5>2. dep[e] \in 0..MaxLen /\ pre[e] + 1 \in Nat
          BY <1>0, <5>1, TableSizes, HuffmanSizes DEF Placed
        <5>3. Power(MaxLen - dep[e]) \in Nat
          BY <5>2, PowerFacts, HuffmanSizes
        <5>4. QED  BY <5>2, <5>3, Times
      <4>3. QED  BY <1>6, <4>1, <4>2
    <3>4. QED  BY <1>7, <2>2, <3>1, <3>3 DEF Settled
  <2>3. QED  BY <2>1, <2>2
<1>10. s \in Used /\ s \notin NodesTo(nx)
  BY KindsDiffer
<1>11. ASSUME NEW e \in Live(nx)
       PROVE  /\ E[e] \in Used \/ E[e] = Unused \/ E[e] \in NodesTo(nx)
              /\ E[e] \in NodesTo(nx) => ChildrenOf(e, E[e], dep, pre) /\ Beginning(dep[e], pre[e])
  BY <1>0, <1>3, <1>8, <1>10 DEF Grown
<1>12. ASSUME NEW k \in NodesTo(nx) PROVE \E e \in Live(nx) : E[e] = k
  <2>1. PICK e \in Live(nx) : t.entries[e] = k
    BY <1>0, <1>3 DEF Grown
  <2>2. e # leaf
    BY <1>5, <2>1, KindsDiffer
  <2>3. QED  BY <1>8, <2>1, <2>2
<1>13. /\ nx \in Nat /\ FirstNode <= nx /\ nx <= FirstNode + NumSyms
       /\ n \in TableBits..MaxLen
       /\ \A e \in Live(nx) : Placed(e, dep, pre, n)
       /\ LabelsDiffer(nx, dep, pre)
  BY <1>0, <1>3 DEF Grown
<1>14. Grown(E, nx, dep, pre, n, end)
  <2>1. \A e \in Live(nx) : Settled(E[e], dep[e], pre[e], end)
    BY ONLY <1>9
  <2>2. \A e \in Live(nx) : /\ E[e] \in Used \/ E[e] = Unused \/ E[e] \in NodesTo(nx)
                            /\ E[e] \in NodesTo(nx) => /\ ChildrenOf(e, E[e], dep, pre)
                                                       /\ Beginning(dep[e], pre[e])
    BY ONLY <1>11
  <2>3. \A k \in NodesTo(nx) : \E e \in Live(nx) : E[e] = k
    BY ONLY <1>12
  <2>4. QED  BY ONLY <1>13, <2>1, <2>2, <2>3 DEF Grown
<1>15. QED  BY <1>1, <1>3, <1>6, <1>14

-----------------------------------------------------------------------------
(* The long codes grow the tree.                                           *)
LongInv(t, n, c) ==
  t.ok => /\ t.inside /\ t.pos = c * Power(MaxLen - n) /\ t.pos <= Power(MaxLen)
          /\ \E dep, pre : Grown(t.entries, t.next, dep, pre, n, t.pos)
LongSet == {y \in Tables \X Nat \X Nat : LongInv(y[1], y[2], y[3])}

LEMMA InLongSet ==
  ASSUME NEW t, NEW n, NEW c
  PROVE  <<t, n, c>> \in LongSet <=> t \in Tables /\ n \in Nat /\ c \in Nat /\ LongInv(t, n, c)
BY DEF LongSet

LEMMA TreeTakes ==
  ASSUME LensOK, Full, NEW n \in (TableBits + 1)..MaxLen
  PROVE  TakesCodes(LongSet, n)
<1> SUFFICES ASSUME NEW u, NEW s \in OfLength(n), <<u, n, Code(s)>> \in LongSet
             PROVE  <<Enter(u, s), n, Code(s) + 1>> \in LongSet
  BY DEF TakesCodes
<1>0. n \in Nat /\ n > 0 /\ n > TableBits /\ n \in TableBits..MaxLen /\ MaxLen - n \in 0..Most
      /\ n \in 0..Most
  BY TableSizes, HuffmanSizes
<1>1. s \in Used /\ s \in Syms /\ lens[s] = n
  BY <1>0 DEF OfLength, Used
<1>2. u \in Tables /\ LongInv(u, n, Code(s)) /\ Code(s) \in Nat
  BY InLongSet
<1>3. Enter(u, s) = LongCode(u, s)
  BY <1>0, <1>1, TableSizes DEF Enter
<1>4. SUFFICES LongCode(u, s) \in Tables /\ LongInv(LongCode(u, s), n, Code(s) + 1)
  <2>1. Code(s) + 1 \in Nat
    BY <1>2
  <2>2. QED  BY <1>0, <1>3, <1>4, <2>1, InLongSet
<1>5. CASE ~u.ok
  <2>1. LongCode(u, s) = u
    BY <1>5 DEF LongCode
  <2>2. QED  BY <1>2, <1>5, <2>1 DEF LongInv
<1>6. CASE u.ok
  <2>1. PICK r \in Nat, c \in Nat, pos \in Nat :
          r = Power(MaxLen - n) /\ r >= 1 /\ c = Code(s) /\ pos = u.pos
    BY <1>0, <1>2, PowerFacts DEF Tables
  <2>2. u.inside /\ pos = c * r /\ pos <= Power(MaxLen)
    BY <1>2, <1>6, <2>1 DEF LongInv
  <2>3. PICK dep, pre : Grown(u.entries, u.next, dep, pre, n, pos)
    BY <1>2, <1>6, <2>1 DEF LongInv
  <2>4. PICK p : p = Path(u, lens[s] - TableBits)
    OBVIOUS
  <2>5. PICK end : end = u.pos + Power(MaxLen - lens[s])
    OBVIOUS
  <2>6. PICK w : w = LongCode(u, s)
    OBVIOUS
  <2>7. /\ w \in Tables /\ w.pos = end /\ w.ok = (end <= Power(MaxLen))
        /\ w.inside = p.inside /\ w.next = p.next /\ p \in Tables
        /\ \A e \in Entries : w.entries[e] = IF e = p.leaf THEN s ELSE p.entries[e]
    <3>1. u \in Tables /\ u.ok /\ u.pos <= Power(MaxLen)
      BY <1>2, <1>6, <2>1, <2>2
    <3>2. s \in Syms /\ lens[s] \in (TableBits + 1)..MaxLen
      BY <1>1
    <3>3. /\ p \in Tables /\ LongCode(u, s) \in Tables /\ LongCode(u, s).pos = end
          /\ LongCode(u, s).ok = (end <= Power(MaxLen))
          /\ LongCode(u, s).inside = p.inside /\ LongCode(u, s).next = p.next
          /\ \A e \in Entries : LongCode(u, s).entries[e] = IF e = p.leaf THEN s ELSE p.entries[e]
      BY ONLY <2>4, <2>5, <3>1, <3>2, LongCodeEffect
    <3>4. QED  BY <2>6, <3>3
  <2>8. SUFFICES ASSUME end <= Power(MaxLen) PROVE LongInv(w, n, c + 1)
    <3>1. CASE end <= Power(MaxLen)
      BY <2>1, <2>6, <2>7, <2>8, <3>1
    <3>2. CASE ~ (end <= Power(MaxLen))
      BY <2>6, <2>7, <3>2 DEF LongInv
    <3>3. QED  BY <3>1, <3>2
  <2>9. end = pos + r /\ pos < Power(MaxLen) /\ end = (c + 1) * r
    <3>1. Power(MaxLen) \in Nat /\ (c + 1) * r = c * r + r
      BY <2>1, PowerFacts, HuffmanSizes, Times
    <3>2. end = pos + r
      BY <1>1, <2>1, <2>5
    <3>3. pos < Power(MaxLen)
      BY <2>1, <2>8, <3>1, <3>2
    <3>4. end = (c + 1) * r
      BY <2>2, <3>1, <3>2
    <3>5. QED  BY <3>2, <3>3, <3>4
  <2>10. ASSUME NEW d \in TableBits..(n - 1) PROVE FirstFree(d) * Power(MaxLen - d) <= pos
    <3>1. d \in Nat /\ d \in 0..Most /\ n \in d..Most /\ d < n /\ MaxLen - d \in (MaxLen - n)..Most
          /\ (MaxLen - d) - (MaxLen - n) = n - d
      BY <1>0, TableSizes, HuffmanSizes
    <3>2. PICK f \in Nat, m \in Nat : f = FirstFree(d) /\ m = Power(n - d)
      <4>1. n - d \in 0..Most
        BY <1>0, <3>1, HuffmanSizes
      <4>2. QED  BY <3>1, <4>1, FirstFreeFacts, PowerFacts
    <3>3. f * m <= FirstCode(n)
      BY <3>1, <3>2, FreeGrows
    <3>4. FirstCode(n) <= c /\ FirstCode(n) \in Nat
      BY <1>0, <1>1, <2>1, CodeFacts, FirstFreeFacts
    <3>5. f * m \in Nat /\ f * m <= c
      BY <3>2, <3>3, <3>4, TimesTimes
    <3>6. (f * m) * r <= c * r
      BY <2>1, <3>5, TimesMonotone
    <3>7. Power(MaxLen - d) = m * r
      <4>1. r * Power(n - d) = Power(MaxLen - d)
        BY <1>0, <2>1, <3>1, PowerTimes
      <4>2. QED  BY <3>2, <4>1
    <3>8. f * (m * r) = (f * m) * r
      BY <2>1, <3>2, TimesTimes
    <3>9. QED  BY <2>2, <3>2, <3>6, <3>7, <3>8
  <2>11. PICK dep2, pre2 : Trail(p, dep2, pre2, n, n, pos)
    <3>1. /\ u \in Tables /\ u.ok /\ u.inside /\ u.pos = pos /\ pos < Power(MaxLen)
          /\ p = Path(u, n - TableBits)
      BY <1>1, <1>2, <1>6, <2>1, <2>2, <2>4, <2>9
    <3>2. \A d \in TableBits..(n - 1) : FirstFree(d) * Power(MaxLen - d) <= pos
      BY ONLY <2>10
    <3>3. QED  BY ONLY LensOK, Full, <2>3, <3>1, <3>2, pos \in Nat, PathGrows
  <2>12. p.inside /\ p.next \in Nat /\ p.next <= FirstNode + NumSyms
    BY <2>11 DEF Trail, Grown
  <2>13. \A e \in Live(p.next) : w.entries[e] = IF e = p.leaf THEN s ELSE p.entries[e]
    BY <2>7, <2>12, LiveInside
  <2>14. Grown(w.entries, p.next, dep2, pre2, n, pos + Power(MaxLen - n))
    <3>1. pos = Code(s) * Power(MaxLen - n)
      BY <2>1, <2>2
    <3>2. QED  BY ONLY LensOK, <1>0, <1>1, <2>11, <2>13, <3>1, pos \in Nat, SymbolEntered
  <2>15. Grown(w.entries, w.next, dep2, pre2, n, w.pos)
    BY <2>1, <2>7, <2>9, <2>14
  <2>16. w.inside /\ w.pos = (c + 1) * Power(MaxLen - n) /\ w.pos <= Power(MaxLen)
    BY <2>1, <2>7, <2>8, <2>9, <2>12
  <2>17. QED  BY <2>15, <2>16 DEF LongInv
<1>7. QED  BY <1>5, <1>6

LEMMA DeeperTree ==
  ASSUME NEW E, NEW nx, NEW dep, NEW pre, NEW n \in Nat, NEW m \in n..MaxLen, NEW pos,
         Grown(E, nx, dep, pre, n, pos)
  PROVE  Grown(E, nx, dep, pre, m, pos)
<1>1. n \in TableBits..MaxLen /\ m \in TableBits..MaxLen /\ n \in Int /\ m \in Int /\ n <= m
      /\ TableBits \in Int
  BY TableSizes, HuffmanSizes DEF Grown
<1>2. ASSUME NEW e, Placed(e, dep, pre, n) PROVE Placed(e, dep, pre, m)
  BY <1>1, <1>2 DEF Placed
<1>3. QED  BY <1>1, <1>2 DEF Grown

LEMMA TreeEnd ==
  ASSUME LensOK, Full, NEW t \in Tables, LongInv(t, TableBits, FirstFree(TableBits)),
         NEW w, w = WithLengths(t, TableBits, MaxLen)
  PROVE  LongInv(w, MaxLen, FirstFree(MaxLen))
<1>1. <<t, TableBits, FirstFree(TableBits)>> \in LongSet
  BY TableSizes, FirstFreeFacts, InLongSet
<1>2. ASSUME NEW n \in (TableBits + 1)..MaxLen
      PROVE  /\ TakesCodes(LongSet, n)
             /\ \A u : <<u, n - 1, FirstFree(n - 1)>> \in LongSet
                         => <<u, n, FirstCode(n)>> \in LongSet
  <2>1. n \in 1..MaxLen /\ n \in Nat /\ n \in 0..Most /\ MaxLen \in 0..Most
        /\ n - 1 \in Nat /\ n \in (n - 1)..MaxLen
    BY TableSizes, HuffmanSizes
  <2>2. ASSUME NEW u, <<u, n - 1, FirstFree(n - 1)>> \in LongSet
        PROVE  <<u, n, FirstCode(n)>> \in LongSet
    <3>1. u \in Tables /\ LongInv(u, n - 1, FirstFree(n - 1))
      BY <2>2, InLongSet
    <3>2. FirstCode(n) \in Nat
      BY <2>1, FirstFreeFacts
    <3>3. FirstFree(n - 1) * Power(MaxLen - (n - 1)) = FirstCode(n) * Power(MaxLen - n)
      BY <2>1, NextUnit
    <3>4. LongInv(u, n, FirstCode(n))
      BY <2>1, <3>1, <3>3, DeeperTree DEF LongInv
    <3>5. QED  BY <2>1, <3>1, <3>2, <3>4, InLongSet
  <2>3. QED  BY <2>2, TreeTakes
<1>3. TableBits \in 0..MaxLen /\ MaxLen \in TableBits..MaxLen
  BY TableSizes, HuffmanSizes
<1>4. <<w, MaxLen, FirstFree(MaxLen)>> \in LongSet
  BY <1>1, <1>2, <1>3, LoopsKeep
<1>5. QED  BY <1>4, InLongSet

(* The first tree: the table itself, cleared behind the short codes.       *)
LEMMA ClearedTree ==
  ASSUME LensOK, NEW t \in Tables, t.ok, ShortInv(t, TableBits, FirstFree(TableBits)), NEW v,
         v = [Put(t, t.pos..(TableMask - 1), Unused) EXCEPT !.pos = @ * Power(Shift)]
  PROVE  /\ v \in Tables /\ v.ok
         /\ LongInv(v, TableBits, FirstFree(TableBits))
         /\ LongPos(v, TableBits, FirstFree(TableBits))
<1>0. TableBits \in 0..Most /\ MaxLen \in TableBits..Most /\ TableBits - TableBits = 0
      /\ Shift = MaxLen - TableBits /\ Shift \in 0..Most
  BY TableSizes, HuffmanSizes
<1>1. PICK f \in Nat, r \in Nat : /\ f = FirstFree(TableBits) /\ r = Power(Shift)
                                  /\ TableMask * r = Power(MaxLen)
  BY <1>0, TableSizes, FirstFreeFacts, PowerFacts, PowerTimes
<1>2. /\ t.inside /\ t.next = FirstNode /\ t.pos = f /\ f <= TableMask
      /\ \A e \in 0..(f - 1) : Right(t.entries[e], TableBits, e)
  <2>1. f * Power(0) = f
    BY PowerFacts, Times
  <2>2. QED  BY <1>0, <1>1, <2>1 DEF ShortInv
<1>3. PICK S : S = f..(TableMask - 1) /\ S \subseteq Entries
  <2>1. f..(TableMask - 1) \subseteq Entries
    BY TableSizes, HuffmanSizes DEF Entries
  <2>2. QED  BY <2>1
<1>4. PICK u : u = Put(t, S, Unused)
  OBVIOUS
<1>5. /\ u \in Tables /\ u.pos = f /\ u.next = FirstNode /\ u.ok /\ u.inside
      /\ \A e \in Entries : u.entries[e] = IF e \in S THEN Unused ELSE t.entries[e]
  <2>1. Unused \in Int
    BY DEF Unused
  <2>2. /\ u \in Tables /\ u.pos = t.pos /\ u.next = t.next /\ u.ok = t.ok /\ u.inside = t.inside
        /\ \A e \in Entries : u.entries[e] = IF e \in S THEN Unused ELSE t.entries[e]
    <3>1. S \subseteq Entries
      BY <1>3
    <3>2. QED  BY ONLY <1>4, <2>1, <3>1, t \in Tables, PutEffect
  <2>3. QED  BY <1>2, <2>2
<1>6. v = [u EXCEPT !.pos = @ * r]
  BY <1>1, <1>2, <1>3, <1>4
<1>7. f * r \in Nat
  BY Times
<1>8. /\ v \in Tables /\ v.pos = f * r /\ v.next = FirstNode /\ v.ok /\ v.inside
      /\ v.entries = u.entries
  BY <1>5, <1>6, <1>7 DEF Tables
<1>9. f * r <= Power(MaxLen)
  BY <1>1, <1>2, TableSizes, TimesMonotone
<1>10. PICK dep, pre : dep = [e \in Live(FirstNode) |-> TableBits]
                       /\ pre = [e \in Live(FirstNode) |-> e]
  OBVIOUS
<1>11. ASSUME NEW e \in Live(FirstNode)
       PROVE  /\ e \in Nat /\ e < TableMask /\ e \in Entries
              /\ dep[e] = TableBits /\ pre[e] = e
              /\ v.entries[e] \in Used \/ v.entries[e] = Unused
              /\ Settled(v.entries[e], TableBits, e, f * r)
  <2>1. e \in Nat /\ e < TableMask /\ e \in Entries
    BY TableSizes, HuffmanSizes DEF Live, Entries
  <2>2. dep[e] = TableBits /\ pre[e] = e
    BY <1>10
  <2>3. CASE e < f
    <3>1. e \in 0..(f - 1) /\ e \notin S
      BY <1>3, <2>1, <2>3
    <3>2. v.entries[e] = t.entries[e]
      BY <1>5, <1>8, <2>1, <3>1
    <3>3. Right(v.entries[e], TableBits, e)
      BY <1>2, <3>1, <3>2
    <3>4. v.entries[e] \in Used /\ v.entries[e] # Unused
      BY <3>3, KindsDiffer DEF Right
    <3>5. (e + 1) * r <= f * r
      BY <2>1, <2>3, TimesMonotone
    <3>6. QED  BY <1>0, <1>1, <2>1, <2>2, <3>3, <3>4, <3>5 DEF Settled
  <2>4. CASE ~ (e < f)
    <3>1. e \in S
      BY <1>3, <2>1, <2>4, TableSizes
    <3>2. v.entries[e] = Unused /\ Unused \notin Used
      BY <1>5, <1>8, <2>1, <3>1, KindsDiffer
    <3>3. f * r <= e * r
      BY <2>1, <2>4, TimesMonotone
    <3>4. QED  BY <1>0, <1>1, <2>1, <2>2, <3>2, <3>3 DEF Settled
  <2>5. QED  BY <2>3, <2>4
<1>12. NodesTo(FirstNode) = {}
  BY TableSizes DEF NodesTo
<1>13. Grown(v.entries, FirstNode, dep, pre, TableBits, f * r)
  <2>1. FirstNode \in Nat /\ FirstNode <= FirstNode + NumSyms /\ TableBits \in TableBits..MaxLen
    BY TableSizes, HuffmanSizes
  <2>2. ASSUME NEW e \in Live(FirstNode) PROVE Placed(e, dep, pre, TableBits)
    BY <1>11, TableSizes DEF Placed
  <2>3. LabelsDiffer(FirstNode, dep, pre)
    BY <1>11 DEF LabelsDiffer
  <2>4. QED  BY <1>11, <1>12, <2>1, <2>2, <2>3 DEF Grown
<1>14. LongPos(v, TableBits, FirstFree(TableBits))
  BY <1>0, <1>1, <1>8, <1>9 DEF LongPos
<1>15. LongInv(v, TableBits, FirstFree(TableBits))
  BY <1>0, <1>1, <1>8, <1>9, <1>13 DEF LongInv
<1>16. QED  BY <1>8, <1>14, <1>15

-----------------------------------------------------------------------------
(* Looking a symbol up.                                                    *)
Answer(v) == v \in Used /\ Peek(lens[v]) = Code(v)

LEMMA RightIsAnswer ==
  ASSUME LensOK, InputOK, NEW v, NEW d \in 0..Most, Right(v, d, Peek(d))
  PROVE  Answer(v)
<1>1. v \in Used /\ lens[v] <= d /\ Quotient(Peek(d), Power(d - lens[v]), Code(v))
  BY DEF Right
<1>2. Code(v) \in Nat /\ lens[v] \in 0..Most /\ d \in lens[v]..Most
  BY <1>1, CodeFacts, HuffmanSizes
<1>3. QED  BY <1>1, <1>2, PeekPrefix DEF Answer

(* An entry for the bits of the input is that of the answer, or a node's.  *)
LEMMA EntryRead ==
  ASSUME LensOK, InputOK, NEW E, NEW nx, NEW dep, NEW pre,
         Grown(E, nx, dep, pre, MaxLen, Power(MaxLen)),
         NEW e \in Live(nx), NEW d \in 0..MaxLen, dep[e] = d, pre[e] = Peek(d)
  PROVE  Answer(E[e]) \/ (E[e] \in NodesTo(nx) /\ d < MaxLen)
<1>1. d \in 0..Most /\ MaxLen \in d..Most
  BY HuffmanSizes
<1>2. E[e] \in Used \/ E[e] = Unused \/ E[e] \in NodesTo(nx)
  BY DEF Grown
<1>3. Settled(E[e], d, Peek(d), Power(MaxLen))
  BY DEF Grown
<1>4. CASE E[e] \in Used
  BY <1>1, <1>3, <1>4, RightIsAnswer DEF Settled
<1>5. E[e] # Unused
  <2>1. SUFFICES ASSUME E[e] = Unused PROVE FALSE
    OBVIOUS
  <2>2. PICK p \in Nat, w \in Nat, r \in Nat :
          /\ p = Peek(d) /\ w = Power(d) /\ r = Power(MaxLen - d) /\ r >= 1
          /\ p < w /\ w * r = Power(MaxLen)
    <3>1. Peek(d) \in Nat /\ Peek(d) < Power(d) /\ Power(d) \in Nat
      BY <1>1, PeekBelowPower
    <3>2. Power(d) * Power(MaxLen - d) = Power(MaxLen) /\ MaxLen - d \in 0..Most
      BY <1>1, PowerTimes
    <3>3. Power(MaxLen - d) \in Nat /\ Power(MaxLen - d) >= 1
      BY <3>2, PowerFacts
    <3>4. QED  BY <3>1, <3>2, <3>3
  <2>3. w * r <= p * r
    BY <1>3, <2>1, <2>2 DEF Settled
  <2>4. p + 1 <= w /\ p + 1 \in Nat
    BY <2>2
  <2>5. (p + 1) * r <= w * r
    BY <2>2, <2>4, TimesMonotone
  <2>6. (p + 1) * r = p * r + r /\ p * r \in Nat /\ w * r \in Nat
    BY <2>2, Times
  <2>7. QED  BY <2>2, <2>3, <2>5, <2>6
<1>6. CASE E[e] \in NodesTo(nx)
  <2>1. Beginning(d, Peek(d))
    BY <1>6 DEF Grown
  <2>2. d < MaxLen
    BY <2>1, HuffmanSizes DEF Beginning
  <2>3. QED  BY <1>6, <2>2
<1>7. QED  BY <1>2, <1>4, <1>5, <1>6

LEMMA ReadIsAnswer ==
  ASSUME LensOK, InputOK, NEW t \in Tables, NEW dep, NEW pre,
         Grown(t.entries, t.next, dep, pre, MaxLen, Power(MaxLen))
  PROVE  Answer(ReadHuffsym(t))
<1>0. PICK nx, E : nx \in Nat /\ nx = t.next /\ E = t.entries /\ FirstNode <= nx
  BY DEF Grown
<1>1. PICK w : /\ w[0] = t.entries[Peek(TableBits)] /\ ReadHuffsym(t) = w[MaxLen]
               /\ \A k \in 1..MaxLen :
                    w[k] = IF k <= TableBits THEN t.entries[Peek(TableBits)]
                           ELSE IF w[k - 1] < NumSyms THEN w[k - 1]
                           ELSE t.entries[2 * w[k - 1] + Bit(k)]
  BY ReadTurns
<1> DEFINE Turns(k) == \/ Answer(w[k])
                       \/ /\ w[k] \in NodesTo(nx) /\ k < MaxLen
                          /\ \E e \in Live(nx) : E[e] = w[k] /\ dep[e] = k /\ pre[e] = Peek(k)
           P == {k \in 0..MaxLen : k >= TableBits => Turns(k)}
<1>2. ASSUME NEW k \in 0..MaxLen, NEW e \in Live(nx), w[k] = E[e], dep[e] = k, pre[e] = Peek(k)
      PROVE  Turns(k)
  <2>1. Answer(E[e]) \/ (E[e] \in NodesTo(nx) /\ k < MaxLen)
    <3>1. Grown(E, nx, dep, pre, MaxLen, Power(MaxLen))
      BY <1>0
    <3>2. QED  BY ONLY LensOK, InputOK, <1>2, <3>1, EntryRead
  <2>2. QED  BY <1>2, <2>1
<1>3. ASSUME NEW k \in 1..MaxLen, k - 1 \in P PROVE k \in P
  <2>1. SUFFICES ASSUME k >= TableBits PROVE Turns(k)
    BY HuffmanSizes
  <2>2. k \in 0..MaxLen /\ k \in 1..Most /\ k \in Nat
    BY HuffmanSizes
  <2>3. CASE k = TableBits
    <3>1. Peek(k) \in Nat /\ Peek(k) < TableMask
      <4>1. k \in 0..Most
        BY <2>2
      <4>2. QED  BY <2>3, <4>1, PeekBelowPower, TableSizes
    <3>2. Peek(k) \in Live(nx)
      BY <1>0, <3>1, TableSizes DEF Live
    <3>3. w[k] = E[Peek(k)]
      BY <1>0, <1>1, <2>3
    <3>4. dep[Peek(k)] = k /\ pre[Peek(k)] = Peek(k)
      BY <1>0, <2>3, <3>1, <3>2 DEF Grown, Placed
    <3>5. QED  BY <1>2, <2>2, <3>2, <3>3, <3>4
  <2>4. CASE k # TableBits
    <3>1. PICK j \in Nat : /\ j = k - 1 /\ k = j + 1 /\ ~ (k <= TableBits) /\ j \in 0..MaxLen
                           /\ j >= TableBits
      BY <2>1, <2>2, <2>4, TableSizes, HuffmanSizes
    <3>2. Turns(j)
      BY <1>3, <3>1
    <3>3. w[k] = IF w[j] < NumSyms THEN w[j] ELSE E[2 * w[j] + Bit(k)]
      BY <1>0, <1>1, <3>1
    <3>4. CASE Answer(w[j])
      <4>1. w[j] < NumSyms
        BY <3>4, KindsDiffer DEF Answer
      <4>2. w[k] = w[j]
        BY <3>3, <4>1
      <4>3. QED  BY <3>4, <4>2
    <3>5. CASE ~ Answer(w[j])
      <4>1. PICK e \in Live(nx) : /\ w[j] \in NodesTo(nx) /\ E[e] = w[j] /\ dep[e] = j
                                  /\ pre[e] = Peek(j)
        BY <3>2, <3>5
      <4>2. ~ (w[j] < NumSyms)
        BY <4>1, KindsDiffer
      <4>3. Peek(k) = 2 * Peek(j) + Bit(k) /\ Bit(k) \in {0, 1} /\ Peek(j) \in Nat
        <5>1. j \in 0..Most /\ input \in Seq({0, 1})
          BY <3>1, HuffmanSizes DEF InputOK
        <5>2. QED  BY <2>2, <3>1, <5>1, PeekFacts
      <4>4. PICK g : g = 2 * w[j] + Bit(k)
        OBVIOUS
      <4>5. ChildrenOf(e, w[j], dep, pre)
        BY <1>0, <4>1 DEF Grown
      <4>6. 2 * w[j] \in Live(nx) /\ 2 * w[j] + 1 \in Live(nx) /\ w[j] \in Nat
        BY <1>0, <4>1, NodeEntries
      <4>7. g \in Live(nx) /\ dep[g] = k /\ pre[g] = Peek(k)
        <5>1. CASE Bit(k) = 0
          <6>1. g = 2 * w[j] /\ Peek(k) = 2 * Peek(j)
            BY <4>3, <4>4, <4>6, <5>1
          <6>2. QED  BY <3>1, <4>1, <4>5, <4>6, <6>1 DEF ChildrenOf
        <5>2. CASE Bit(k) = 1
          <6>1. g = 2 * w[j] + 1 /\ Peek(k) = 2 * Peek(j) + 1
            BY <4>3, <4>4, <5>2
          <6>2. QED  BY <3>1, <4>1, <4>5, <4>6, <6>1 DEF ChildrenOf
        <5>3. QED  BY <4>3, <5>1, <5>2
      <4>8. w[k] = E[g]
        BY <3>3, <4>2, <4>4
      <4>9. QED  BY <1>2, <2>2, <4>7, <4>8
    <3>6. QED  BY <3>4, <3>5
  <2>5. QED  BY <2>3, <2>4
<1>4. 0 \in P
  BY TableSizes, HuffmanSizes
<1>5. MaxLen \in P
  <2>1. \A k \in 1..MaxLen : k - 1 \in P => k \in P
    BY ONLY <1>3
  <2> HIDE DEF P
  <2>2. \A k \in 0..MaxLen : k \in P
    BY <1>4, <2>1, HuffmanSizes, BoundedInduction
  <2>3. QED  BY <2>2, HuffmanSizes
<1>6. Answer(w[MaxLen])
  BY <1>5, TableSizes, HuffmanSizes
<1>7. QED  BY <1>1, <1>6

(* In a table full of short codes it is the entry of the first bits.       *)
LEMMA ShortRead ==
  ASSUME NEW t, t.entries[Peek(TableBits)] < NumSyms
  PROVE  ReadHuffsym(t) = t.entries[Peek(TableBits)]
<1>1. PICK w : /\ w[0] = t.entries[Peek(TableBits)] /\ ReadHuffsym(t) = w[MaxLen]
               /\ \A k \in 1..MaxLen :
                    w[k] = IF k <= TableBits THEN t.entries[Peek(TableBits)]
                           ELSE IF w[k - 1] < NumSyms THEN w[k - 1]
                           ELSE t.entries[2 * w[k - 1] + Bit(k)]
  BY ReadTurns
<1> DEFINE P == {k \in 0..MaxLen : w[k] = t.entries[Peek(TableBits)]}
<1>2. ASSUME NEW k \in 1..MaxLen, k - 1 \in P PROVE k \in P
  BY <1>1, <1>2, HuffmanSizes
<1>3. MaxLen \in P
  <2>1. 0 \in P /\ \A k \in 1..MaxLen : k - 1 \in P => k \in P
    BY <1>1, <1>2, HuffmanSizes
  <2> HIDE DEF P
  <2>2. \A k \in 0..MaxLen : k \in P
    BY <2>1, HuffmanSizes, BoundedInduction
  <2>3. QED  BY <2>2, HuffmanSizes
<1>4. QED  BY <1>1, <1>3

-----------------------------------------------------------------------------
(* A table that is taken answers every input, and was built inside.        *)
LEMMA TableAnswers ==
  ASSUME LensOK, InputOK, Used # {}, NEW table, table = MakeDecodeTable, table.ok
  PROVE  table.inside /\ Answer(ReadHuffsym(table))
<1>1. PICK short : short = WithLengths(NewTable, 0, TableBits)
  OBVIOUS
<1>2. PICK cleared :
        cleared = [Put(short, short.pos..(TableMask - 1), Unused) EXCEPT !.pos = @ * Power(Shift)]
  OBVIOUS
<1>3. PICK long : long = WithLengths(cleared, TableBits, MaxLen)
  OBVIOUS
<1>4. table = IF ~short.ok \/ short.pos = TableMask THEN short
              ELSE IF long.ok /\ long.pos # Power(MaxLen) THEN [long EXCEPT !.ok = FALSE] ELSE long
  BY <1>1, <1>2, <1>3 DEF MakeDecodeTable
<1>5. short \in Tables /\ ShortInv(short, TableBits, FirstFree(TableBits))
  BY <1>1, ShortTable
<1>6. CASE ~short.ok
  BY <1>4, <1>6
<1>7. CASE short.ok /\ short.pos = TableMask
  <2>1. table = short /\ table.inside
    BY <1>4, <1>5, <1>7 DEF ShortInv
  <2>2. Peek(TableBits) \in 0..(short.pos - 1)
    BY <1>7, TableSizes, PeekBelowPower
  <2>3. PICK v : v = short.entries[Peek(TableBits)]
    OBVIOUS
  <2>4. Right(v, TableBits, Peek(TableBits))
    BY <1>5, <1>7, <2>2, <2>3 DEF ShortInv
  <2>5. Answer(v)
    BY <2>4, TableSizes, RightIsAnswer
  <2>6. v < NumSyms
    BY <2>5, KindsDiffer DEF Answer
  <2>7. ReadHuffsym(short) = v
    BY <2>3, <2>6, ShortRead
  <2>8. QED  BY <2>1, <2>5, <2>7
<1>8. CASE short.ok /\ short.pos # TableMask
  <2>1. /\ cleared \in Tables /\ cleared.ok
        /\ LongInv(cleared, TableBits, FirstFree(TableBits))
        /\ LongPos(cleared, TableBits, FirstFree(TableBits))
    BY <1>2, <1>5, <1>8, ClearedTree
  <2>2. long \in Tables /\ LongPos(long, MaxLen, FirstFree(MaxLen))
    BY <1>3, <2>1, LongEnd
  <2>3. table = IF long.ok /\ long.pos # Power(MaxLen) THEN [long EXCEPT !.ok = FALSE] ELSE long
    BY <1>4, <1>8
  <2>4. long.ok /\ long.pos = Power(MaxLen) /\ table = long
    <3>1. SUFFICES ASSUME long.ok, long.pos # Power(MaxLen) PROVE FALSE
      BY <2>3
    <3>2. table = [long EXCEPT !.ok = FALSE]
      BY <2>3, <3>1
    <3>3. ~table.ok
      BY <2>2, <3>2 DEF Tables
    <3>4. QED  BY <3>3
  <2>5. Full
    <3>1. long.pos = FirstFree(MaxLen) * Power(MaxLen - MaxLen)
      BY <2>2, <2>4 DEF LongPos
    <3>2. FirstFree(MaxLen) * 1 = FirstFree(MaxLen) /\ MaxLen - MaxLen = 0 /\ Power(0) = 1
      BY HuffmanSizes, PowerFacts, FirstFreeFacts, Times
    <3>3. QED  BY <2>4, <3>1, <3>2 DEF Full
  <2>6. LongInv(long, MaxLen, FirstFree(MaxLen))
    BY <1>3, <2>1, <2>5, TreeEnd
  <2>7. table.inside /\ \E dep, pre : Grown(long.entries, long.next, dep, pre, MaxLen, Power(MaxLen))
    BY <2>4, <2>6 DEF LongInv
  <2>8. Answer(ReadHuffsym(long))
    BY <2>2, <2>7, ReadIsAnswer
  <2>9. QED  BY <2>4, <2>7, <2>8
<1>9. QED  BY <1>6, <1>7, <1>8

(* The table and the tree behind it that make_decode_table (lzxd.c) builds *)
(* for lengths it takes stay inside their array, two entries for a symbol  *)
(* as lzxd.h:87 says, and READ_HUFFSYM reads from them what the bit by bit *)
(* walk of lzx.py finds, which finds a symbol for every input.             *)
THEOREM NativeTableIsRight == WalkSpec => []NativeTableIsWalk
<1>1. WalkInv => NativeTableIsWalk
  <2>1. SUFFICES ASSUME WalkInv, status \in {"symbol", "invalid"}, Used # {}, MakeDecodeTable.ok
                 PROVE  /\ MakeDecodeTable.inside /\ status = "symbol"
                        /\ ReadHuffsym(MakeDecodeTable) = sym
    BY DEF NativeTableIsWalk
  <2>2. LensOK /\ InputOK
    BY <2>1 DEF WalkInv
  <2>3. PICK table : table = MakeDecodeTable
    OBVIOUS
  <2>4. table.inside /\ Answer(ReadHuffsym(table))
    BY <2>1, <2>2, <2>3, TableAnswers
  <2>5. status = "symbol" /\ ReadHuffsym(table) = sym
    <3>1. status # "walking" /\ status # "eof"
      BY <2>1
    <3>2. QED  BY <2>1, <2>4, <3>1, OneSymbolFits DEF Answer
  <2>6. QED  BY <2>3, <2>4, <2>5
<1>2. QED  BY <1>1, WalkInvariant, PTL

=============================================================================
