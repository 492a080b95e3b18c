-------------------------------- MODULE MCCodes --------------------------------
(* How code lengths arrive, in AKC (CodeLengths) and in LZX (LzxLengths),  *)
(* and what is read with the codes they give (Huffman, LzxTable), in one   *)
(* state space: which of them a behaviour is about is fixed in its first   *)
(* state, and the others stand still.                                      *)
EXTENDS CodeLengths, LzxTable, LzxLengths, SequencesExt

VARIABLE machine  \* "lengths", "huffman" or "trees"

(* All arrays of four short lengths, and arrays of seven up to MaxLen, in  *)
(* both orders, that take the code space but for a little, all of it, or   *)
(* too much.                                                               *)
MCSpace(l) ==
  MapThenSumSet(LAMBDA s : IF l[s] = 0 THEN 0 ELSE 2^(MaxLen - l[s]), 0..(NumSyms - 1))
MCShort == {[s \in 0..(NumSyms - 1) |-> IF s < 4 THEN l[s] ELSE 0] : l \in [0..3 -> 0..3]}
MCAscending ==
  {l \in [0..(NumSyms - 1) -> 0..MaxLen] :
     /\ \A s \in 1..(NumSyms - 1) : l[s - 1] <= l[s]
     /\ MCSpace(l) \in (2^MaxLen - 2)..(2^MaxLen + 4)}
MCArrays ==
  MCShort \cup MCAscending
    \cup {[s \in 0..(NumSyms - 1) |-> l[NumSyms - 1 - s]] : l \in MCAscending}

(* Short inputs, and long ones that lead to the ends of the code space.    *)
MCInputs ==
  BoundedSeq({0, 1}, 3) \cup {b \in [1..6 -> {0, 1}] : b[1] = b[2] /\ b[2] = b[3]}

LengthsIdle ==
  /\ phase = "done" /\ count = 0 /\ lengths = <<>> /\ left = 0 /\ out = 0 /\ pretree = NoTree
  /\ cur = 0 /\ prevPos = NoPrevious /\ remaining = 0 /\ width = 0
HuffmanIdle ==
  /\ lens = [s \in 0..(NumSyms - 1) |-> 0] /\ padded = FALSE /\ input = <<>>
  /\ code = 0 /\ ln = 0 /\ status = "walking" /\ sym = -1
TreesIdle ==
  /\ part = 1 /\ x = 0 /\ blocks = 1
  /\ py = [main |-> <<>>, length |-> <<>>] /\ native = [main |-> <<>>, length |-> <<>>]
  /\ wrapped = TRUE /\ spilled = FALSE

MCInit ==
  \/ machine = "lengths" /\ Init /\ HuffmanIdle /\ TreesIdle
  \/ machine = "huffman" /\ LengthsIdle /\ WalkInit /\ TreesIdle
  \/ machine = "trees" /\ LengthsIdle /\ HuffmanIdle /\ TreesInit
MCNext ==
  /\ UNCHANGED machine
  /\ \/ machine = "lengths" /\ Next /\ UNCHANGED <<walkvars, treevars>>
     \/ machine = "huffman" /\ WalkNext /\ UNCHANGED <<vars, treevars>>
     \/ machine = "trees" /\ TreesNext /\ UNCHANGED <<vars, walkvars>>
MCSpec ==
  /\ MCInit /\ [][MCNext]_<<machine, vars, walkvars, treevars>>
  /\ WF_vars(Next /\ UNCHANGED <<machine, walkvars, treevars>>)

(* Each transmission ends, the sparse one unless the reader runs dry.      *)
LengthsEnd == FillingEnds /\ SparseEndsOrRunsDry

=============================================================================
