------------------------------ MODULE TokenStream ------------------------------
(***************************************************************************)
(* decode_tokens (portable_akc.py): a body's main symbols turned into the  *)
(* tokens of its articles, one after the other.                            *)
(*                                                                         *)
(* A body is a record: the symbols that follow its dictionary, the symbol  *)
(* whose code is all zeros, which a reader past the end decodes for ever,  *)
(* and the number of negative entries.                                     *)
(***************************************************************************)
EXTENDS Integers, Sequences

CONSTANT PosCount   \* entries of the positive dictionary

ASSUME PosCountAssumption == PosCount \in Nat

Neg(i) == <<"neg", i>>
Pos(i) == <<"pos", i>>
(* Lengths of 2 and more, distances of 1 and more: the codes hold no less. *)
Copy(len, dist) == <<"copy", len, dist>>

Symbols == ({"neg", "pos"} \X Nat) \cup ({"copy"} \X (Nat \ {0, 1}) \X (Nat \ {0}))
Bodies == [symbols : Seq(Symbols), zero : Symbols, negCount : Nat, good : BOOLEAN]

Start(pos) == [ok |-> TRUE, tokens |-> <<>>, pos |-> pos]

SymbolAt(body, pos) ==
  IF pos < Len(body.symbols) THEN body.symbols[pos + 1] ELSE body.zero

InRange(body, sym) ==
  \/ sym[1] = "neg" /\ sym[2] < body.negCount
  \/ sym[1] = "pos" /\ sym[2] < PosCount

CopyStepsWhole(have, len, count) == len
CopySteps(have, len, count) == IF have + len <= count THEN len ELSE count - have

(* Each step of a copy appends the token dist back, which may be one that  *)
(* the same copy appended.                                                 *)
Copied(tokens, dist, steps) ==
  LET after[n \in 0..steps] ==
        IF n = 0 THEN tokens
        ELSE Append(after[n - 1], after[n - 1][Len(after[n - 1]) - dist + 1])
  IN after[steps]

Decoded(body, sym, s, count) ==
  IF sym[1] = "copy"
  THEN IF sym[3] > Len(s.tokens) THEN [s EXCEPT !.ok = FALSE]
       ELSE [s EXCEPT !.pos = @ + 1,
               !.tokens = Copied(@, sym[3], CopySteps(Len(@), sym[2], count))]
  ELSE IF InRange(body, sym) THEN [s EXCEPT !.pos = @ + 1, !.tokens = Append(@, sym)]
       ELSE [s EXCEPT !.ok = FALSE]

(* Every symbol yields a token or an error, so count steps are enough.     *)
DecodeTokens(body, pos, count) ==
  LET run[n \in 0..count] ==
        IF n = 0 THEN Start(pos)
        ELSE IF run[n - 1].ok /\ Len(run[n - 1].tokens) < count
             THEN Decoded(body, SymbolAt(body, run[n - 1].pos), run[n - 1], count)
             ELSE run[n - 1]
  IN run[count]

=============================================================================
