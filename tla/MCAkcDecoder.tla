------------------------------ MODULE MCAkcDecoder ------------------------------
(* Bodies with plain tokens, copies that overlap or are cut, an index out  *)
(* of range, an end in the middle of an article, and one without a         *)
(* dictionary; windows that share a body, overlap, or lie in another.      *)
EXTENDS AkcDecoder

MCBody(symbols, zero, negCount) ==
  [symbols |-> symbols, zero |-> zero, negCount |-> negCount, good |-> TRUE]

MCFirst == {
  MCBody(<<Pos(1), Neg(0), Pos(2), Pos(3), Neg(1), Pos(1)>>, Pos(1), 2),
  MCBody(<<Pos(1), Neg(0), Copy(5, 2), Pos(2)>>, Neg(0), 2),
  MCBody(<<Neg(0), Copy(3, 1), Pos(2), Pos(1), Copy(2, 3)>>, Copy(2, 1), 1),
  MCBody(<<Pos(2), Pos(1), Neg(0), Neg(1), Pos(2)>>, Neg(0), 1),
  MCBody(<<Pos(0), Pos(2)>>, Pos(0), 1),
  MCBody(<<Pos(2), Copy(3, 2), Pos(1)>>, Pos(1), 1)}
MCSecond == {
  MCBody(<<Pos(2), Neg(0), Pos(1)>>, Neg(0), 1),
  [MCBody(<<Pos(2)>>, Pos(2), 1) EXCEPT !.good = FALSE]}

MCWindow(body, offset, count) == [body |-> body, offset |-> offset, count |-> count]
MCWindows == {
  <<MCWindow(1, 0, 2), MCWindow(1, 2, 3), MCWindow(2, 0, 3)>>,
  <<MCWindow(1, 2, 4), MCWindow(2, 0, 2), MCWindow(1, 0, 4)>>,
  <<MCWindow(1, 1, 0), MCWindow(1, 2, 1), MCWindow(1, 3, 4)>>,
  <<MCWindow(2, 0, 3), MCWindow(1, 0, 3), MCWindow(1, 1, 3)>>}

MCKeys == 0..2
MCFiles(keys) ==
  LET rank(k) == Cardinality({j \in keys : j <= k})
  IN {[bodies |-> <<f, s>>, windows |-> [k \in keys |-> w[rank(k)]]] :
        f \in MCFirst, s \in MCSecond, w \in MCWindows}
MCAkcFiles == MCFiles(MCKeys)
MCUnexpandable == {Neg(1)}

=============================================================================
