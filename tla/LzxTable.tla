-------------------------------- MODULE LzxTable --------------------------------
(***************************************************************************)
(* make_decode_table and READ_HUFFSYM (lzxd.c), on the code lengths and    *)
(* the input of module Huffman: a table of TableBits for short codes and,  *)
(* in the same array behind it, a tree of nodes for the rest of long ones. *)
(***************************************************************************)
EXTENDS Huffman

CONSTANT TableBits  \* LZX_*_TABLEBITS

(* A node's number must not be a symbol's. It holds for the four tables:   *)
(* 32 >= 20, 2048 >= 656 and 250, 64 >= 8.                                 *)
ASSUME TableAssumption == TableBits \in 1..MaxLen /\ Power(TableBits - 1) >= NumSyms

TableMask == Power(TableBits)
Entries == 0..(TableMask + 2 * NumSyms - 1)
Unwritten == -2
Unused == -1   \* 0xFFFF
FirstNodeBehind == TableMask
FirstNode == TableMask \div 2

(* inside: every entry the code used was in the array, and had been        *)
(* written before it was followed.                                         *)
NewTable ==
  [entries |-> [e \in Entries |-> Unwritten], pos |-> 0, next |-> FirstNode, leaf |-> 0,
   ok |-> TRUE, inside |-> TRUE]

Put(t, at, v) ==
  IF at \subseteq Entries
  THEN [t EXCEPT !.entries = [e \in Entries |-> IF e \in at THEN v ELSE @[e]]]
  ELSE [t EXCEPT !.inside = FALSE]

(* Codes that fit fill all entries that begin with them.                   *)
ShortCode(t, s) ==
  LET end == t.pos + Power(TableBits - lens[s])
  IN IF ~t.ok \/ end > TableMask THEN [t EXCEPT !.ok = FALSE]
     ELSE [Put(t, t.pos..(end - 1), s) EXCEPT !.pos = end]

(* A longer one is a path of nodes. pos counts in units of 2^-MaxLen of a  *)
(* code from here on: 2^-(nbits + 16) in the code.                         *)
Split(t) ==
  IF t.entries[t.leaf] = Unused
  THEN [Put(Put(t, {2 * t.next, 2 * t.next + 1}, Unused), {t.leaf}, t.next) EXCEPT !.next = @ + 1]
  ELSE t
Follow(t, bit) ==
  LET leaf == 2 * t.entries[t.leaf] + bit
  IN IF t.inside /\ t.entries[t.leaf] # Unwritten /\ leaf \in Entries
     THEN [t EXCEPT !.leaf = leaf] ELSE [t EXCEPT !.inside = FALSE]

Shift == MaxLen - TableBits
Path(t, n) ==
  LET path[i \in 0..n] ==
        IF i = 0 THEN [t EXCEPT !.leaf = t.pos \div Power(Shift)]
        ELSE Follow(Split(path[i - 1]), (t.pos \div Power(Shift - i)) % 2)
  IN path[n]

LongCode(t, s) ==
  LET path == Path(t, lens[s] - TableBits)
      end == t.pos + Power(MaxLen - lens[s])
  IN IF ~t.ok THEN t
     ELSE [Put(path, {path.leaf}, s) EXCEPT !.pos = end, !.ok = end <= Power(MaxLen)]

(* The loops: the lengths behind from, up to length to, and the symbols.   *)
Enter(t, s) == IF lens[s] <= TableBits THEN ShortCode(t, s) ELSE LongCode(t, s)
WithLength(t, n) ==
  LET with[k \in 0..NumSyms] ==
        IF k = 0 THEN t
        ELSE IF lens[k - 1] = n THEN Enter(with[k - 1], k - 1) ELSE with[k - 1]
  IN with[NumSyms]
WithLengths(t, from, to) ==
  LET with[n \in 0..to] == IF n <= from THEN t ELSE WithLength(with[n - 1], n)
  IN with[to]

(* The rest of the table is cleared before the long codes, and a table     *)
(* that is not full is an error unless there are no codes at all.          *)
MakeDecodeTable ==
  LET short == WithLengths(NewTable, 0, TableBits)
      cleared == [Put(short, short.pos..(TableMask - 1), Unused) EXCEPT !.pos = @ * Power(Shift)]
      long == WithLengths(cleared, TableBits, MaxLen)
  IN IF ~short.ok \/ short.pos = TableMask THEN short
     ELSE IF long.ok /\ long.pos # Power(MaxLen) /\ Used # {} THEN [long EXCEPT !.ok = FALSE]
     ELSE long

(* READ_HUFFSYM: the entry of the first bits, then from node to node.      *)
ReadHuffsym(t) ==
  LET entry[n \in 0..MaxLen] ==
        IF n <= TableBits THEN t.entries[Peek(TableBits)]
        ELSE IF entry[n - 1] < NumSyms THEN entry[n - 1]
        ELSE t.entries[2 * entry[n - 1] + Bit(n)]
  IN entry[MaxLen]

-----------------------------------------------------------------------------
(* Lengths are taken if their codes fill the code space, or the table      *)
(* before the first longer one; _HTree takes more. Then two entries for    *)
(* each symbol were enough for the nodes (lzxd.h:87): no entry was used    *)
(* outside the array or before it was written; and the table and its nodes *)
(* give the walk's symbol for every input that has one, and every input    *)
(* has one. Of lengths that are refused in the end nothing is said.        *)
NativeTableIsWalk ==
  status \in {"symbol", "invalid"} =>
    LET table == MakeDecodeTable
    IN Used # {} /\ table.ok => table.inside /\ status = "symbol" /\ ReadHuffsym(table) = sym

=============================================================================
