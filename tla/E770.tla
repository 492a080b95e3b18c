--------------------------------- MODULE E770 ---------------------------------
(***************************************************************************)
(* expand_tokens (portable_akc.py) and its E770State: the stage that turns *)
(* a decoded token sequence into markup.  One action per opcode.           *)
(*                                                                         *)
(* A payload is its size; an element name is a value of Names.  What is    *)
(* written is kept as its length and as the state of a reader of the       *)
(* markup (`lex`), which sees the pieces in the order they are appended.   *)
(***************************************************************************)
EXTENDS Integers, Sequences, FiniteSetsExt

CONSTANTS
  Names,      \* element names
  NameSize,   \* bytes of each name
  Sizes,      \* payload sizes; opcodes 5 to 7 also take an empty payload
  Limit,      \* out_limit: the article's xml_size
  StopAfter,  \* stop_after; above Limit it never applies
  Mask,       \* the stack index is masked to 0..Mask (0xFF in the code)
  MaxDepth    \* bound on the entries of the tag stack

ASSUME ExpanderAssumption ==
  /\ NameSize \in [Names -> Nat \ {0}]
  /\ Sizes \subseteq Nat \ {0}
  /\ Limit \in Nat
  /\ StopAfter \in Nat
  /\ Mask \in Nat
  /\ MaxDepth \in Nat

VARIABLES
  mode,    \* mode_1dc: -1 in a start tag, 1 after a word, 0 otherwise
  case,    \* case_1e0: 1 once a word was written since the last reset
  stack,   \* the entries 0..stack_top: a run of open elements of one name
  outLen,  \* bytes written
  status,  \* "expanding", "stopped" (stop_after) or "failed" (exception)
  lex,     \* history: where a reader of the markup stands
  event    \* history: what the last token did to the open elements

vars == <<mode, case, stack, outLen, status, lex, event>>

Entry == [name : Names, count : Int]

Init ==
  /\ mode = 0
  /\ case = 0
  /\ stack = <<>>
  /\ outLen = 0
  /\ status = "expanding"
  /\ lex = "content"
  /\ event = [kind |-> "none"]

-----------------------------------------------------------------------------
(* Writing.  A piece is what one call appends: put and copy ensure() that  *)
(* their bytes fit, an extend of the output does not.                      *)
Piece(sym, size, need) == [sym |-> sym, size |-> size, need |-> need]
Nothing == Piece("", 0, 0)
Put(sym) == Piece(sym, 1, 1)
Put2 == Piece("/>", 2, 2)
Raw(sym, size) == Piece(sym, size, 0)
CopyForgetsTrailing(sym, size, trailing) == Piece(sym, size + trailing, size)
Copy(sym, size, trailing) == Piece(sym, size + trailing, size + trailing)

Room(len, piece) == piece.need = 0 \/ len + piece.need <= Limit

Fits(a, b, c) ==
  /\ Room(outLen, a)
  /\ Room(outLen + a.size, b)
  /\ Room(outLen + a.size + b.size, c)

(* The reader of the markup: tags only outside tags, attributes only       *)
(* inside, and a space between two words and nowhere else.                 *)
Outside == {"content", "word"}
Lex(s, piece) ==
  CASE piece.sym = "" -> s
    [] piece.sym = "<" /\ s \in Outside -> "tag"
    [] piece.sym \in {">", "/>"} /\ s = "tag" -> "content"
    [] piece.sym = "attr" /\ s = "tag" -> "tag"
    [] piece.sym \in {"</", "text"} /\ s \in Outside -> "content"
    [] piece.sym = " " /\ s = "word" -> "gap"
    [] piece.sym = "word" /\ s \in {"content", "gap"} -> "word"
    [] OTHER -> "bad"

Write(a, b, c) ==
  /\ outLen' = outLen + a.size + b.size + c.size
  /\ lex' = Lex(Lex(Lex(lex, a), b), c)
  /\ status' = IF outLen' >= StopAfter THEN "stopped" ELSE "expanding"

(* An exception ends the expansion and drops everything written so far. *)
Raise ==
  /\ status' = "failed"
  /\ UNCHANGED <<mode, case, stack, outLen, lex, event>>

(* What goes before a piece of content: the end of a start tag that is     *)
(* still open, and between two words a space.                              *)
TagEnd(put) == IF mode < 0 THEN put ELSE Nothing
WordGapMissing == TagEnd(Put(">"))
WordGap == IF mode > 0 THEN Put(" ") ELSE TagEnd(Put(">"))

-----------------------------------------------------------------------------
(* The tag stack. *)
Top(st) == st[Len(st)]

PushedNever(st, n) == st
Pushed(st, n) ==
  IF st # <<>> /\ Top(st).name = n
  THEN [st EXCEPT ![Len(st)].count = @ + 1]
  ELSE Append(st, [name |-> n, count |-> 1])

(* Entries are popped while the top one is used up. *)
PoppedNever(st) == st
Popped(st) ==
  SubSeq(st, 1, Max({j \in 0..Len(st) : j = 0 \/ st[j].count # 0}))

(* dec_tag(p): only using up the top entry pops. *)
DecTag(st, p) ==
  LET dec == [st EXCEPT ![p].count = @ - 1] IN
  IF dec[p].count = 0 /\ p = Len(st) THEN Popped(dec) ELSE dec

Masked(p) == 1 + ((p - 1) % (Mask + 1))

(* The entry a close-ref to the k-th entry below the top names. *)
ReferredTop(k) == Masked(Len(stack))
Referred(k) == Masked(Len(stack) - k)

-----------------------------------------------------------------------------
(* The opcodes. *)
Running == status = "expanding"

Word(s) ==                                                    \* opcode 0
  LET word == Copy("word", s, 0) IN
  /\ Running
  /\ \/ /\ Fits(WordGap, word, Nothing) /\ Write(WordGap, word, Nothing)
        /\ mode' = 1
        /\ case' = IF s > 0 THEN 1 ELSE case
        /\ event' = [kind |-> "none"]
        /\ UNCHANGED stack
     \/ ~Fits(WordGap, word, Nothing) /\ Raise

Text(s, resets) ==                                       \* opcodes 1 and 2
  LET text == Copy("text", s, 0) IN
  /\ Running
  /\ \/ /\ Fits(TagEnd(Put(">")), text, Nothing)
        /\ Write(TagEnd(Put(">")), text, Nothing)
        /\ mode' = 0
        /\ case' = IF resets THEN 0 ELSE case
        /\ event' = [kind |-> "none"]
        /\ UNCHANGED stack
     \/ ~Fits(TagEnd(Put(">")), text, Nothing) /\ Raise

OpenTag(n) ==                                                 \* opcode 3
  LET name == Copy("", NameSize[n], 0) IN
  /\ Running
  /\ Len(stack) < MaxDepth
  /\ \/ /\ Fits(TagEnd(Put(">")), Put("<"), name)
        /\ Write(TagEnd(Put(">")), Put("<"), name)
        /\ mode' = -1
        /\ stack' = Pushed(stack, n)
        /\ event' = [kind |-> "open", name |-> n]
        /\ UNCHANGED case
     \/ ~Fits(TagEnd(Put(">")), Put("<"), name) /\ Raise

(* Attributes: a name after a space (4); after "=" (5), or in quotes whose *)
(* opening is not ensured (6 and 7), a value, which may be empty.          *)
Attribute(lead, value) ==
  /\ Running
  /\ \/ /\ mode < 0
        /\ Fits(lead, value, Nothing) /\ Write(lead, value, Nothing)
        /\ event' = [kind |-> "attribute"]
        /\ UNCHANGED <<mode, case, stack>>
     \/ (mode >= 0 \/ ~Fits(lead, value, Nothing)) /\ Raise

AttributeName(s) == Attribute(Put("attr"), Copy("attr", s, 0))
AttributeValue(s) ==
  \/ Attribute(Put("attr"), Copy("attr", s, 0))
  \/ Attribute(Raw("attr", 2), Copy("attr", s, 1))

(* Opcode 8 writes an end tag that the stack knows nothing about. *)
ExplicitClose(s) ==
  LET end == Copy("", s, 1) IN
  /\ Running
  /\ \/ /\ Fits(TagEnd(Raw(">", 1)), Raw("</", 2), end)
        /\ Write(TagEnd(Raw(">", 1)), Raw("</", 2), end)
        /\ mode' = 0
        /\ event' = [kind |-> "none"]
        /\ UNCHANGED <<case, stack>>
     \/ ~Fits(TagEnd(Raw(">", 1)), Raw("</", 2), end) /\ Raise

(* Opcode 9 closes the k-th entry below the top and drops those above it. *)
CloseRef(k) ==
  LET p == Referred(k)
      end == Copy("", NameSize[stack[p].name], 1)
  IN
  /\ Running
  /\ \/ /\ k < Len(stack)
        /\ Fits(TagEnd(Raw(">", 1)), Raw("</", 2), end)
        /\ Write(TagEnd(Raw(">", 1)), Raw("</", 2), end)
        /\ mode' = 0
        /\ stack' = DecTag(SubSeq(stack, 1, p), p)
        /\ event' = [kind |-> "close", name |-> stack[p].name, run |-> k]
        /\ UNCHANGED case
     \/ k >= Len(stack) /\ Raise
     \/ /\ k < Len(stack)
        /\ ~Fits(TagEnd(Raw(">", 1)), Raw("</", 2), end)
        /\ Raise

EmptyClose ==                                                \* opcode 10
  /\ Running
  /\ \/ /\ stack # <<>> /\ mode < 0
        /\ Fits(Put2, Nothing, Nothing) /\ Write(Put2, Nothing, Nothing)
        /\ mode' = 0
        /\ stack' = DecTag(stack, Masked(Len(stack)))
        /\ event' = [kind |-> "empty", name |-> Top(stack).name]
        /\ UNCHANGED case
     \/ (stack = <<>> \/ mode >= 0 \/ ~Fits(Put2, Nothing, Nothing)) /\ Raise

Next ==
  \/ \E s \in Sizes : Word(s)
  \/ \E s \in Sizes, resets \in BOOLEAN : Text(s, resets)
  \/ \E n \in Names : OpenTag(n)
  \/ \E s \in Sizes : AttributeName(s)
  \/ \E s \in Sizes \cup {0} : AttributeValue(s)
  \/ \E s \in Sizes : ExplicitClose(s)
  \/ \E k \in 0..MaxDepth : CloseRef(k)
  \/ EmptyClose

Spec == Init /\ [][Next]_vars

-----------------------------------------------------------------------------
TypeOK ==
  /\ mode \in {-1, 0, 1}
  /\ case \in {0, 1}
  /\ stack \in Seq(Entry)
  /\ outLen \in Nat
  /\ status \in {"expanding", "stopped", "failed"}
  /\ lex \in {"content", "tag", "word"}
  /\ event.kind \in {"none", "open", "attribute", "close", "empty"}

(* The two facts the while loop of dec_tag and the relative index of a     *)
(* close-ref stand on: no entry of the stack is used up, so one close      *)
(* never pops two entries, and neighbours differ, so one index step is one *)
(* run (E770State.push_tag, dec_tag, close_ref).                           *)
StackCanonical ==
  /\ \A i \in DOMAIN stack : stack[i].count >= 1
  /\ \A i \in 1..(Len(stack) - 1) : stack[i].name # stack[i + 1].name

(* mode_1dc always says where the reader of the output stands: the markup  *)
(* is well formed, every start tag is finished before anything follows it, *)
(* and two words never touch (expand_tokens, opcodes 0 to 10).             *)
ModeFollowsOutput ==
  lex = IF mode < 0 THEN "tag" ELSE IF mode > 0 THEN "word" ELSE "content"

(* While a start tag is being written, the element it opens is the top of  *)
(* the stack, so an empty close closes that one and cannot underflow       *)
(* (empty_close).                                                          *)
StartTagOnTop ==
  /\ mode < 0 => stack # <<>> /\ event.kind \in {"open", "attribute"}
  /\ event.kind = "open" => Top(stack).name = event.name

(* Although six of the eleven opcodes append some bytes without ensure(),  *)
(* no token leaves more than out_limit bytes behind (E770State.ensure).    *)
OutputWithinLimit == outLen <= Limit

-----------------------------------------------------------------------------
(* The elements that are open, outermost first: the runs of the stack,     *)
(* written out one after the other.                                        *)
Run(entry) == [j \in 1..entry.count |-> entry.name]

Unrolled(st) ==
  LET upTo[i \in 0..Len(st)] ==
        IF i = 0 THEN <<>> ELSE upTo[i - 1] \o Run(st[i])
  IN upTo

Elements == INSTANCE ElementStack WITH
  open <- Unrolled(stack)[Len(stack)],
  event <- event

(* Every closing token ends exactly the element it refers to: an empty     *)
(* close the one whose start tag is open, a close-ref the last element of  *)
(* the k-th innermost run, together with everything opened inside it       *)
(* (akc_tables.py:39, "close-ref (pop by relative index)").                *)
ClosesWhatItNames == Elements!Spec

=============================================================================
