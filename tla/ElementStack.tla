----------------------------- MODULE ElementStack -----------------------------
(***************************************************************************)
(* What the tag stack of the E770 expander promises, without run lengths:  *)
(* the list of elements that are open, outermost first, and for every      *)
(* closing token which of them it names.                                   *)
(***************************************************************************)
EXTENDS Naturals, Sequences, FiniteSets

CONSTANT Names

VARIABLES
  open,   \* the names of the open elements, outermost first
  event   \* what the last token did to them

vars == <<open, event>>

Nothing == [kind |-> "none"]

Init == open = <<>> /\ event = Nothing

Open(n) ==
  /\ open' = Append(open, n)
  /\ event' = [kind |-> "open", name |-> n]

(* Neighbours of one name form a run; a reference counts runs from the     *)
(* innermost one, which is 0, and names the last element of a run.         *)
EndsRun(p) == p = Len(open) \/ open[p] # open[p + 1]
RunsInside(p) == Cardinality({i \in p..(Len(open) - 1) : EndsRun(i)})

CloseRef(k) ==
  \E p \in DOMAIN open :
    /\ EndsRun(p) /\ RunsInside(p) = k
    /\ open' = SubSeq(open, 1, p - 1)
    /\ event' = [kind |-> "close", name |-> open[p], run |-> k]

(* Only the element whose start tag is still being written can be closed   *)
(* by finishing the start tag.                                             *)
CloseStartTag ==
  /\ event.kind \in {"open", "attribute"}
  /\ open' = SubSeq(open, 1, Len(open) - 1)
  /\ event' = [kind |-> "empty", name |-> open[Len(open)]]

Attribute ==
  /\ event.kind \in {"open", "attribute"}
  /\ event' = [kind |-> "attribute"]
  /\ UNCHANGED open

Content ==
  /\ event' = Nothing
  /\ UNCHANGED open

Next ==
  \/ \E n \in Names : Open(n)
  \/ \E k \in 0..Len(open) : CloseRef(k)
  \/ CloseStartTag
  \/ Attribute
  \/ Content

Spec == Init /\ [][Next]_vars

=============================================================================
