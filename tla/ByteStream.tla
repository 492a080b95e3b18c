------------------------------- MODULE ByteStream -------------------------------
(***************************************************************************)
(* What a decoder that is called for some bytes at a time promises: the    *)
(* bytes of the stream come out in order and once, however the caller cuts *)
(* them up; a call is answered when its bytes are out and no earlier, and  *)
(* it may fail with a part of them out. Nothing comes after a failure.     *)
(***************************************************************************)
EXTENDS Naturals, Sequences

CONSTANT Asks   \* bytes a call may ask for

VARIABLES
  status,     \* "closed", "open", "failed"
  delivered,  \* the bytes that came out, each named by its place in the stream
  owed        \* bytes the call that is running still has to deliver

vars == <<status, delivered, owed>>

Init == status = "closed" /\ delivered = <<>> /\ owed = 0

Open ==
  /\ status = "closed"
  /\ status' = "open"
  /\ UNCHANGED <<delivered, owed>>

Following(k) == [i \in 1..k |-> Len(delivered) + i]

Put(k, due) ==
  /\ k <= due
  /\ delivered' = delivered \o Following(k)
  /\ status' \in {"open", "failed"}
  /\ owed' = IF status' = "failed" THEN 0 ELSE due - k

(* A call puts out what it has at once, and the rest as it gets it.        *)
Ask(n) == status = "open" /\ owed = 0 /\ \E k \in 0..n : Put(k, n)
Deliver == status = "open" /\ owed > 0 /\ \E k \in 0..owed : Put(k, owed)

Close ==
  /\ status # "closed" /\ owed = 0
  /\ status' = "closed" /\ delivered' = <<>> /\ owed' = 0

Next == Open \/ (\E n \in Asks : Ask(n)) \/ Deliver \/ Close

Spec == Init /\ [][Next]_vars

=============================================================================
