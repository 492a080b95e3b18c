------------------------------- MODULE MCE770 -------------------------------
(* An instance of the expander. *)
EXTENDS E770, TLC

CONSTANTS A, B

MCNameSize == (A :> 1) @@ (B :> 2)

=============================================================================
