---------------------------- MODULE MCLzxDecoders ----------------------------
(* Streams of up to three blocks in frames of two bytes, over every bit    *)
(* position: short, long and walked codes, slots with none, three and      *)
(* seventeen extra bits, stored offsets further back than the window.      *)
EXTENDS LzxDecoders

MCWindow == 2^18
MCCode(len, table) == [len |-> len, table |-> table]
MCCodes == {MCCode(1, 1), MCCode(5, 12), MCCode(14, 12)}
MCMatches ==
  [code : MCCodes, footer : {FALSE}, slot : {0, 1, 2, 8, 36}, ones : {FALSE}, len : {2}]
  \cup [code : MCCodes, footer : BOOLEAN, slot : {3}, ones : {FALSE}, len : {2}]
MCFar == 3 * Window
MCHeaderOffsets == {<<1, 1, 1>>, <<1, MCFar, 1>>}

=============================================================================
