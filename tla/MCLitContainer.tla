----------------------------- MODULE MCLitContainer -----------------------------
(* One section of every length up to five units, with a reset table that   *)
(* stops early, just reaches or goes past the end, damaged units, and      *)
(* tables and compressors that do not agree with the windows; two entries  *)
(* read it, and a stored one has another name and the same file. A second  *)
(* container writes the same files again. A dump folder (module Dumper),   *)
(* in which two hexids have one file, is in the same state space: which of *)
(* the two a behaviour is about is fixed in its first state.               *)
EXTENDS LitContainer, Dumper, TLC

VARIABLE dumping

MCSection(transforms, length, entries, bad) ==
  [transforms |-> transforms, length |-> length, entries |-> entries, bad |-> bad,
   step |-> 1, reset |-> Window]
MCFile(slashes, rest, section, offset, size, kind) ==
  [name |-> [slashes |-> slashes, rest |-> rest], section |-> section,
   offset |-> offset, size |-> size, kind |-> kind]

MCReframed(length, entries, step, reset) ==
  [MCSection(<<"lzx">>, length, entries, 0) EXCEPT !.step = step, !.reset = reset]
MCSections ==
  {MCSection(<<"lzx">>, n, e, b) : n \in 0..5, e \in 0..6, b \in {0, 1, 3}}
  \cup {MCSection(t, 3, 3, 0) : t \in {<<>>, <<"des">>, <<"lzx", "des">>, <<"lzx", "lzx">>}}
  \cup {MCReframed(n, e, step, reset) :
           n \in {1, 4, 5}, e \in 2..4, step \in 0..3, reset \in {1, 2, 4}}

MCHalf(n) == n \div 2
MCFirst(s) ==
  [id |-> 1, sections |-> <<s>>,
   files |-> <<MCFile(1, "a", 1, 0, MCHalf(s.length), "file"),
               MCFile(0, "::Storage", 0, 0, 1, "internal"),
               MCFile(0, "a", 0, 1, 2, "file"),
               MCFile(0, "b", 1, MCHalf(s.length), s.length - MCHalf(s.length), "file"),
               MCFile(0, "d/", 1, 0, 0, "directory")>>]
MCSecond ==
  [id |-> 2, sections |-> <<MCSection(<<"lzx">>, 3, 3, 0)>>,
   files |-> <<MCFile(0, "b", 1, 0, 3, "file"), MCFile(0, "e", 0, 0, 2, "file")>>]

MCContainers == {<<MCFirst(s), MCSecond>> : s \in MCSections}
MCAny ==
  [usePy : BOOLEAN, require : BOOLEAN, shim : BOOLEAN, built : BOOLEAN,
   path : {"unset", "native", "python", "nothing"}, loads : BOOLEAN]
MCEnvironments ==
  {e \in MCAny :
     /\ e.require => ~e.built /\ e.path = "unset"
     /\ ~e.loads => e.built /\ e.path = "unset"
     /\ e.path # "unset" => ~e.built /\ ~e.shim /\ e.usePy}

MCFileOf == "a1" :> "1.xml" @@ "a2" :> "2.xml" @@ "b1" :> "b1.bin" @@ "b1.bin" :> "b1.bin"

LitIdle ==
  /\ env \in {e \in Environments : ~(e.usePy \/ e.require \/ e.shim \/ e.built)}
  /\ todo = <<>> /\ phase = "opening" /\ backend = "none" /\ loaded = <<>> /\ at = 1 /\ job = NoJob
  /\ disk = [n \in {} |-> 0] /\ outcome = <<>> /\ counted = -1

MCInit ==
  \/ dumping = FALSE /\ Init /\ FolderInit
  \/ dumping = TRUE /\ LitIdle /\ FolderInit
MCNext ==
  /\ UNCHANGED dumping
  /\ \/ ~dumping /\ Next /\ UNCHANGED foldervars
     \/ dumping /\ FolderNext /\ UNCHANGED vars
MCSpec ==
  /\ MCInit /\ [][MCNext]_<<dumping, vars, foldervars>>
  /\ WF_<<dumping, vars, foldervars>>(~dumping /\ MCNext)

=============================================================================
