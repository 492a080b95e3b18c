-------------------------------- MODULE MCTables --------------------------------
(* The two bit readers, the walk over the seek table and the dictionary    *)
(* block in one state space: which of them a behaviour is about is fixed   *)
(* in its first state, and the others stand still.                         *)
EXTENDS BitReader, SeekTable, AkcDictionary

VARIABLE machine  \* "reader" (akc_codec.BitReader), "lookup" (LookupBitReader), "seek", "dictionary"

(* Tables of zero to eight records in groups of three: none, one or two    *)
(* full groups, with a remainder or without, dense and with gaps; a fault  *)
(* at every place, and every kind of header. A delta fails where one is    *)
(* read: behind a record that is not the last of its group.                *)
MCKeys == {SubSeq(all, 1, n) : all \in {<<0, 1, 2, 3, 4, 5, 6, 7>>, <<1, 3, 4, 5, 8, 9, 11, 12>>}, n \in 0..8}
MCHasDelta(i, n) == i % 3 # 0 /\ i < n - 1
MCFaults(keys) ==
  {[i \in DOMAIN keys |-> IF i = at THEN kind ELSE "none"] :
     at \in 0..Len(keys), kind \in {"index", "overrun"}}
  \cup {[i \in DOMAIN keys |-> IF i = at THEN "delta" ELSE "none"] :
          at \in {i \in DOMAIN keys : MCHasDelta(i, Len(keys))}}
MCHeaders(keys) ==
  {<<{}, header>> : header \in {"sound", "secondary", "overrun", "odd"}}
  \cup {<<primary, header>> : primary \in {DOMAIN keys, {i \in DOMAIN keys : i % 2 = 0}},
                              header \in {"sound", "overrun"}}
MCSeekTables ==
  UNION {{[keys |-> keys, faults |-> faults, primary |-> h[1], header |-> h[2]] :
            faults \in MCFaults(keys), h \in MCHeaders(keys)} : keys \in MCKeys}

(* Two slots, of two and of three entries: the records of a block fill     *)
(* part of the first, all of it, or reach into the second.                 *)
MCEnds == <<0, 2, 5>>

SeekIdle ==
  /\ seekTable = [header |-> "sound"] /\ query = <<>> /\ walkPhase = "idle" /\ entry = 0 /\ place = 0 /\ key = 0
  /\ walkError = FALSE /\ windows = <<>> /\ walked = {}
DictionaryIdle ==
  /\ dictPhase = "failed" /\ n2d00 = 0 /\ n2d04 = 0 /\ dictError = FALSE /\ slots = <<>> /\ buf = <<>>
  /\ prevLen = 0 /\ recordsRead = 0 /\ outData = <<>> /\ outTable = <<>> /\ prev = <<>> /\ recs = <<>>

MCInit ==
  \/ machine = "reader" /\ Init /\ SeekIdle /\ DictionaryIdle
  \/ machine = "lookup" /\ LookupInit /\ SeekIdle /\ DictionaryIdle
  \/ machine = "seek" /\ LookupInit /\ ~odd /\ SeekInit /\ DictionaryIdle
  \/ machine = "dictionary" /\ LookupInit /\ ~odd /\ SeekIdle /\ DictionaryInit
MCNext ==
  /\ UNCHANGED machine
  /\ \/ machine = "reader" /\ Next /\ UNCHANGED <<seekvars, dictvars>>
     \/ machine = "lookup" /\ LookupNext /\ UNCHANGED <<seekvars, dictvars>>
     \/ machine = "seek" /\ SeekNext /\ UNCHANGED <<vars, dictvars>>
     \/ machine = "dictionary" /\ DictionaryNext /\ UNCHANGED <<vars, seekvars>>
MCSpec == MCInit /\ [][MCNext]_<<machine, vars, seekvars, dictvars>>

=============================================================================
