------------------------------- MODULE SeekTable -------------------------------
(***************************************************************************)
(* iter_lookup_windows and lookup_window (portable_akc.py): the walk over  *)
(* the groups of the seek table, from the first group on, to the keys that *)
(* are asked for. One reader serves the whole walk; its error flag stays   *)
(* up once it is up, also behind the next group's seek_bits.               *)
(*                                                                         *)
(* A window is the number of its record in the table, Garbage for fields   *)
(* that are none of the table's, or NoFields; module BitReader has the     *)
(* reader itself.                                                          *)
(***************************************************************************)
EXTENDS Integers, Sequences, SequencesExt

CONSTANTS
  Group,      \* records in a full group: 32 in the code
  Tables,     \* seek tables: [keys, faults, primary, header]
  Starts,     \* start_key, and the key of a lookup
  Counts,     \* count of an iteration
  Jumps       \* what a reader in error may give for a delta

(* keys ascend. A fault of a record is "none"; "index", a secondary index  *)
(* out of range or a secondary record that overruns; "overrun" of the      *)
(* reader in the record itself; or "delta", an overrun in the bits behind  *)
(* it. primary: the records that need no secondary one. The header's       *)
(* record pairs can be read ("sound"), run over the end ("overrun"), or    *)
(* belong to a table of odd size ("odd"), for which they all read as 0; it *)
(* is "secondary" if it is sound and counts no primary records.            *)
ASSUME TableAssumption ==
  /\ Group \in Nat \ {0, 1}
  /\ \A t \in Tables :
       /\ t.keys \in Seq(Nat) /\ DOMAIN t.faults = DOMAIN t.keys
       /\ \A i, j \in DOMAIN t.keys : i < j => t.keys[i] < t.keys[j]
       /\ \A i \in DOMAIN t.keys : t.faults[i] \in {"none", "index", "overrun", "delta"}
       /\ t.header \in {"sound", "secondary", "overrun", "odd"}
       /\ t.header = "secondary" => t.primary = {}
  /\ Starts \subseteq Int /\ Counts \subseteq Int /\ Jumps \subseteq Nat

VARIABLES
  seekTable,  \* fixed
  query,      \* the call: [start, count, lookup]
  walkPhase,  \* "walking", "returned" or "raised"
  entry,      \* entry_index
  place,      \* group_pos
  key,        \* current_key
  walkError,  \* the reader's error flag
  windows,    \* the list built so far; at, the record it was read at, is history
  walked      \* history: the records decoded

seekvars == <<seekTable, query, walkPhase, entry, place, key, walkError, windows, walked>>

Records == Len(seekTable.keys)
Garbage == 0

(* edi: the entry of the last group, which holds the last record alone.    *)
LastEntry == (Records + Group - 2) \div Group

GroupCount ==
  IF entry = LastEntry THEN 1
  ELSE IF entry = LastEntry - 1 /\ (Records - 1) % Group # 0
       THEN (Records - 1) % Group ELSE Group

(* The record the reader stands at, as the table is laid out.              *)
FirstRecord(e) == IF e = LastEntry THEN Records ELSE e * Group + 1
Record == FirstRecord(entry) + place

(* The key an entry begins with. *)
EntryKey(e) == seekTable.keys[FirstRecord(e)]

WantedEnd == query.start + query.count

HeaderBroken == seekTable.header \in {"overrun", "odd"}

SeekInit ==
  /\ seekTable \in Tables
  /\ query \in [start : Starts, count : Counts, lookup : {FALSE}]
               \cup [start : Starts, count : {1}, lookup : {TRUE}]
  /\ walkPhase = (IF seekTable.keys = <<>> /\ query.lookup THEN "raised"
              ELSE IF seekTable.keys = <<>> THEN "returned" ELSE "walking")
  /\ entry = 0 /\ place = 0
  /\ key = (IF seekTable.keys = <<>> THEN 0 ELSE seekTable.keys[FirstRecord(0)])
  /\ walkError = HeaderBroken /\ windows = <<>> /\ walked = {}

-----------------------------------------------------------------------------
(* _decode_lookup_fields. Behind an error a secondary record can not be    *)
(* read, because the clone is in error too. A primary one is answered from *)
(* what the reader still holds, and so is whatever reads as a primary one  *)
(* then, unless the header has no primary records (or reads as if so).     *)
NoFields == -1
NoPrimary == seekTable.header \in {"secondary", "odd"}
Fields ==
  IF ~walkError
  THEN CASE seekTable.faults[Record] \in {"none", "delta"} -> {Record}
         [] seekTable.faults[Record] = "index" -> {NoFields}
         [] seekTable.faults[Record] = "overrun" -> {NoFields, Garbage}
  ELSE IF NoPrimary THEN {NoFields}
  ELSE {NoFields, Garbage} \cup ({Record} \cap seekTable.primary)

(* The flag behind the record and its delta: nothing takes it down.        *)
Failed == walkError \/ seekTable.faults[Record] # "none"

InRangeClosed == key >= query.start /\ key <= WantedEnd
InRange == key >= query.start /\ key < WantedEnd
Complete(list) == (InRange /\ Len(list) = query.count) \/ key >= WantedEnd

(* lookup_window wants exactly the one window of the key.                  *)
Return(list) ==
  walkPhase' = IF query.lookup /\ ~(Len(list) = 1 /\ list[1].key = query.start)
           THEN "raised" ELSE "returned"

(* The key of the next record: a reader in error may still hold bits, and  *)
(* they can be anything.                                                   *)
Deltas ==
  {seekTable.keys[Record + 1] - seekTable.keys[Record]} \cup IF Failed THEN Jumps ELSE {}

(* seek_bits to the next group.                                            *)
NextGroupCleared ==
  /\ entry' = entry + 1 /\ place' = 0
  /\ key' = EntryKey(entry + 1)
  /\ walkError' = FALSE
NextGroup ==
  /\ entry' = entry + 1 /\ place' = 0
  /\ key' = EntryKey(entry + 1)
  /\ walkError' = Failed

Advance ==
  \/ /\ place < GroupCount - 1
     /\ \E delta \in Deltas : key' = key + delta
     /\ place' = place + 1 /\ walkError' = Failed
     /\ UNCHANGED <<entry, walkPhase>>
  \/ /\ place >= GroupCount - 1 /\ entry < LastEntry
     /\ NextGroup
     /\ UNCHANGED walkPhase
  \/ /\ place >= GroupCount - 1 /\ entry = LastEntry
     /\ Return(windows') /\ walkError' = Failed
     /\ UNCHANGED <<entry, place, key>>

(* A record without fields raises KeyError when it is wanted, and is       *)
(* passed over when it is not.                                             *)
Walk(fields) ==
  LET list == IF InRange
              THEN Append(windows, [key |-> key, win |-> fields, at |-> Record]) ELSE windows
  IN /\ walkPhase = "walking"
     /\ fields \in Fields
     /\ walked' = walked \cup {Record}
     /\ \/ /\ InRange /\ fields = NoFields
           /\ walkPhase' = "raised" /\ walkError' = Failed
           /\ UNCHANGED <<entry, place, key, windows>>
        \/ /\ ~(InRange /\ fields = NoFields)
           /\ windows' = list
           /\ \/ /\ Complete(list)
                 /\ Return(list) /\ walkError' = Failed
                 /\ UNCHANGED <<entry, place, key>>
              \/ /\ ~Complete(list)
                 /\ Advance
     /\ UNCHANGED <<seekTable, query>>

SeekNext == \E fields \in {NoFields, Garbage} \cup DOMAIN seekTable.keys : Walk(fields)

SeekSpec == SeekInit /\ [][SeekNext]_seekvars

-----------------------------------------------------------------------------
IsWanted(i) == seekTable.keys[i] >= query.start /\ seekTable.keys[i] < WantedEnd
Wanted == {i \in DOMAIN seekTable.keys : IsWanted(i)}

(* The list holds these records, each once, in order and under its key.    *)
Lists(list, records) ==
  /\ {list[n].win : n \in DOMAIN list} = records
  /\ \A n \in DOMAIN list : list[n].key = seekTable.keys[list[n].win]
  /\ \A n, m \in DOMAIN list : n < m => list[n].win < list[m].win

Faultless == ~HeaderBroken /\ \A i \in walked : seekTable.faults[i] = "none"

(* No fault lies before the record, and none in its fields.                *)
Reached(i) == ~HeaderBroken /\ \A j \in 1..(i - 1) : seekTable.faults[j] = "none"
Readable(i) == seekTable.faults[i] \in {"none", "delta"}

SeekTypeOK ==
  /\ walkPhase \in {"walking", "returned", "raised"}
  /\ walkPhase = "walking" => /\ entry \in 0..LastEntry /\ place \in 0..(GroupCount - 1)
                          /\ Record \in DOMAIN seekTable.keys
  /\ walkError \in BOOLEAN /\ walked \subseteq DOMAIN seekTable.keys
  /\ \A i \in DOMAIN windows : windows[i].win \in {Garbage} \cup DOMAIN seekTable.keys

(* An iteration answers the records whose keys are in the range, each once *)
(* and in order, and a lookup the record of its key, if all records on the *)
(* way there can be read: the counts of full, shorter and single groups    *)
(* add up to the records of the table (iter_lookup_windows, 273 to 303).   *)
AnswerIsRange ==
  Faultless =>
    /\ walkPhase = "returned" => Lists(windows, Wanted)
    /\ walkPhase = "raised" => query.lookup /\ Wanted = {}

(* What a fault costs (LookupBitReader.error, _decode_lookup_fields).      *)
(* Behind it no secondary record is ever part of an answer, although each  *)
(* further group starts at an intact place, and in a table without primary *)
(* records nothing is: the answer is then short, never wrong. Before it    *)
(* every window is the one of its key, in the faulty record itself the key *)
(* is right, and so is the key of every group's first record; only the     *)
(* deltas behind a fault, up to the end of its group, give wrong keys.     *)
FaultsStay ==
  \A n \in DOMAIN windows :
    LET w == windows[n]
    IN /\ w.win # NoFields
       /\ Reached(w.at) => /\ w.key = seekTable.keys[w.at]
                           /\ Readable(w.at) => w.win = w.at
       /\ ~Reached(w.at) => ~NoPrimary /\ w.win \in {Garbage} \cup ({w.at} \cap seekTable.primary)
       /\ w.at \in {FirstRecord(e) : e \in 0..LastEntry} => w.key = seekTable.keys[w.at]

=============================================================================
