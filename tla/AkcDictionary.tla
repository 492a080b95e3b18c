----------------------------- MODULE AkcDictionary -----------------------------
(***************************************************************************)
(* decode_dictionary (portable_akc.py): the DA30 block that fills a token  *)
(* dictionary.  The block first deals its n2d04 payload bytes out to the   *)
(* position slots; then n2d00 front-coded records follow in encoder order, *)
(* each with the slot it belongs to, and are stored slot by slot.  A token *)
(* later slices its payload out between two neighbouring table entries     *)
(* (entry_payload).                                                        *)
(*                                                                         *)
(* One action per segment and per record; the Huffman codes of a record    *)
(* are its length shared with the previous record, the bytes after it and  *)
(* the slot that ends it.                                                  *)
(***************************************************************************)
EXTENDS Integers, Sequences, SequencesExt

CONSTANTS
  Ends,      \* POSITION_ENDS: slot s holds the entries Ends[s]..Ends[s+1]-1
  Bytes,     \* byte values of records
  MaxLen,    \* size of the record buffer (8192 in the code)
  MaxCount,  \* bound on n2d00
  MaxData    \* bound on n2d04

ASSUME DictionaryAssumption ==
  /\ Ends \in Seq(Nat) /\ Len(Ends) > 1 /\ Ends[1] = 0
  /\ \A s \in 1..(Len(Ends) - 1) : Ends[s] < Ends[s + 1]
  /\ Bytes \subseteq 0..255 /\ 0 \in Bytes
  /\ MaxLen \in Nat \ {0} /\ MaxData \in Nat
  /\ MaxCount \in 0..Ends[Len(Ends)]

VARIABLES
  dictPhase,    \* "segments", "records", "done" or "failed" (ValueError)
  n2d00,        \* the number of records
  n2d04,        \* the number of payload bytes
  dictError,    \* the bit reader's error flag
  slots,        \* slot_counts, data_starts, data_ends, slot_used, data_pos
  buf,          \* the record buffer
  prevLen,      \* length of the previous record
  recordsRead,
  outData,
  outTable,     \* offset * 16 + opcode
  prev,         \* history: the previous record, as front coding defines it
  recs          \* history: the record stored at each table index

dictvars == <<dictPhase, n2d00, n2d04, dictError, slots, buf, prevLen, recordsRead,
              outData, outTable, prev, recs>>

Unset == -1

DictionaryInit ==
  /\ dictPhase = "segments"
  /\ n2d00 \in 0..MaxCount
  /\ n2d04 \in 0..MaxData
  /\ dictError \in BOOLEAN
  /\ slots = <<>>
  /\ buf = [i \in 1..MaxLen |-> 0]
  /\ prevLen = 0
  /\ recordsRead = 0
  /\ outData = [i \in 1..n2d04 |-> Unset]
  /\ outTable = [i \in 0..n2d00 |-> Unset]
  /\ prev = <<>>
  /\ recs = [i \in 0..n2d00 |-> <<>>]

RejectBlock ==
  /\ dictPhase' = "failed"
  /\ UNCHANGED <<n2d00, n2d04, slots, buf, prevLen, recordsRead, outData, outTable, prev, recs>>

-----------------------------------------------------------------------------
(* _read_segments: the next slot gets the next `delta` bytes.  A reader in *)
(* error answers 0.                                                        *)
DataPos == IF slots = <<>> THEN 0 ELSE Last(slots).end

SegmentSlot(delta) ==
  LET s == Len(slots) + 1 IN
  [count |-> (IF n2d00 < Ends[s + 1] THEN n2d00 ELSE Ends[s + 1]) - Ends[s],
   used |-> 0, end |-> DataPos + delta, pos |-> DataPos]

SumMatches(p) == p = n2d04

ReadSegment(delta) ==
  LET last == n2d00 <= Ends[Len(slots) + 2] IN
  /\ dictPhase = "segments"
  /\ dictError' \in {dictError, TRUE}
  /\ dictError' => delta = 0
  /\ \/ /\ DataPos + delta <= n2d04
        /\ last => SumMatches(DataPos + delta)
        /\ slots' = Append(slots, SegmentSlot(delta))
        /\ dictPhase' = IF last THEN "records" ELSE dictPhase
        /\ UNCHANGED <<n2d00, n2d04, buf, prevLen, recordsRead, outData, outTable, prev, recs>>
     \/ /\ DataPos + delta > n2d04 \/ (last /\ ~SumMatches(DataPos + delta))
        /\ RejectBlock

-----------------------------------------------------------------------------
(* _validate_record, by the path of the opcode (OPCODE_PATH_INDEX). *)
NeedsPayload == {0, 1, 2, 3, 4, 8}
Valid(op, rec) ==
  /\ op \in 0..10
  /\ op \in NeedsPayload => Len(rec) > 1
  /\ op = 9 => Len(rec) = 3 /\ rec[2] = 0
  /\ op = 10 => Len(rec) = 1

SharedInBuffer(shared) == shared <= MaxLen
SharedFits(shared) == shared <= prevLen

Slot(s) == slots[s]
DataFitsBlock(s, len) == Slot(s).pos + len <= n2d04
DataFits(s, len) == Slot(s).pos + len <= Slot(s).end

Overlay(shared, suffix) ==
  [i \in 1..MaxLen |->
     IF i \in (shared + 1)..(shared + Len(suffix)) THEN suffix[i - shared] ELSE buf[i]]

(* What the record and its slot have to satisfy to be stored. *)
Storable(shared, suffix, s) ==
  LET rec == SubSeq(Overlay(shared, suffix), 1, shared + Len(suffix)) IN
  /\ SharedFits(shared)
  /\ shared + Len(suffix) <= MaxLen
  /\ s \in DOMAIN slots
  /\ Valid(Overlay(shared, suffix)[1], rec)
  /\ Slot(s).used < Slot(s).count
  /\ DataFits(s, Len(SubSeq(rec, 2, Len(rec))))

(* The buffer is not cleared between records, and the opcode is its first  *)
(* byte whatever the length of the record.                                 *)
Store(shared, suffix, s) ==
  LET buffer == Overlay(shared, suffix)
      payload == SubSeq(buffer, 2, shared + Len(suffix))
      index == Ends[s] + Slot(s).used
      from == Slot(s).pos
  IN
  /\ buf' = buffer
  /\ prevLen' = shared + Len(suffix)
  /\ outData' = [i \in 1..n2d04 |->
                IF i \in (from + 1)..(from + Len(payload)) THEN payload[i - from]
                ELSE outData[i]]
  /\ outTable' = [outTable EXCEPT ![index] = from * 16 + buffer[1]]
  /\ slots' = [slots EXCEPT ![s].used = @ + 1, ![s].pos = @ + Len(payload)]
  /\ prev' = SubSeq(prev, 1, Min({shared, Len(prev)})) \o suffix
  /\ recs' = [recs EXCEPT ![index] = prev']
  /\ recordsRead' = recordsRead + 1

ReadRecord(shared, suffix, s) ==
  /\ dictPhase = "records" /\ recordsRead < n2d00
  /\ recordsRead = 0 => shared = 0
  /\ dictError' \in {dictError, TRUE}
  /\ \/ /\ ~dictError' /\ Storable(shared, suffix, s)
        /\ Store(shared, suffix, s)
        /\ UNCHANGED <<dictPhase, n2d00, n2d04>>
     \/ /\ dictError' \/ ~Storable(shared, suffix, s)
        /\ RejectBlock

AllSlotsCounted == \A s \in DOMAIN slots : slots[s].used = slots[s].count
AllSlotsFull ==
  /\ AllSlotsCounted
  /\ \A s \in DOMAIN slots : slots[s].pos = slots[s].end

(* The checks over the slots and the sentinel behind the last record.  The *)
(* reader's error flag is looked at after a record, and not here.          *)
FinishBlock ==
  /\ dictPhase = "records" /\ recordsRead = n2d00
  /\ UNCHANGED dictError
  /\ \/ /\ AllSlotsFull
        /\ dictPhase' = "done"
        /\ outTable' = [outTable EXCEPT ![n2d00] = n2d04 * 16]
        /\ UNCHANGED <<n2d00, n2d04, slots, buf, prevLen, recordsRead, outData, prev, recs>>
     \/ ~AllSlotsFull /\ RejectBlock

ReadSegments == \E delta \in 0..MaxData : ReadSegment(delta)
ReadRecords ==
  \E shared \in 0..MaxLen, suffix \in BoundedSeq(Bytes, MaxLen),
     s \in 1..(Len(slots) + 1) : ReadRecord(shared, suffix, s)

DictionaryNext == ReadSegments \/ ReadRecords \/ FinishBlock

DictionarySpec == DictionaryInit /\ [][DictionaryNext]_dictvars

-----------------------------------------------------------------------------
DictionaryTypeOK ==
  /\ dictPhase \in {"segments", "records", "done", "failed"}
  /\ n2d00 \in 0..MaxCount /\ n2d04 \in 0..MaxData /\ dictError \in BOOLEAN
  /\ slots \in Seq([count : 0..n2d00, used : 0..n2d00, end : 0..n2d04, pos : 0..n2d04])
  /\ buf \in [1..MaxLen -> Bytes] /\ prevLen \in 0..MaxLen
  /\ recordsRead \in 0..n2d00
  /\ outData \in [1..n2d04 -> Bytes \cup {Unset}]
  /\ outTable \in [0..n2d00 -> Nat \cup {Unset}]

(* entry_payload: a token's opcode and payload, from two table entries. *)
Opcode(i) == outTable[i] % 16
Payload(i) == SubSeq(outData, (outTable[i] \div 16) + 1, outTable[i + 1] \div 16)

(* Every index of an accepted dictionary slices out exactly the payload of *)
(* the record that was stored there, although records arrive in encoder    *)
(* order and the end of each is only the start of the next one of its slot *)
(* or of the next slot (decode_dictionary, _read_segments, entry_payload). *)
SlicesAreRecords ==
  dictPhase = "done" =>
    \A i \in 0..(n2d00 - 1) : Payload(i) = SubSeq(recs[i], 2, Len(recs[i]))

(* A payload byte is written once: no record reaches into another record   *)
(* or into the segment of another slot.                                    *)
WrittenOnce ==
  [][\A i \in DOMAIN outData : outData[i] # Unset => outData'[i] = outData[i]]_dictvars

(* Front coding over a buffer that is never cleared still builds each      *)
(* record from its predecessor: the buffer starts with exactly the last    *)
(* record, whatever longer records left behind it.                         *)
BufferIsPrevious ==
  dictPhase # "failed" => prevLen = Len(prev) /\ SubSeq(buf, 1, prevLen) = prev

=============================================================================
