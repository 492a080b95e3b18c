# Verification of strata-akc-portable

TLA+ models, TLC runs and TLAPS proofs for the portable decoder of Encarta AKC
and LIT containers: the Python package `strata_akc_dump/`, the pure-Python LZX
decoder `lzxbuild/lzx.py` and the C decoder it stands in for, `native/lzx/`.

```
tlc -workers 2 -config E770.cfg MCE770      # a run; PROJECT.json lists them all
tlapm E770Proofs.tla                        # a proof module
```

## 1. The system

The program reads two container formats. An **AKC** file holds a seek table (one
record per article, keyed by number), positive dictionaries for the whole file,
and bodies: each body is a bit stream with its own negative dictionary followed
by tokens. An article is a *window* on a body: a token offset and a token count.
Its tokens are expanded to XML. A **LIT/EIT** container holds a directory of
entries that are slices of sections; a section may be LZX-compressed, cut into
windows of a fixed size. The code takes it that the compressor starts afresh at each
window; some containers are not made that way and fail (`src/README.md:71`).

Everything runs in one thread. What makes the code hard is not scheduling but
long chains of state: bit readers that run ahead of what is asked, buffers that
are reused without being cleared, flags that are set in one place and looked at
in another, loops nested over three different lengths, caches shared by
articles, and inputs that end early.

| component (source) | state | operations | what is hard | what makes it correct |
|---|---|---|---|---|
| bit readers: `akc_codec.BitReader`, `portable_akc.LookupBitReader` | byte pointer, 32-bit window, bit counter, error flag | `read`, `peek`, `drop`, `seek_bits`, `clone` | loads of one and of two words into the same window; the last load credits bits it has not | bits come in order, none lost or repeated; an overrun is noticed |
| code lengths: `read_code_lengths` | length array, place in it, running length | three transmissions | loops that end only if reads make progress; runs past the alphabet | bounds; every call returns |
| Huffman: `CanonicalHuffman`, `build_decode_table`, `_HTree`, `make_decode_table` | first codes, sorted symbols, tables | build, decode | incomplete and oversubscribed codes, the last bits of an input | every decoder finds the same code word |
| dictionary: `decode_dictionary`, `entry_payload` | record buffer, slots with counts and positions, data and table | segments, records, final checks | front coding over a buffer that is never cleared; records in encoder order, stored by slot | a slice of two table entries is the payload of that record |
| tokens: `decode_tokens` | token list, reader | literals, copies | overlapping copies, a count that cuts a copy | a shorter decode is a prefix of a longer one |
| expander: `expand_tokens`, `E770State` | mode, case flag, run-length tag stack, output | eleven opcodes | any order of opcodes drives one mode flag and one stack | well-formed markup, closings that close what they name, the size limit |
| article decoder: `PortableAkcDecoder`, map commands of `cli.py` | dictionary cache, key map, map file | `decode_key`, `decode_refid`, `write_map_rows`, `load_refid_key_map`, `decode-portable` | one cached reader for all articles of a body; a map made in one way and used in another | an article does not depend on what was decoded before |
| seek table: `iter_lookup_windows`, `lookup_window` | reader, running key, place in its group | walk to a key | groups of 32 but for the last two; a sticky error | the answer is the range |
| LIT container: `lit.EitFile`, `extract_lit` | directory, section cache, output directory | `get_section`, `decompress`, `extract` | windows counted in reset intervals, tables that end early, failures in between, two names of one file | a written file is its entry's bytes |
| backend choice: `lit._lzx` | module cache, environment | first use | an order three places describe | the order the README promises |
| LZX decoders: `lzx.py`, `lzxd.c` | reader, window, repeated offsets, code lengths, block, run and frame lengths | `init`, `reset`, `decompress`; `lzxd_init`, `lzxd_set_output_length`, `lzxd_decompress`, `lzxd_free` | two implementations with different readers and tables; stored blocks; ends of frames and inputs; calls that cut up the output; bytes that wait in one of two buffers | they agree; a truncated stream fails; bytes come out in order and once |
| extension: `lzxmodule.c` | window size, the stream of the running call | `init`, `reset`, `decompress`, callbacks | an error code and a Python exception that are set in different places | the whole result or an exception |
| libmspack shim: `mspack_lzx.py` | a loaded library | decompress through ctypes | none of its own | (external) |
| dumper: `dumper.py` | manifest, files | load, write, flush | a process that dies, or a write that fails, in the middle of a file; files written again | what the manifest lists is there |
| catalog, URLs: `catalog.py`, `urls.py` | none | one pass, formatting | none | (not modelled) |

How they interact: `PortableAkcDecoder` asks the seek table for the window of a
key, decodes the body's dictionary once (BitReader, code lengths, Huffman,
dictionary), clones the reader that stopped behind it for each article, decodes
tokens from there and expands them. `map-akc` decodes the heads of all articles
to find their refids and writes a file that `decode-article` and
`decode-portable` read. `extract_lit` works through the directory of a
container, fetches sections on first use, and hands every window of a compressed
section to the backend `_lzx` picked.

## 2. Modules

| module | models | uses |
|---|---|---|
| `BitReader` | the two AKC bit readers | |
| `AkcDictionary` | `decode_dictionary` | |
| `SeekTable` | the walk over the groups | |
| `MCTables` | instances of the three above, which it extends or instantiates | all three |
| `CodeLengths` | `read_code_lengths` as loops | |
| `Huffman` | the canonical walk and two Python table decoders | |
| `LzxTable` | `make_decode_table` and `READ_HUFFSYM` on the same input | `Huffman` |
| `LzxLengths` | the delta-coded lengths of the LZX trees, in both decoders | |
| `MCCodes` | instances of the four above | all four |
| `TokenStream` | `decode_tokens` as a recursive function | |
| `AkcDecoder`, `MCAkcDecoder` | decoder, cache, map file, commands | `TokenStream` |
| `ElementStack` | what the tag stack promises (abstract) | |
| `E770` | `expand_tokens`, with the mapping of its run-length stack (`Unrolled`) to the promise | `ElementStack` |
| `MCE770` | an instance | `E770` |
| `LitContainer` | extraction and backend choice | |
| `Dumper` | the dump folder and its manifest | |
| `MCLitContainer` | instances of the two, side by side | both |
| `LzxReaders` | the bit readers of the two LZX decoders, as operators | |
| `LzxOffsets` | position slots and match offsets of both | |
| `LzxDecoders`, `MCLzxDecoders` | both LZX decoders on one stream, bit by bit | `LzxReaders`, `LzxOffsets` |
| `LzxTranslation` | the E8 translation of one operand | |
| `LzxFrames` | the bytes of one call in both decoders: windows, matches, translation | `LzxTranslation` |
| `ByteStream` | what a decoder called for some bytes at a time promises (abstract) | |
| `LzxStream` | the life of an `lzxd_stream` over any calls | `ByteStream` |
| `LzxModule` | the extension module on top of it | `LzxStream` |
| `MCLzxStream` | instances of `LzxModule` and `LzxFrames` | both |
| `Iteration` | lemmas: induction over numbers, functions defined by recursion | TLAPS |
| `TablesProofs` | theorems about `BitReader`, `SeekTable` and `AkcDictionary` (section 4) | all three, TLAPS |
| `CodesProofs` | theorems about `CodeLengths`, `LzxLengths`, `Huffman` and `LzxTable` | all four, `Iteration`, TLAPS |
| `E770Proofs`, `AkcDecoderProofs`, `LitContainerProofs`, `LzxDecodersProofs`, `LzxStreamProofs` | theorems about the module of that name; `LitContainerProofs` also about `Dumper`, `LzxStreamProofs` also about `LzxModule` and `LzxFrames` | that module, `Iteration`, TLAPS |

Components that share a question but no state are run side by side: the MC module
holds a variable that says which of them a behaviour is about, and the others
stand still. It costs the sum of their state spaces, not the product.

No module declares a RECURSIVE operator: recursion over data is written as
recursive functions or folds, so that every module can be proved about. A run's
module extends the module whose properties it checks, so that the theorems and the
runs speak of the same definitions.

### How state and actions correspond to the code

`BitReader`. A bit is its position in the stream and a window is a function from
bit places to positions, so a result shows *which* bits came back, not how many.
`Read` (`read`, `drop`), `Peek` and `Seek` are the methods with their early
returns; `Refill` is `_refill`. `bits` is the code's own counter, which credits
32 after the last load even if that load was one word. `asked`, `far` and `got`
are history. The real width is `Half` = 16.

`E770`. One action per opcode (5, 6 and 7 share `AttributeValue`, 1 and 2 share
`Text`). Payloads are sizes. What is written is kept as a length and as the state
of a reader of the markup, `lex`; `need` is what the code asked `ensure()` for,
`size` what it appended, because several appends are not covered by an
`ensure()`. `Mask` is the 0xFF of the stack index.

`AkcDictionary`. `ReadSegment` is one turn of the loop of `_read_segments`,
`ReadRecord` one of the record loop with its checks in the code's order of
effect, `Finish` the sums at the end and the sentinel. The record buffer keeps
what earlier records left; `prev` and `recs` are the records as front coding
defines them.

`CodeLengths`. The reader is the number of bits left; it answers any value while
there are some and 0 behind the end, and `read_code_lengths` never looks at its
error flag. Each transmission is a start action and a loop action.

`Huffman`. All of one decoder's arrays at once: `FirstCode`, `Sorted`, `Slots`
and `Fillers` are what the constructors compute, `ReadBit` is the walk,
`HTree` and `TableWord` the two table lookups. `CodeWord` and `Kraft` are the
reference. `LzxTable` adds the table of `lzxd.c`, built as the code builds it:
`WithLengths` is the loop over lengths, `WithLength` the one over symbols, `ShortCode`
fills, `LongCode` follows a `Path` and makes the nodes it lacks (`Split`),
`MakeDecodeTable` is the whole with its error returns; `inside` records whether every
entry used was in the array and written.

`LzxLengths`. Both decoders take the same symbols. `py` and `native` are their
lengths of main and length tree, kept from block to block; C's arrays go on
behind the last symbol, Python drops what would fall there. `part` counts the
three calls a block makes.

`TokenStream`/`AkcDecoder`. A body is its symbols; `SymbolAt` answers the
all-zero code's symbol behind the end; `Symbols` are what the codes can say.
`RawTokens` is cache lookup, clone and decode; `cache` holds, per body, where the
cached reader stands. `MapAkc` writes `rows`: `WriteMapRows` takes the bodies in
the order their first keys come (`IsFirst`). `Open` makes a decoder that loads
them, `DecodePortable` writes `files` in key order (`PortableRun`).

`SeekTable`. A window is the number of its record. `Walk` is one turn of the
inner loop: fields, range check, count check, then the next key or the next
group. Behind an error the values the code would make of what the reader still
holds are a nondeterministic choice: fields that are those of no record
(`Garbage`), none at all, and any delta (`Jumps`). `header` says how reading the
header's record pairs went, which may put the reader in error before the first
record or leave the table without primary records.

`LitContainer`. Content is measured in units. `step` is how many of them lie between
two entries of the reset table, `reset` how many between two resets of the compressor,
which the code never compares with anything: a piece that does not begin at a
reset, or goes over one, is decoded to an exception or to units that need not be the
right ones (`Framed`, `Decompressed`). `OpenContainer` is the constructor, which may
raise and with that end the run over all containers; `TableEntry` and
`TableEnd` are the two parts of `decompress`; `StartLzx` chooses the backend, with
`LZX_PATH` and a native module that does not load;
`KeepSection`, `WriteFile` and `Finish` are `get_section`, the extraction loop
and the count. A name is its leading slashes and the rest, and `Path` drops the
slashes. `WriteFile` may end in an `OSError` with any part of the file on disk, which
nothing catches. A container is one of a sequence extracted into one directory by
one process.

`LzxReaders`/`LzxDecoders`. Both decoders take each step of a stream together;
what the stream says next is chosen, which is sound while both stand at the same
bit. `py` and `cd` hold each decoder's reader, block remainder, run and output.
`OpenCompressed`, `OpenStored`, `OpenInvalid` are block headers, `TreeField` and
`TreeSymbol` the tree descriptions, `BeginRun`, `Literal`, `Match` and
`CopyStored` the run, `EndFrame` the alignment at the end of a frame. `split`
names the first of three cases the two treat differently. `LzxOffsets` makes the
slot tables in the way each source does, and an offset out of a slot and its bits,
of which it matters whether all are 0 or all 1.

`LzxFrames`. A byte is a small number, an operand one byte. `CCopy` follows the
one or two copy runs of `lzxd.c`, `PyCopy` the slice or the loop of `lzx.py`;
`CPut` translates a copy of the window, `PyPut` the output. `plain` is what the
tokens mean.

`LzxStream`. A byte is its place in the stream, so that `output` says which bytes
came out. `Decompress` is the entry of `lzxd_decompress` with the bytes left from
the last call, `StartFrame` the head of the frame loop with reset and header,
`OpenBlock` and `Run` the block loop, `EndFrame` the write and the wrap,
`FinishCall` the end; `BadInput` is every return on unreadable input. `held` is
`o_ptr` to `o_end` and the buffer they point into. `heap` is what the allocator
gave; `src.sound` remembers whether the stream was well formed, the callbacks
worked and nobody asked for more than there is. `Run` stands for all tokens of
a run; their bits are in `LzxDecoders`. A block of length zero takes its header and
puts out nothing (`TakeHeader`); `src.empty` is how many of them the input has.

`LzxModule`. `Enter`, `MakeStream`, `Start`, `Answered`, `Dispose` and `Return`
are `decompress` from top to bottom. `caller` says whether a behaviour is one of
the extension or of any program that uses the functions of `lzxd.h`.

`Dumper`. Opening a file for writing empties it: `OpenFile` leaves a part,
`CloseFile` the whole and the entry in the manifest. `OpenManifest` and
`CloseManifest` are `flush`. `Die` may come at any time; `WriteFails` is an `OSError`
that the caller survives, in a file or in the manifest. No caller is in the
repository, so any call may come at any time, for an article that is listed as well;
`again` remembers the listed items whose file was opened for writing again. Two hexids
may share a file. The manifest's lengths and messages are left out.

## 3. What the runs check

| run | question | bounds |
|---|---|---|
| `tables` | Do reads, peeks and seeks in any mix deliver the stream in order, and is an overrun noticed within a word? Is the answer of the seek table the range, and what does a faulty record or header spoil? Does every index of an accepted dictionary slice out its own record? | words of 4 bits, 5 of them, widths 1, 3, 4, 5, 8, up to 30 bits asked; groups of 3, up to eight records, one of them faulty, any header; three records of up to three bytes over slots of 2 and 3 entries |
| `expander` | Is the markup well formed, the stack canonical, the limit kept, and does each closing end what it names? | output of 22 bytes, two names, index mask 4, stack of 5 |
| `codes` | Which loops end when the reader runs dry? Do walk and tables find the code word a prefix code assigns? Does the native table stay in its array? Do both LZX decoders build their trees from the same lengths? | one to four symbols, up to five bits left; 256 length arrays of four symbols and arrays of seven symbols, ascending or descending, up to length 6 in tables of 2 and 4 bits; trees of 2 and 1 symbols over two blocks |
| `code_lengths_returns` (violation) | Does every call return? | three symbols |
| `akc_decoder` | Does an article depend on what was decoded before it? Do map and bulk decoding agree with single decoding? | 48 files: two bodies, three articles |
| `lit_container` | Is a written file its entry's bytes, whatever failed before it? Does extraction end? Is the manifest of a dump folder true after a death or a failed write at any point? | windows of 2 units, sections of 0 to 5, tables of 0 to 6 entries every 0 to 3 units, resets every 1, 2 or 4, two containers; two articles, two hexids with one file, any number of deaths |
| `lit_backend` (violation) | Is Python used when it is forced? | the same |
| `lzx_decoders` | Do the two decoders stay at the same bit, block, run and frame, with the same offsets? Do truncated streams fail? Does every call end? | streams of 24 bytes, frames of 2 bytes, a window of 2^18, blocks of 0 to 2 bytes; all 50 slots |
| `lzx_align` (violation) | Is a stored block read from the same byte by both? | the same |
| `lzx_stream` | Do bytes come out in order and once however calls cut them up? Is a sound stream decoded? Does anything leak? Is the result of the extension whole? Do both decoders put out the same bytes? | frames of 2, a window of 4, streams of 3, 4 and 7 bytes, blocks of 0 to 5 bytes (two of 0), matches one byte over a run, calls for -1 to 5 bytes; windows of one frame of 4 bytes with two literals, matches of 2 and 3 at distances 1 to 4, totals of 7 and 8 |
| `lzx_length` (violation) | May the output length stay unset? | streams without reset interval |
| `lzx_reset` (violation) | Does a reset point reset the offsets? | the same as `lzx_stream` |

Why these bounds reach the interesting cases:

* `tables`, readers: with `Half` = 4 and 20 bits the last refill loads one word after
  two double ones, or two after an odd number of peeks; widths of one word and
  two words empty and overfill the window; 30 exceeds the end by more than a word
  and a half, so both sides of `OverrunReported` are reached. The proofs carry
  this to every width. Seek table: up to two full groups with every remainder, a
  fault of every kind at every place, deltas that are too small and too large.
  Dictionary: a first slot with one or two records, and a second one behind it;
  records that share all, some or none of the one before; opcodes of every
  path (payload needed, optional, close-ref, empty close, invalid).
* `expander`: 22 bytes hold six nested elements of the shorter name (three bytes
  and a closing `>`), a run of equal names, and closings across several
  runs. The stack gets as deep as the mask can tell apart, and no deeper; beyond that
  the code names another entry (section 5), which is why two theorems have the
  assumption `Shallow`.
* `codes`: all lengths up to one more than the Python tables' two bits, so there are
  direct hits, walks, misses, incomplete and oversubscribed codes; two bits more
  than the native table's four, so that nodes branch twice; arrays whose codes
  fill the space but for two units of the longest, exactly, or by up to four too
  much. Second symbols of a run of 0, 15 and 19, which take a length down to 0 and
  below -17; runs of up to 51 behind trees of one and two symbols.
* `akc_decoder`: articles that overlap, lie in another body, cut a copy, or run
  off the end of the body; a body without a dictionary; tokens that do not
  expand; several articles of one refid; refid 0.
* `lit_container`: every length up to two windows and a half with a table that
  stops early, just reaches and goes past the end; a bad window in each place;
  transforms that are not LZX; compressors that reset between and across the windows,
  and tables whose entries miss the windows' ends. Two entries of one section, an
  entry with the same file as one before it, a second container with the same
  files.
* `lzx_decoders`: word, field and code widths are the real ones (16-bit words, 3
  + 24 header bits, codes of 1, 5 and 14 bits with tables of 1 and 12 bits,
  offsets of 3 and 17 extra bits). The small stream makes every header fall at
  every bit position and every part of a block run off the end; blocks and
  matches cross runs and frames of two bytes.
* `lzx_stream`: streams that end inside a frame, at the end of one that is also the
  end of the window, and after the window has wrapped; calls of less than a
  frame (bytes wait), exactly one, more than one, and more than there is; blocks
  that end with a frame, inside one and over two; blocks of no bytes, several in a row
  and at any place; a reset point every two frames; frames
  longer and not longer than the untranslated tail. Matches reach to the window's
  start, over its edge and into themselves; the second frame is translated from a
  window that has wrapped.

**Fairness.** `CodeLengths`, `LitContainer` and `LzxDecoders` assume weak fairness
of `Next`, `LzxStream` and `LzxModule` of the steps inside a call (`Within`, `Inside`):
one thread runs the loop and nothing suspends it for good. That a program calls
again is not assumed, nor that a dump goes on. Nothing else is assumed; in
particular no fairness says that a reader has more bits or that a choice of the
input falls one way. **Deadlock** is not checked where a call ends (all runs but
`akc_decoder`, whose commands can always be given again).

**The refinements.** `ElementStack` states the tag stack without run lengths: a
list of open elements; a close-ref names the last element of the k-th innermost
run of equal names and ends it with everything inside; only an open start tag can
be closed as empty. `E770` implements it (`ClosesWhatItNames`): the list is the
stack with every run written out (`Unrolled`). The run checks it, and
`ExpanderKeepsPromise` proves it.

`ByteStream` states what `lzxd.h` says of `lzxd_decompress`: a call for n bytes puts
out the next n bytes, in one piece or several, or some of them and fails, and
nothing comes after a failure. It knows no frames, windows or buffers.
`LzxStream` implements it (`Delivers`): `delivered` is the output, `owed` the bytes
the call has still to write. The run checks it, and `StreamKeepsPromise` proves it.

**Mutants.** Every property of a passing run is paired in `PROJECT.json` with a
mutated definition (a dropped guard, an off-by-one, a missing reset) under which
TLC reports it violated. The mutated forms stand next to the definitions they change
(`CutLate` beside `Cut`, `WrappedLate` beside `Wrapped`).

## 4. What is proved

Every safety property of every passing run is a theorem about its specification, and
so are the two refinements; what is left to TLC is at the end of this section.
A theorem holds for every value of the constants that meets the module's ASSUME,
hence for the code's own: 16-bit words, groups of 32, frames of 32768 bytes.
Each component has one inductive invariant (`IInv`; in `TablesProofs` `ReaderIInv`,
`TableIInv` and `DictionaryIInv`, `LInv` of the LZX decoders, `FolderInv` of the dump
folder, `FramesInv`, and `LengthsTypes`, `TreesInv` and `WalkInv` in `CodesProofs`), a lemma per action that it is kept, and its theorems behind
them. All of them are checked to their leaves with SMT, Zenon and LS4.

**`TablesProofs`, bit readers**, for every `Half` > 0, every span of whole words and every set
of widths up to two words:

* `ReaderInOrder`, `LookupInOrder`: results are the stream's bits in order while
  no error is flagged, with any mix of reads and peeks, and of reads and seeks.
* `ReaderOverrun`, `LookupOverrun`: the error flag means that a caller asked
  behind the end, and comes up after one word at the latest.

`InOrder` is not inductive: it speaks of the last result only. The invariant
adds that the counter and the pointer say where the caller stands
(`CountInv`: they differ by the bits in the window, or by the word the last load
credited and did not load) and that the window holds just the bits from there on
(`WindowInv`), together with `OnWords`, that the pointer is on a word boundary.
While the flag is up neither is claimed.

**`E770Proofs`**, for every set of names and sizes, every limit, every mask and every
sequence of tokens:

* `MarkupWellFormed` (`ModeFollowsOutput`), `OutputBounded`
  (`OutputWithinLimit`), `StartTagStaysOnTop`.
* `StackStaysCanonical` and `ExpanderKeepsPromise` (`ClosesWhatItNames`: every step is a
  step of `ElementStack` or none; a closing ends just the element it names), of every
  behaviour whose stack never holds more runs than the index mask can tell apart
  (`[]Shallow`; 256 in the code).

The invariant is the first three properties and `TypeOK`: an empty close needs
`StartTagOnTop` to find an entry, whatever entry the masked index then counts down.
`StackCanonical` is not part of it. It is kept step by step while the stack is shallow:
the pop of `dec_tag` stops after one entry because it holds, and that needs the
masked index to be the top. In a deeper stack both theorems' conclusions are false of
the code, which enforces no depth. For the refinement the unrolled
stack is characterised by what it does when a run is pushed, lengthened, shortened
or popped.

**`TablesProofs`, dictionary**, for every partition of the entries into slots, every
number and length of records and every order of slots:

* `SlicesAlwaysRecords`, `AlwaysWrittenOnce`, `BufferAlwaysPrevious`.

A slice is made of two table entries, so the invariant must say of *every* pair of
neighbours that the second starts where the payload of the first ends, also while
the second is not there yet, belongs to another slot or is the sentinel
(`TableInv`). That needs the segments of the slots to lie apart and to add up
(`SlotsApart`, `SlotsInBounds`, `EntriesHaveSlots`), and `BufferInv` for the bytes.

**`TablesProofs`, seek table**, for every group size above 1, every table of ascending keys,
every header, every placement of faults, any deltas a faulty reader may give and every
query:

* `AnswerAlwaysRange`.
* `FaultsAlwaysStay` (`FaultsStay`): behind a fault nothing but primary records, under
  keys that may be wrong, is answered; no secondary record is, in no later group
  either; in a table without primary records nothing is. Keys are right up to the
  fault and at the start of each group.

`AtRecord` says that the walk takes all records one by one (the groups add up to
the table: `LastEntry` and `GroupCount` for every size), `RightSoFar` what the list
holds, with `Spread`: keys are distinct, so a list as long as the range *is* the range
and the walk may stop. `ErrorInv` says that the flag is up just behind a fault and
never comes down, which is what `seek_bits` leaves it to be; `GroupKeyInv` and
`WindowsInv` what of keys and windows a fault cannot spoil.

**`AkcDecoderProofs`**, for every file (any bodies of any symbols, any windows on
them), every set of keys and refids and any number of head tokens:

* `PrefixAlwaysStable`: the shorter of two decodes is a prefix of the longer.
* `ArticlesAlwaysFresh`: an answer does not depend on what was asked before.
* `RowsAlwaysArticles`: the refid of a map row, found in a slice of a list shared
  by a whole body and cut by `token_prefix`, is that of the whole article.
* `RefidsAlwaysAgree`: the loaded map, `decode-article` and `decode-portable` mean
  the same article by a refid.

`DecodePrefix` is the heart: turn by turn, both decodes do the same until the shorter
one is full, and a copy that is cut leaves what the longer copy begins with
(`CopiedGrows`). On top, the invariant says that a cached reader stands at the
start of its body (`Caches`), that the map has one row per key, with the refid of
the article a new decoder would make (`RowsInv`), and that a decoder's loaded map
stays true when the map file is written anew (`RefidsTrue`). The loops over bodies
and rows are functions of the number of keys done; `MapTable` and `PortableTable`
say what each turn does.

**`LitContainerProofs`**, for every window size, all containers and environments, names
within one container being distinct as names (the directory is a dict), if not as
files, and sections existing (`WellFormed`):

* `SoundEntriesAlwaysSucceed`, `SectionAlwaysWhole`: of sections whose compressor reset
  where a window begins and nowhere else, with a table that lists those places
  (`WindowFramed`). Nothing in the code sees to that, and the files `src/README.md:71`
  names are those that fail: the condition is part of the property, not of the
  model, and the run has sections that do not meet it.
* `WrittenAlwaysOwn`: what an entry wrote is there, its own and whole, unless a later
  entry of the container wrote to the same path (`Overwritten`).

`JobInv` follows the decompression under way: whole windows lie behind each other
from the start, the units since the last one are a whole number of table steps, and
they are counted from where it ended (`Aligned`, `InTable`), which is why the rest at
the end is short. `WrittenIsThere` relates the outcomes to the files on disk.

* `ManifestStaysTrue` (of `Dumper`): for every set of articles and baggage, every naming
  of files, any deaths and any failing write, of the manifest too: an item listed is
  whole, unless its file was opened again since, and a manifest that can be
  loaded has what all before it had. The invariant adds `KnowsWhatWasSaved`, that a
  running Dumper has in memory every item of the manifest on disk and of all that were
  flushed, `OpenIsNoted`, that what an open file is about to replace is in
  `again`, and `OnlyRunsWrite`.

**`LzxDecodersProofs`**, for streams of even size, every frame and window size, codes of
1 to 16 bits with tables of 1 to 12, all 50 slots:

* `AlwaysInLockstep`: as long as Python decodes, C is at the same bit, place and
  offsets, but for the three ways apart that `Lockstep` names.
* `BlocksAlwaysCounted`, `NothingAlwaysBehindTheEnd`.

Two readers that load at different times stand at one bit (`Together`); the readers'
operators are shown one by one to move both by the same number of bits, for every
fill of the two buffers, and `StoredPlace` where the alignments differ. `SamePlace`
says where both are, `RunInFrame` and `Counted` that runs never leave the
frame, `BehindTheEnd` that decoders once apart meet again only behind the end. The
slot tables the two sources build are proved equal by induction on the slot
(`ExtraBitsAgree`, `BasesAgree`, `OffsetsAgree`), and `SlotTablesAreTheSame` (`SlotsAgree`)
adds that a window's slots reach to its last byte.

**`LzxStreamProofs`**, for every frame size, every window of whole frames, every
input, every order of calls and any failing callback:

* `StreamKeepsPromise`, `ModuleKeepsPromise` (`Delivers`): `LzxStream` implements
  `ByteStream`, called by any program and called by the extension.
* `StreamTypesCorrect`, `ModuleTypesCorrect` (`ModuleTypeOK`): every index, count and
  offset stays in its range, behind a failure too.
* `StreamLeaksNothing` (`NothingLeaks`), `ModuleResultIsWhole` (`ResultIsWhole`).
* `StreamSoundAnswered`, `ModuleSoundAnswered` (`SoundAnswered`): no call for bytes a
  sound stream has, of known length, fails.

The invariant says where each byte that has been decoded and not put out is: held in
one of two buffers (`HeldInOrder`), or in the window from `frame_posn` on
(`Placed`), until a short frame ends the stream (`Ended`); `InsideFrame` says how far the
frame is. `FreedIsEmpty` and `CallInv` cover the ends of a stream's life, and
`ModuleInv` adds what each step of `lzxmodule.c` has in its hands.

That nothing fails takes more (`SoundInv`, also checked by TLC before it was proved):
the number of the frame counts the bytes that are out or held, up to the length
(`FramesCounted`); a call knows the frame its last byte is in, and bytes still held
mean that nothing is left to do (`CallFits`); a block ends before the reset behind
its frame (`BlockFits`). Each way to `return lzx->error` is then refuted by one of
these: a block left over at a reset, an input that ends before its block, a frame
put out over bytes still held, a call that ends with bytes missing. What the caller
adds is `LengthAsked`: a program names the whole length or none (`ProgramLength`), the
extension module what it then asks for (`CallerLength`).

**`LzxStreamProofs`, frames** (`LzxFrames`), for every length of a frame, every window
of whole frames, any literals, lengths and distances, every tail of two bytes or more
and every even number of operand values:

* `PlainWindows` (`WindowsArePlain`), `EqualBytes` (`SameBytes`).
* `TranslationLosesNothing`, about `LzxTranslation` alone: the translation of operands
  is one to one.

`Cursor` ties `posn` to the bytes so far: byte number i stands at `Place(i)`, its
remainder by the window, and since a frame never crosses the window's edge
(`FrameFits`) `posn` needs no wrap inside one. `CSource` with its restart and the two
remainders of `lzx.py` then name the same place, that of the byte `off` before
(`SourcePlaces`), and every way to copy is the same table of single bytes
(`FillsHold`), but for the slice, which is right because it neither wraps nor
overlaps (`PySliceHolds`). `OutputsAgree` says what `lzx.py`'s output is at any time:
what went to `write()`, then the frame, not translated. At the end of a frame both
translate the same bytes (`SameFrame`) from the same place, as `curpos` has counted
them (`SamePut`). What a translated operand is plays no part; it only has to be as
long as before (`TranslatedTyped`). As in the properties, a call is left out once a
match has reached before its first byte.

**`CodesProofs`, code lengths**:

* `LengthsTypesCorrect` (`TypeOK`), for every alphabet and reader: no mode of
  `read_code_lengths` writes outside its array.
* `TreesAreTheSame` (`SameTrees`), for every number of symbols and any deltas, runs and
  blocks. `TreesInv` keeps both arrays equal up to the tree's end (`EqualLengths`),
  unless a length was wrapped or a run spilled, and says which of the two trees'
  parts is being read, hence that a run of 51 ends in C's array.

**`CodesProofs`, Huffman decoders**, for every array of lengths, also incomplete or
oversubscribed ones, every input and every table width:

* `WalkTypesCorrect`, `WalkIsRight` (`WalkFindsCodeWord`): the walk finds the symbol
  whose code word the input begins with.
* `TablesAreRight` (`TablesAgree`): neither Python table answers anything else.
* `NativeTableIsRight` (`NativeTableIsWalk`): nor does C's, which stays in its array.

`WalkInv` is that `code` is what `ln` bits spell (`Peek`) and that all shorter lengths
are missed (`Missed`): the input begins with none of their codes, it lies at or
behind the first free one (`FirstFree`), and so not before the first code of the next
length. A prefix below the first free code, on the other hand, stays below all later
codes (`StaysBelow`), so that no second symbol fits (`OneSymbolFits`). The canonical code
is the reference's code word because both sums double from one length to the next
(`TakenIsFirstCode`), and `Sorted` finds the symbol because ranks are distinct and
all taken (`RankExists`, `RankUnique`). A slot of a table holds the symbols whose code
the peeked bits begin with (`FillerFits`); none of it needs the codes to fit.

C's table is followed code by code through both loops (`LoopsKeep`). Its short half
holds, from the start to `pos`, the symbol each index begins with (`ShortInv`). Behind
it stands a tree. Its invariant, `Grown`, gives every entry in use a label, the bits
it is reached by (`Placed`): labels are distinct, a node's children have its
label and one more bit (`ChildrenOf`), symbols lie before `pos` and unused entries
do not (`Settled`). So the path of a code meets no symbol, comes to an unused entry
(`PathGrows`), and leaves no unused entry before the new `pos` (`SymbolEntered`); a
lookup never meets one, `pos` being the end of the code space by then (`EntryRead`). That a node finds
room in the array is a count (`BeginningsFit`): nodes are beginnings of longer codes,
and numbered from the shortest to the longest (`Slot`) they stay below the number
of symbols if all the code space is taken. It is (`Full`), since lengths that
leave some are refused in the end, and `pos` does not depend on the tree (`LongEnd`).

**Induction.** The library's induction theorems take an operator as parameter, which
the provers cannot instantiate. Where a recursive function is proved about (slot
tables, unrolled stacks, copies, token lists, map loops), the set of numbers at which a
claim holds is shown to be all of them (`SetInduction` in `Iteration`, from `WFMin`), and the
function itself is obtained from an explicit table (`IterationExists`, `TableExists`).

**Only model-checked.** Liveness (`LengthsEnd`, `Ends`, `Returns`, `Terminates`):
fairness and ENABLED are outside the prover. Of lengths that `make_decode_table` refuses in the end
`NativeTableIsWalk` says nothing: the nodes of many long codes that leave gaps between
them can be more than symbols before the refusal.

## 5. Findings

1. **A dry reader hangs the sparse code lengths** (`code_lengths_returns`). In mode
   B a position equal to the previous one consumes no entry. A reader past its
   end answers 0 for ever and nobody looks at its error flag; if the stream ends
   after position 0 the loop at `akc_codec.py:348` does not end.
   `SparseEndsOrRunsDry` (in `LengthsEnd`) shows that this is the only way.
2. **`STRATA_USE_PY_LZX=1` does not force Python** (`lit_backend`). It only skips
   the shim; an existing `native/build/lzx.so` is taken all the same. The
   repository's README promises the opposite.
3. **`align16` and the C decoder disagree** (`lzx_align`). Ahead of a stored block
   `lzxd.c` discards 1 to 16 bits; `lzx.py` discards none if its buffer is empty
   (C: a word) or holds exactly eight bits (C: a byte). The block's offsets and
   data are then read two bytes or one byte early. Confirmed by running
   both decoders on such streams. The catalogs the README mentions evidently
   hold no stored block at such a place.
4. **The output length is needed** (`lzx_length`). With a length of 0 the last frame
   is decoded as a whole one; `lzxd_decompress` reads behind the stream's end and
   fails, and the bytes it had of that frame are never put out. `lzxd.h` promises all
   but four of the last six bytes. The extension always gives the length.
5. **A reset does not reset the offsets** (`lzx_reset`). `lzxd_reset_state` sets R0
   to R2 in the structure; a call that crosses the reset point works on copies it
   made at its start and writes those back. Whether a reset takes effect
   depends on how the caller cuts up the output. The extension never resets.

Behaviours met on the way that no doc contradicts or that a small run would show
no better than a sentence:

* `lzx.py` treats a truncated stored block that is continued in the next frame by
  a byte as complete and puts out a byte too many (`split` = "short").
* A call of `lzxd_decompress` that ends at the end of a frame decodes the next frame as
  well (`end_frame` is one more than needed). If the stream ends there at a reset
  point, that frame wants a header, reading it fails, and the call fails although its
  bytes are out (`EndsAtReset` in `SoundAnswered`). With a frame too far ahead and
  bytes of the last one still waiting the call fails too.
* Runs of code lengths may go past the end of a tree: C keeps what falls behind,
  and its tables are built over those entries; Python drops it (`spilled`). A second
  symbol of a run above 16 can take a length below -17: 254 or so in C, negative in
  Python (`wrapped`).
* The E8 file size is signed in C and unsigned in Python; C translates up to frame
  32768, Python up to 32767. Neither decoder clears its window for a call: a match
  that reaches before the first byte copies what is there (`early`).
* `dumper.py:2` speaks of "a manifest for resumable runs". A dump that dies inside
  `flush`, or whose flush fails and is not repeated, leaves half a manifest: every later
  start raises (`Loadable`), until somebody removes the file and with it the list.
* `write_article` does not ask whether the article is listed, and two hexids may be one
  file (`b1` and `b1.bin`): while such a file is written again, and when that fails, the
  manifest lists what is not whole (`again` in `ListedIsWhole`).
* `extract_lit` writes to `name.lstrip('/')`: of two entries `/a` and `a` the later one
  in name order is on disk and both are reported as written. An `OSError` in making a
  directory or a file, or an exception in `EitFile`'s constructor, is outside the
  `try` and ends the extraction of all that follows.
* A match that reaches back by more than a window is taken modulo the window by
  `lzx.py` and fails in C (`split` = "reach"). Python rejects blocks of length zero
  and matches that cross the end of a frame; C accepts both, and a call over many
  empty blocks lasts as long as their headers (`Returns`). `_HTree` takes incomplete
  codes that `make_decode_table` rejects. The branch of `lzx.py` that lets a
  match borrow from the next frame (415 to 419) cannot succeed, because the
  check of the frame's goal follows it.
* `LookupBitReader`'s error flag is sticky, behind `seek_bits` too. Behind a fault no
  secondary record is found in any later group; records
  that need none are answered from what the reader still holds, under keys made of
  such deltas (`FaultsStay`), and an overrun of the main reader is not checked.
* `decode_dictionary`: a record of length zero takes the opcode of the record before
  it, from the buffer. The reader's error flag is looked at only behind a record,
  so a truncated block with no records is accepted; a body of odd size in mode 0
  decodes to an empty dictionary although `akc_codec.py:65` calls an odd span
  invalid.
* `decode_tokens` ignores the reader's error flag: a truncated body ends in
  repeats of whatever its all-zero code means.
* `decode_symbol` answers symbol 0 for a code its table has no slot for;
  `akc_codec.py:208` says it raises.
* `close_ref` and `empty_close` mask the stack index to eight bits: beyond 256
  runs of open elements they name another entry.
* `map-akc` writes its header before it decodes: a failure leaves a map without
  rows. Its default range is the *number* of keys, used as a bound on keys. An
  article with refid 0 gets a row without a refid.
* A section that is a whole number of windows loses its last window, without an error,
  if its reset table does not list the end (`TableReaches` is the condition under
  which `SectionWhole` holds). `extract_lit` returns the number of files in the
  output directory, not, as its docstring says, of those written.

## 6. What is not modelled

* Parsing of LIT headers, directory chunks and name lists, of AKC headers, and the
  catalog and URL helpers: layout without state beyond the result.
* What `init`, `reset` and an earlier call leave for the next one in `lzx.py`:
  `lit.py` calls `reset` ahead of every window.
* Mode and header variants of the dictionary that only change how many header bits
  are read; table reuse raises `NotImplementedError`.
* The libmspack shim beyond its availability: it is a call into an external library.
  Argument parsing, `--limit` of `decode-portable` (`cli.py:135`), benchmarks, tests.
* In the native code: streams of odd size (the last byte is read with a made-up
  one), `lzxd_set_output_length` with a length below what is already out or after a
  failure (outside what `lzxd.h` allows), frame 32768, which C still
  translates and Python does not (`SameBytes` leaves it out), the shortening of a write in
  `glue_write` (room and length asked for are equal in `decompress`), lengths of 2^31
  and more in `glue_read` and `glue_write`, arguments of the wrong type, `glue_open`
  (sets an exception; nothing calls it). `mspack.h` describes libmspack's other formats, of
  which this program has none; only the contract of `struct mspack_system` is used.
  `system.h` is macros and declarations that are not used.

## 7. Plan

The modules planned are written and their safety properties proved.

Worth stating besides: an AKC file as a map from key to article, implemented by seek
table, cache and decoder together; a container as a map from name to bytes,
implemented by `LitContainer`.
