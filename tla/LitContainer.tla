------------------------------ MODULE LitContainer ------------------------------
(***************************************************************************)
(* Extraction of LIT/EIT containers (lit.py): the entries of the directory *)
(* in name order, sections decompressed on first use and kept, windows cut *)
(* out of a compressed section by its reset table, files written into one  *)
(* output directory, and the LZX backend chosen on first use.              *)
(*                                                                         *)
(* Content is measured in units, and a unit is its number in the section.  *)
(* A place in the compressed content is the number of the unit whose data  *)
(* begins there, so content[base:size] is the units from base to size - 1. *)
(* That the container itself can be read once it was opened is taken for   *)
(* granted.                                                                *)
(***************************************************************************)
EXTENDS Integers, Sequences, FiniteSets

CONSTANTS
  Window,       \* units in one LZX window
  Containers,   \* containers extracted one after the other to one directory
  Environments  \* what _lzx finds: the environment and the files there are

(* A section: its transforms, its length; the reset table, with an entry   *)
(* every so many units (step); the units between two resets of the         *)
(* compressor, which the code never asks for (reset); and the number,      *)
(* counted from 1, of a unit whose data is damaged (bad), or 0.            *)
Sections ==
  [transforms : Seq(STRING), length : Nat, step : Nat, entries : Nat,
   reset : Nat \ {0}, bad : Nat]

(* An entry of the directory; section 0 is stored, and slashes leads its   *)
(* name. The directory is a dict: a name is there once.                    *)
DirectoryEntries ==
  [name : [slashes : Nat, rest : STRING], section : Nat, offset : Nat, size : Nat,
   kind : {"internal", "file", "directory"}]

WellFormed ==
  {c \in [id : Nat, sections : Seq(Sections), files : Seq(DirectoryEntries)] :
     \A i, j \in DOMAIN c.files :
       /\ c.files[i].section \in 0..Len(c.sections)
       /\ i # j => c.files[i].name # c.files[j].name}

(* path is what `import lzx` finds in LZX_PATH, if that is set; built, that *)
(* native/build/lzx.so is there; loads, that the native module loads.      *)
ASSUME LitAssumption ==
  /\ Window \in Nat \ {0}
  /\ Containers \subseteq Seq(WellFormed)
  /\ Environments \subseteq
       [usePy : BOOLEAN, require : BOOLEAN, shim : BOOLEAN, built : BOOLEAN,
        path : {"unset", "native", "python", "nothing"}, loads : BOOLEAN]

VARIABLES
  env, todo,   \* todo: the containers still to extract, the current one first
  phase,       \* "opening" the current one, "extracting", or "aborted"
  backend,     \* _LZX_BACKEND, kept for the life of the process
  loaded,      \* section_data of the current container: what is not None
  at,          \* index of the current entry
  job,         \* the decompression under way; result: what it decoded so far
  disk,        \* the output directory: what each file holds
  outcome,     \* history: how each entry of the container ended
  counted      \* what extract_lit returned last

vars == <<env, todo, phase, backend, loaded, at, job, disk, outcome, counted>>

NoJob == [section |-> 0]
Files == todo[1].files
Section(s) == todo[1].sections[s]
Entry == Files[at]

(* section_data is of one EitFile. *)
FreshKept == loaded
Fresh == [s \in {} |-> <<>>]

(* The units from one on, and what need not be any of them.                *)
Units(first, len) == [i \in 1..len |-> first + i - 1]
Garbage == -1

Init ==
  /\ env \in Environments
  /\ todo \in Containers /\ todo # <<>>
  /\ phase = "opening" /\ backend = "none"
  /\ loaded = [s \in {} |-> <<>>] /\ at = 1 /\ job = NoJob
  /\ disk = [n \in {} |-> 0] /\ outcome = <<>> /\ counted = -1

-----------------------------------------------------------------------------
(* The constructor of EitFile may raise, and so may the creation of the    *)
(* directory: nothing catches that, and no later container is extracted.   *)
OpenContainer ==
  /\ todo # <<>> /\ phase = "opening"
  /\ phase' \in {"extracting", "aborted"}
  /\ UNCHANGED <<env, todo, backend, loaded, at, job, disk, outcome, counted>>

(* _lzx: the shim first, unless the environment asks for Python; then what *)
(* `import lzx` finds, which may raise.                                    *)
ShimUsable == env.shim /\ ~env.usePy
Imported ==
  IF env.path # "unset" THEN env.path ELSE IF env.built THEN "native" ELSE "python"
ImportFails == Imported = "nothing" \/ (Imported = "native" /\ ~env.loads)
NoBackend ==
  ~ShimUsable /\ ((~env.usePy /\ env.require) \/ ImportFails)
Chosen == IF backend # "none" THEN backend
          ELSE IF ShimUsable THEN "mspack" ELSE Imported

(* main: an exception in get_file is reported and the next entry follows.  *)
EndUnlessFailed(how) ==
  at' = (IF how = "failed" THEN at ELSE at + 1) /\ outcome' = outcome /\ job' = NoJob
End(how) == at' = at + 1 /\ outcome' = Append(outcome, how) /\ job' = NoJob

Current == todo # <<>> /\ phase = "extracting" /\ at <= Len(Files)

SkipInternal ==
  /\ Current /\ Entry.kind = "internal"
  /\ End("skipped")
  /\ UNCHANGED <<env, todo, phase, backend, loaded, disk, counted>>

(* data[offset:offset + size].                                             *)
Data(e) ==
  IF e.section = 0 THEN Units(e.offset, e.size)
  ELSE LET data == loaded[e.section] IN
       SubSeq(data, e.offset + 1,
              IF e.offset + e.size <= Len(data) THEN e.offset + e.size ELSE Len(data))

Ready == Current /\ Entry.kind # "internal" /\ job = NoJob
         /\ (Entry.section # 0 => Entry.section \in DOMAIN loaded)

(* name.lstrip('/'): entries whose names differ may be one file.           *)
Path(e) == e.name.rest

(* What is on disk once len units were written.                            *)
Holding(len) ==
  [n \in DOMAIN disk \cup {Path(Entry)} |->
     IF n = Path(Entry)
     THEN [from |-> todo[1].id, section |-> Entry.section, data |-> SubSeq(Data(Entry), 1, len)]
     ELSE disk[n]]

(* A directory is skipped, but only after its data was read. An OSError    *)
(* ends the extraction, before the file was opened or with part of it      *)
(* written.                                                                *)
WriteFile ==
  /\ Ready
  /\ \/ /\ Entry.kind = "directory"
        /\ End("skipped") /\ UNCHANGED <<phase, disk>>
     \/ /\ Entry.kind = "file"
        /\ disk' = Holding(Len(Data(Entry)))
        /\ End("written") /\ UNCHANGED phase
     \/ /\ Entry.kind = "file"
        /\ disk' \in {disk} \cup {Holding(len) : len \in 0..Len(Data(Entry))}
        /\ End("torn") /\ phase' = "aborted"
  /\ UNCHANGED <<env, todo, backend, loaded, counted>>

-----------------------------------------------------------------------------
(* get_section_uncached: one transform after the other.                    *)
NeedsSection == Current /\ Entry.kind # "internal" /\ Entry.section # 0
                /\ Entry.section \notin DOMAIN loaded

Transforms == Section(Entry.section).transforms

StartSection ==
  /\ NeedsSection /\ job = NoJob
  /\ job' = [section |-> Entry.section, done |-> 0, entry |-> 0, accum |-> 0,
             remaining |-> 0, base |-> 0, result |-> <<>>]
  /\ UNCHANGED <<env, todo, phase, backend, loaded, at, disk, outcome, counted>>

Decoding == Current /\ job # NoJob
Between == Decoding /\ job.entry = 0

(* decompress: entry 0 of the reset table is passed over.                  *)
StartLzx ==
  /\ Between /\ job.done < Len(Transforms) /\ Transforms[job.done + 1] = "lzx"
  /\ \/ /\ backend = "none" /\ NoBackend
        /\ End("failed") /\ UNCHANGED backend
     \/ /\ ~(backend = "none" /\ NoBackend)
        /\ backend' = Chosen
        /\ job' = [job EXCEPT !.entry = 1, !.accum = Section(job.section).step,
                              !.base = 0, !.result = <<>>,
                              !.remaining = Section(job.section).length]
        /\ UNCHANGED <<at, outcome>>
  /\ UNCHANGED <<env, todo, phase, loaded, disk, counted>>

RefuseTransform ==
  /\ Between /\ job.done < Len(Transforms) /\ Transforms[job.done + 1] # "lzx"
  /\ End("failed")
  /\ UNCHANGED <<env, todo, phase, backend, loaded, disk, counted>>

(* lzx.reset() and lzx.decompress(content[first:last], len) give the units *)
(* from first on if the compressor had reset there and not again before    *)
(* their end, and if their data is there and sound. For any other input    *)
(* they raise, or give something that need not be them.                    *)
Piece(first, last, len) == [first |-> first, last |-> last, len |-> len]
Framed(p, reset) == p.first % reset = 0 /\ p.len <= reset
Decodes(p) ==
  LET s == Section(job.section) IN
  /\ job.done = 0
  /\ Framed(p, s.reset)
  /\ p.first + p.len <= p.last /\ p.first + p.len <= s.length
  /\ s.bad \notin (p.first + 1)..(p.first + p.len)
Decompressed(p) ==
  IF Decodes(p) THEN Units(p.first, p.len) ELSE [i \in 1..p.len |-> Garbage]

CutLate == job.accum > Window
Cut == job.accum >= Window

(* The place of an entry of the reset table.                               *)
Offset(entry) == Section(job.section).step * entry

TableEntry ==
  /\ Decoding /\ job.entry \in 1..(Section(job.section).entries - 1)
  /\ LET piece == Piece(job.base, Offset(job.entry), Window)
         step == Section(job.section).step
         next == [job EXCEPT !.entry = @ + 1, !.accum = IF Cut THEN step ELSE @ + step]
     IN \/ /\ ~Cut \/ job.remaining < Window
           /\ job' = next
           /\ UNCHANGED <<at, outcome>>
        \/ /\ Cut /\ job.remaining >= Window
           /\ job' = [next EXCEPT !.remaining = @ - Window, !.base = Offset(job.entry),
                                  !.result = @ \o Decompressed(piece)]
           /\ UNCHANGED <<at, outcome>>
        \/ /\ Cut /\ job.remaining >= Window /\ ~Decodes(piece)
           /\ End("failed")
  /\ UNCHANGED <<env, todo, phase, backend, loaded, disk, counted>>

(* A rest that is shorter than a window; a longer one is left out.         *)
RestOverOne == job.remaining > 1 /\ job.remaining < Window
Rest == job.remaining > 0 /\ job.remaining < Window

TableEnd ==
  /\ Decoding /\ job.entry >= 1 /\ job.entry >= Section(job.section).entries
  /\ LET piece == Piece(job.base, Section(job.section).length, job.remaining)
         next == [job EXCEPT !.entry = 0, !.done = @ + 1]
     IN \/ /\ ~Rest
           /\ job' = next /\ UNCHANGED <<at, outcome>>
        \/ /\ Rest
           /\ job' = [next EXCEPT !.result = @ \o Decompressed(piece)]
           /\ UNCHANGED <<at, outcome>>
        \/ /\ Rest /\ ~Decodes(piece)
           /\ End("failed")
  /\ UNCHANGED <<env, todo, phase, backend, loaded, disk, counted>>

(* get_section: only a section that was decoded is kept.                   *)
KeepSection ==
  /\ Between /\ job.done = Len(Transforms)
  /\ loaded' = [s \in DOMAIN loaded \cup {job.section} |->
       IF s # job.section THEN loaded[s]
       ELSE IF Transforms = <<>> THEN Units(0, Section(job.section).length) ELSE job.result]
  /\ job' = NoJob
  /\ UNCHANGED <<env, todo, phase, backend, at, disk, outcome, counted>>

(* extract_lit counts what the output directory holds.                     *)
Finish ==
  /\ todo # <<>> /\ phase = "extracting" /\ at = Len(Files) + 1
  /\ counted' = Cardinality(DOMAIN disk)
  /\ todo' = Tail(todo) /\ phase' = "opening"
  /\ loaded' = Fresh
  /\ at' = 1 /\ outcome' = <<>> /\ job' = NoJob
  /\ UNCHANGED <<env, backend, disk>>

Next ==
  \/ OpenContainer
  \/ SkipInternal \/ WriteFile
  \/ StartSection \/ StartLzx \/ RefuseTransform
  \/ TableEntry \/ TableEnd \/ KeepSection
  \/ Finish

(* One thread extracts; it is never suspended for good.                    *)
Spec == Init /\ [][Next]_vars /\ WF_vars(Next)

-----------------------------------------------------------------------------
Outcomes == {"skipped", "written", "failed", "torn"}

TypeOK ==
  /\ backend \in {"none", "mspack", "native", "python"}
  /\ phase \in {"opening", "extracting", "aborted"}
  /\ todo # <<>> => /\ DOMAIN loaded \subseteq DOMAIN todo[1].sections
                    /\ \A s \in DOMAIN loaded : loaded[s] \in Seq(Int)
                    /\ at \in 1..(Len(Files) + 1) /\ outcome \in Seq(Outcomes)
                    /\ Len(outcome) = at - 1
  /\ counted \in {-1} \cup Nat

(* The compressor reset where a window begins, and nowhere else, and the   *)
(* reset table lists those places. Nothing in the code sees to this.       *)
WindowFramed(s) ==
  /\ Section(s).reset = Window
  /\ Section(s).step > 0 /\ Window % Section(s).step = 0

(* The reset table has the offset at which the last full window ends.      *)
TableReaches(s) ==
  \/ Section(s).length < Window
  \/ Section(s).step * Section(s).entries > Window * (Section(s).length \div Window)
InSection(e) == e.offset + e.size <= Section(e.section).length
Decodable(s) ==
  /\ Section(s).transforms \in {<<>>, <<"lzx">>}
  /\ Section(s).bad = 0
  /\ WindowFramed(s)

(* If the compressor reset at every window and the table lists it, windows *)
(* are cut there: a section that is sound and has a backend is decoded,    *)
(* and the failure of another entry, section or container before it does   *)
(* not make its files fail. (For files whose resets lie elsewhere nothing  *)
(* is claimed: src/README.md:71 names three that fail.)                    *)
SoundEntriesSucceed ==
  \A i \in 1..Len(outcome) :
    outcome[i] = "failed" =>
      Files[i].section # 0 /\ ~(Decodable(Files[i].section) /\ ~NoBackend)

(* A section that is kept is all of its units in order, the last piece     *)
(* included, if it can be decoded and its reset table reaches the end of   *)
(* the last full window.                                                   *)
SectionWhole ==
  todo # <<>> => \A s \in DOMAIN loaded :
    Decodable(s) /\ TableReaches(s) => loaded[s] = Units(0, Section(s).length)

(* What was written last to a file, and is reported as written, is there,  *)
(* all of it, and not the bytes of another section or container extracted  *)
(* to the same directory, or of an entry whose name is another one and     *)
(* whose file is the same.                                                 *)
Overwritten(i) ==
  \E j \in 1..Len(outcome) :
    j > i /\ outcome[j] \in {"written", "torn"} /\ Path(Files[j]) = Path(Files[i])
Whole(e) ==
  e.section = 0 \/ (Decodable(e.section) /\ TableReaches(e.section) /\ InSection(e))
WrittenIsOwn ==
  \A i \in 1..Len(outcome) :
    outcome[i] = "written" /\ ~Overwritten(i) =>
      LET e == Files[i] f == disk[Path(e)]
      IN /\ f.from = todo[1].id /\ f.section = e.section
         /\ Whole(e) => f.data = Units(e.offset, e.size)

(* Extraction ends: every container is worked through, whatever in it      *)
(* cannot be decoded, unless one cannot be opened or a file cannot be      *)
(* written, which ends it there.                                           *)
Terminates == <>(todo = <<>> \/ phase = "aborted")

(* README.md:63: "STRATA_USE_PY_LZX=1 forces the bundled pure-Python LZX   *)
(* (lzxbuild/lzx.py), overriding the native backend".                      *)
PythonWhenForced ==
  env.usePy /\ env.path = "unset" /\ backend # "none" => backend = "python"

=============================================================================
