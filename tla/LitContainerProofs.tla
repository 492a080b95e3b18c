-------------------------- MODULE LitContainerProofs ---------------------------
(* The extraction of containers, for every window size, every container    *)
(* and every environment: if the compressor reset at every window, windows *)
(* are cut there, what is kept is whole, and a file that was written and   *)
(* not written again is its own. Then the dump folder's manifest.          *)
EXTENDS LitContainer, Dumper, SequenceTheorems, TLAPS

Secs == todo[1].sections

LitTypes ==
  /\ todo \in Seq(WellFormed)
  /\ todo # <<>> => /\ DOMAIN loaded \subseteq 1..Len(Secs)
                    /\ at \in 1..(Len(Files) + 1)
                    /\ outcome \in Seq(Outcomes) /\ Len(outcome) = at - 1
  /\ todo = <<>> => outcome = <<>> /\ job = NoJob

JobTypes ==
  [section : Nat \ {0}, done : Nat, entry : Nat, accum : Nat, remaining : Nat,
   base : Nat, result : Seq(Int)]

(* The windows decoded so far lie one behind the other from the start, and *)
(* the count of units is taken up where the last of them ended, unless     *)
(* less than a window is left.                                             *)
Aligned(step, length) ==
  /\ job.accum \in 1..Window /\ \E a \in Nat : job.accum = step * a
  /\ \E k \in Nat : job.base = Window * k
  /\ job.base <= length
  /\ job.remaining = length - job.base
  /\ job.result = Units(0, job.base)
  /\ job.remaining >= Window => job.base + job.accum = step * job.entry

InTable == Aligned(Section(job.section).step, Section(job.section).length)

JobInv ==
  job # NoJob =>
    /\ todo # <<>> /\ at \in 1..Len(Files) /\ Entry.kind # "internal"
    /\ job \in JobTypes /\ job.section = Entry.section
    /\ job.done <= Len(Section(job.section).transforms)
    /\ job.entry > 0 => /\ job.done < Len(Section(job.section).transforms)
                        /\ Decodable(job.section) => InTable
    /\ job.entry = 0 /\ job.done > 0 /\ Decodable(job.section) /\ TableReaches(job.section) =>
         job.result = Units(0, Section(job.section).length)

WrittenIsThere ==
  \A i \in 1..Len(outcome) : outcome[i] = "written" => Path(Files[i]) \in DOMAIN disk

IInv ==
  /\ LitTypes /\ JobInv
  /\ SoundEntriesSucceed /\ SectionWhole /\ WrittenIsThere /\ WrittenIsOwn

-----------------------------------------------------------------------------
(* Units in a row.                                                         *)
LEMMA UnitsFacts ==
  ASSUME NEW first \in Int, NEW len \in Nat
  PROVE  /\ Units(first, len) \in Seq(Int) /\ Len(Units(first, len)) = len
         /\ \A i \in 1..len : Units(first, len)[i] = first + i - 1
<1>1. Units(first, len) \in [1..len -> Int]
  BY DEF Units
<1>2. QED  BY <1>1 DEF Units

LEMMA UnitsConcat ==
  ASSUME NEW m \in Nat, NEW n \in Nat
  PROVE  Units(0, m) \o Units(m, n) = Units(0, m + n)
<1>1. PICK s : s = Units(0, m)
  OBVIOUS
<1>2. PICK t : t = Units(m, n)
  OBVIOUS
<1>3. PICK u : u = Units(0, m + n)
  OBVIOUS
<1>4. s \in Seq(Int) /\ Len(s) = m /\ \A i \in 1..m : s[i] = 0 + i - 1
  <2>1. 0 \in Int
    OBVIOUS
  <2>2. QED  BY ONLY <1>1, <2>1, m \in Nat, UnitsFacts
<1>5. t \in Seq(Int) /\ Len(t) = n /\ \A i \in 1..n : t[i] = m + i - 1
  <2>1. m \in Int
    OBVIOUS
  <2>2. QED  BY ONLY <1>2, <2>1, n \in Nat, UnitsFacts
<1>6. u \in Seq(Int) /\ Len(u) = m + n /\ \A i \in 1..(m + n) : u[i] = 0 + i - 1
  <2>1. 0 \in Int /\ m + n \in Nat
    OBVIOUS
  <2>2. QED  BY ONLY <1>3, <2>1, UnitsFacts
<1>7. /\ s \o t \in Seq(Int) /\ Len(s \o t) = m + n
      /\ \A i \in 1..(m + n) : (s \o t)[i] = IF i <= m THEN s[i] ELSE t[i - m]
  BY <1>4, <1>5, ConcatProperties
<1>8. PICK w : w = s \o t
  OBVIOUS
<1>9. ASSUME NEW i \in 1..(m + n) PROVE w[i] = u[i]
  <2>1. CASE i <= m
    <3>1. i \in 1..m
      BY <2>1
    <3>2. QED  BY <1>4, <1>6, <1>7, <1>8, <2>1, <3>1
  <2>2. CASE ~(i <= m)
    <3>1. i - m \in 1..n /\ m + (i - m) - 1 = 0 + i - 1
      BY <2>2
    <3>2. w[i] = t[i - m]
      BY <1>7, <1>8, <2>2
    <3>3. QED  BY <1>5, <1>6, <3>1, <3>2
  <2>3. QED  BY <2>1, <2>2
<1>10. w = u
  BY <1>6, <1>7, <1>8, <1>9, SeqEqual
<1>11. QED  BY <1>1, <1>2, <1>3, <1>8, <1>10

LEMMA UnitsCut ==
  ASSUME NEW length \in Nat, NEW offset \in Nat, NEW size \in Nat, offset + size <= length
  PROVE  SubSeq(Units(0, length), offset + 1, offset + size) = Units(offset, size)
<1>1. PICK s : s = Units(0, length)
  OBVIOUS
<1>2. PICK t : t = Units(offset, size)
  OBVIOUS
<1>3. s \in Seq(Int) /\ Len(s) = length /\ \A i \in 1..length : s[i] = 0 + i - 1
  <2>1. 0 \in Int
    OBVIOUS
  <2>2. QED  BY ONLY <1>1, <2>1, length \in Nat, UnitsFacts
<1>4. t \in Seq(Int) /\ Len(t) = size /\ \A i \in 1..size : t[i] = offset + i - 1
  <2>1. offset \in Int
    OBVIOUS
  <2>2. QED  BY ONLY <1>2, <2>1, size \in Nat, UnitsFacts
<1>5. PICK a \in Nat : a = offset + 1
  OBVIOUS
<1>6. PICK b \in Nat : b = offset + size
  OBVIOUS
<1>7. ASSUME NEW i \in a..b PROVE s[i] \in Int
  <2>1. i \in 1..length /\ 0 + i - 1 \in Int
    BY <1>5, <1>6
  <2>2. QED  BY <1>3, <2>1
<1>8. PICK u : u = SubSeq(s, a, b)
  OBVIOUS
<1>9. /\ u \in Seq(Int) /\ Len(u) = (IF a <= b THEN b - a + 1 ELSE 0)
      /\ \A i \in 1..(b - a + 1) : u[i] = s[a + i - 1]
  BY <1>7, <1>8, SubSeqProperties
<1>10. Len(u) = size /\ b - a + 1 = size
  BY <1>5, <1>6, <1>9
<1>11. ASSUME NEW i \in 1..size PROVE u[i] = t[i]
  <2>1. a + i - 1 \in 1..length /\ 0 + (a + i - 1) - 1 = offset + i - 1
    BY <1>5
  <2>2. QED  BY <1>3, <1>4, <1>9, <1>10, <2>1
<1>12. u = t
  BY <1>4, <1>9, <1>10, <1>11, SeqEqual
<1>13. QED  BY <1>1, <1>2, <1>5, <1>6, <1>8, <1>12

LEMMA ContainerFacts ==
  ASSUME LitTypes, todo # <<>>
  PROVE  /\ Window \in Nat /\ Window > 0
         /\ Len(Secs) \in Nat /\ Len(Files) \in Nat
         /\ \A s \in 1..Len(Secs) :
              /\ Section(s) \in Sections
              /\ Section(s).length \in Nat /\ Section(s).entries \in Nat /\ Section(s).step \in Nat
              /\ Section(s).transforms \in Seq(STRING) /\ Len(Section(s).transforms) \in Nat
         /\ \A i \in 1..Len(Files) :
              /\ Files[i].section \in 0..Len(Secs)
              /\ Files[i].offset \in Nat /\ Files[i].size \in Nat
         /\ DOMAIN loaded \subseteq 1..Len(Secs)
         /\ at \in 1..(Len(Files) + 1) /\ outcome \in Seq(Outcomes) /\ Len(outcome) = at - 1
<1>1. todo[1] \in WellFormed
  <2>1. Len(todo) # 0
    BY EmptySeq DEF LitTypes
  <2>2. 1 \in 1..Len(todo)
    BY <2>1, LenProperties DEF LitTypes
  <2>3. QED  BY <2>2, ElementOfSeq DEF LitTypes
<1>2. /\ Secs \in Seq(Sections) /\ Files \in Seq(DirectoryEntries)
      /\ \A i \in DOMAIN Files : Files[i].section \in 0..Len(Secs)
  BY <1>1 DEF WellFormed, Secs, Files
<1>3. /\ Len(Secs) \in Nat /\ DOMAIN Secs = 1..Len(Secs)
      /\ Len(Files) \in Nat /\ DOMAIN Files = 1..Len(Files)
  BY <1>2, LenProperties
<1>4. ASSUME NEW s \in 1..Len(Secs)
      PROVE  /\ Section(s) \in Sections
             /\ Section(s).length \in Nat /\ Section(s).entries \in Nat /\ Section(s).step \in Nat
             /\ Section(s).transforms \in Seq(STRING) /\ Len(Section(s).transforms) \in Nat
  <2>1. Section(s) \in Sections
    BY <1>2, ElementOfSeq DEF Secs, Section
  <2>2. Section(s).transforms \in Seq(STRING)
    BY <2>1 DEF Sections
  <2>3. Len(Section(s).transforms) \in Nat
    BY <2>2, LenProperties
  <2>4. QED  BY <2>1, <2>2, <2>3 DEF Sections
<1>5. ASSUME NEW i \in 1..Len(Files) PROVE Files[i].offset \in Nat /\ Files[i].size \in Nat
  <2>1. Files[i] \in DirectoryEntries
    BY <1>2, ElementOfSeq
  <2>2. QED  BY <2>1 DEF DirectoryEntries
<1>6. /\ DOMAIN loaded \subseteq 1..Len(Secs)
      /\ at \in 1..(Len(Files) + 1) /\ outcome \in Seq(Outcomes) /\ Len(outcome) = at - 1
  BY DEF LitTypes
<1>7. Window \in Nat /\ Window > 0
  BY LitAssumption
<1>8. QED  BY <1>2, <1>3, <1>4, <1>5, <1>6, <1>7

LEMMA InitInv == Init => IInv
<1> SUFFICES ASSUME Init PROVE IInv
  OBVIOUS
<1>1. /\ todo \in Seq(WellFormed) /\ todo # <<>> /\ at = 1 /\ outcome = <<>> /\ job = NoJob
      /\ DOMAIN loaded = {}
  BY LitAssumption DEF Init
<1>2. Len(Files) \in Nat
  <2>1. todo[1] \in WellFormed
    <3>1. Len(todo) # 0
      BY <1>1, EmptySeq
    <3>2. 1 \in 1..Len(todo)
      BY <1>1, <3>1, LenProperties
    <3>3. QED  BY <1>1, <3>2, ElementOfSeq
  <2>2. Files \in Seq(DirectoryEntries)
    BY <2>1 DEF WellFormed, Files
  <2>3. QED  BY <2>2, LenProperties
<1>3. Len(outcome) = 0 /\ outcome \in Seq(Outcomes)
  BY <1>1, EmptySeq
<1>4. LitTypes
  BY <1>1, <1>2, <1>3 DEF LitTypes
<1>5. JobInv /\ SectionWhole
  BY <1>1 DEF JobInv, SectionWhole
<1>6. SoundEntriesSucceed /\ WrittenIsThere /\ WrittenIsOwn
  BY <1>3 DEF SoundEntriesSucceed, WrittenIsThere, WrittenIsOwn
<1>7. QED  BY <1>4, <1>5, <1>6 DEF IInv

-----------------------------------------------------------------------------
(* A step inside the decompression of a section.                           *)
LEMMA JobStepInv ==
  ASSUME IInv, UNCHANGED <<env, todo, loaded, at, outcome, disk>>, todo # <<>>, JobInv'
  PROVE  IInv'
<1>1. LitTypes'
  BY DEF IInv, LitTypes, Secs, Files
<1>2. SoundEntriesSucceed'
  BY DEF IInv, SoundEntriesSucceed, Files, Decodable, WindowFramed, Section, NoBackend,
     ShimUsable, ImportFails, Imported
<1>3. SectionWhole'
  BY DEF IInv, SectionWhole, TableReaches, Decodable, WindowFramed, Section
<1>4. WrittenIsOwn'
  BY DEF IInv, WrittenIsOwn, Overwritten, Whole, TableReaches, Decodable, WindowFramed,
     Section, Files, InSection
<1>5. WrittenIsThere'
  BY DEF IInv, WrittenIsThere, Files
<1>6. QED  BY <1>1, <1>2, <1>3, <1>4, <1>5 DEF IInv

(* An entry has ended: what the entries before it ended with stands, but   *)
(* for the file that this one wrote.                                       *)
Holds(f, e) ==
  /\ f.from = todo[1].id /\ f.section = e.section
  /\ Whole(e) => f.data = Units(e.offset, e.size)

Fails(s) == ~(Decodable(s) /\ ~NoBackend)

LEMMA EndInv ==
  ASSUME IInv, Current, NEW how \in Outcomes, End(how), UNCHANGED <<env, todo, loaded>>,
         how = "failed" => Entry.section # 0 /\ Fails(Entry.section),
         how = "written" => Path(Entry) \in DOMAIN disk' /\ Holds(disk'[Path(Entry)], Entry),
         DOMAIN disk \subseteq DOMAIN disk',
         \A n \in DOMAIN disk :
           how \notin {"written", "torn"} \/ n # Path(Entry) => disk'[n] = disk[n]
  PROVE  IInv'
<1>1. /\ LitTypes /\ todo # <<>> /\ todo' = todo /\ loaded' = loaded /\ env' = env
      /\ job' = NoJob /\ at' = at + 1 /\ outcome' = Append(outcome, how)
  BY DEF IInv, Current, End
<1>2. /\ Len(Files) \in Nat /\ at \in 1..Len(Files) /\ at \in Nat
      /\ outcome \in Seq(Outcomes) /\ Len(outcome) = at - 1
  BY <1>1, ContainerFacts DEF Current
<1>3. /\ outcome' \in Seq(Outcomes) /\ Len(outcome') = at
      /\ \A i \in 1..Len(outcome) : outcome'[i] = outcome[i]
      /\ outcome'[at] = how
  <2>1. /\ Append(outcome, how) \in Seq(Outcomes)
        /\ Len(Append(outcome, how)) = Len(outcome) + 1
        /\ \A i \in 1..Len(outcome) : Append(outcome, how)[i] = outcome[i]
        /\ Append(outcome, how)[Len(outcome) + 1] = how
    BY <1>2, AppendProperties
  <2>2. QED  BY <1>1, <1>2, <2>1
<1>4. Files' = Files /\ Entry = Files[at]
  BY <1>1 DEF Files, Entry
<1>5. LitTypes'
  <2>1. at' \in 1..(Len(Files') + 1)
    BY <1>1, <1>2, <1>4
  <2>2. Len(outcome') = at' - 1
    BY <1>1, <1>2, <1>3
  <2>3. QED  BY <1>1, <1>3, <2>1, <2>2 DEF LitTypes, Secs
<1>6. JobInv'
  BY <1>1 DEF JobInv, NoJob
<1>7. SectionWhole'
  BY <1>1 DEF IInv, SectionWhole, TableReaches, Decodable, WindowFramed, Section
<1>8. ASSUME NEW i \in 1..Len(outcome')
      PROVE  i = at \/ (i \in 1..Len(outcome) /\ i # at /\ i < at)
  BY <1>2, <1>3
<1>9. SoundEntriesSucceed'
  <2> SUFFICES ASSUME NEW i \in 1..Len(outcome'), outcome'[i] = "failed"
               PROVE  (Files[i].section # 0 /\ Fails(Files[i].section))'
    BY DEF SoundEntriesSucceed, Fails
  <2>1. Files[i].section # 0 /\ Fails(Files[i].section)
    <3>1. CASE i = at
      BY <3>1, <1>3, <1>4
    <3>2. CASE i \in 1..Len(outcome) /\ i # at
      BY <3>2, <1>3 DEF IInv, SoundEntriesSucceed, Fails
    <3>3. QED  BY <3>1, <3>2, <1>8
  <2>2. QED  BY <2>1, <1>1 DEF Files, Fails, Decodable, WindowFramed, Section, NoBackend,
             ShimUsable, ImportFails, Imported
<1>10. ASSUME NEW i \in 1..Len(outcome'), outcome'[i] = "written"
       PROVE  /\ Path(Files[i]) \in DOMAIN disk'
              /\ ~Overwritten(i)' => Holds(disk'[Path(Files[i])], Files[i])
  <2>1. CASE i = at
    BY <2>1, <1>3, <1>4, <1>10
  <2>2. CASE i \in 1..Len(outcome) /\ i # at /\ i < at
    <3>1. outcome[i] = "written" /\ Path(Files[i]) \in DOMAIN disk
      BY <2>2, <1>3, <1>10 DEF IInv, WrittenIsThere
    <3>2. ASSUME ~Overwritten(i)'
          PROVE  ~Overwritten(i) /\ (how \in {"written", "torn"} => Path(Files[i]) # Path(Entry))
      <4>1. \A j \in 1..Len(outcome') :
              ~(j > i /\ outcome'[j] \in {"written", "torn"} /\ Path(Files[j]) = Path(Files[i]))
        BY <1>4, <3>2 DEF Overwritten, Path
      <4>2. \A j \in 1..Len(outcome) : j \in 1..Len(outcome') /\ outcome'[j] = outcome[j]
        BY <1>2, <1>3
      <4>3. at \in 1..Len(outcome') /\ at > i
        BY <1>2, <1>3, <2>2
      <4>4. QED  BY <1>3, <1>4, <4>1, <4>2, <4>3 DEF Overwritten
    <3>3. ASSUME ~Overwritten(i)' PROVE Holds(disk'[Path(Files[i])], Files[i])
      <4>1. Holds(disk[Path(Files[i])], Files[i])
        BY <2>2, <3>1, <3>2, <3>3 DEF IInv, WrittenIsOwn, Holds
      <4>2. disk'[Path(Files[i])] = disk[Path(Files[i])]
        BY <3>1, <3>2, <3>3
      <4>3. QED  BY <4>1, <4>2
    <3>4. QED  BY <3>1, <3>3
  <2>3. QED  BY <2>1, <2>2, <1>8
<1>11. WrittenIsThere'
  BY <1>10, <1>4 DEF WrittenIsThere, Path
<1>12. WrittenIsOwn'
  <2> SUFFICES ASSUME NEW i \in 1..Len(outcome'), outcome'[i] = "written", ~Overwritten(i)'
               PROVE  Holds(disk[Path(Files[i])], Files[i])'
    BY DEF WrittenIsOwn, Holds
  <2>1. Holds(disk'[Path(Files[i])], Files[i])
    BY <1>10
  <2>2. QED  BY <2>1, <1>1 DEF Holds, Whole, Path, Files, TableReaches, Decodable, WindowFramed,
             InSection, Section
<1>13. QED  BY <1>5, <1>6, <1>7, <1>9, <1>11, <1>12 DEF IInv

-----------------------------------------------------------------------------
(* What is known of the decompression under way, and of a window's place.  *)
LEMMA JobFacts ==
  ASSUME IInv, job # NoJob
  PROVE  /\ todo # <<>> /\ at \in 1..Len(Files) /\ Entry.kind # "internal"
         /\ job \in JobTypes /\ job.section = Entry.section /\ job.section \in 1..Len(Secs)
         /\ job.done \in Nat /\ job.entry \in Nat /\ job.accum \in Nat
         /\ job.remaining \in Nat /\ job.base \in Nat /\ job.result \in Seq(Int)
         /\ Section(job.section).length \in Nat /\ Section(job.section).entries \in Nat
         /\ Section(job.section).step \in Nat
         /\ Transforms = Section(job.section).transforms
         /\ Transforms \in Seq(STRING) /\ Len(Transforms) \in Nat
         /\ job.done <= Len(Transforms)
<1>1. /\ todo # <<>> /\ at \in 1..Len(Files) /\ Entry.kind # "internal"
      /\ job \in JobTypes /\ job.section = Entry.section
      /\ job.done <= Len(Section(job.section).transforms)
  BY DEF IInv, JobInv
<1>2. /\ job.section \in Nat \ {0}
      /\ job.done \in Nat /\ job.entry \in Nat /\ job.accum \in Nat
      /\ job.remaining \in Nat /\ job.base \in Nat /\ job.result \in Seq(Int)
  BY <1>1 DEF JobTypes
<1>3. /\ Len(Secs) \in Nat /\ Entry.section \in 0..Len(Secs)
      /\ \A s \in 1..Len(Secs) :
           /\ Section(s).length \in Nat /\ Section(s).entries \in Nat /\ Section(s).step \in Nat
           /\ Section(s).transforms \in Seq(STRING) /\ Len(Section(s).transforms) \in Nat
  BY <1>1, ContainerFacts DEF IInv, Entry
<1>4. job.section \in 1..Len(Secs)
  BY <1>1, <1>2, <1>3
<1>5. Transforms = Section(job.section).transforms
  BY <1>1 DEF Transforms
<1>6. QED  BY <1>1, <1>2, <1>3, <1>4, <1>5

(* A section that can be decoded has one transform to go through.          *)
LEMMA FirstTransform ==
  ASSUME IInv, job # NoJob, job.done < Len(Transforms), Decodable(job.section)
  PROVE  job.done = 0 /\ Transforms = <<"lzx">>
<1>1. /\ Transforms = Section(job.section).transforms /\ job.done \in Nat
      /\ Transforms \in Seq(STRING) /\ Len(Transforms) \in Nat
  BY JobFacts
<1>2. Transforms \in {<<>>, <<"lzx">>}
  BY <1>1 DEF Decodable
<1>3. Transforms # <<>>
  BY <1>1, EmptySeq
<1>4. Transforms = <<"lzx">>
  BY <1>2, <1>3
<1>5. Len(Transforms) = 1
  BY <1>4
<1>6. job.done = 0
  BY ONLY <1>1, <1>5, job.done < Len(Transforms)
<1>7. QED  BY <1>4, <1>6

LEMMA WindowFacts ==
  ASSUME NEW k \in Nat, NEW base \in Nat, base = Window * k
  PROVE  base % Window = 0
<1>1. Window \in Nat /\ Window > 0
  BY LitAssumption
<1>2. QED  BY <1>1

(* A piece that begins where a window does and is all there decodes, if    *)
(* the section can be decoded at all.                                      *)
LEMMA PieceDecodes ==
  ASSUME NEW p, NEW k \in Nat, p.first \in Nat, p.first = Window * k,
         p.last \in Nat, p.len \in Nat, p.first + p.len <= p.last, p.len <= Window,
         p.first + p.len <= Section(job.section).length,
         job.done = 0, Decodable(job.section)
  PROVE  Decodes(p)
<1>1. Section(job.section).reset = Window /\ Section(job.section).bad = 0
  BY DEF Decodable, WindowFramed
<1>2. p.first % Window = 0
  BY WindowFacts
<1>3. 0 \notin (p.first + 1)..(p.first + p.len)
  OBVIOUS
<1>4. QED  BY <1>1, <1>2, <1>3 DEF Decodes, Framed

LEMMA DecompressedSeq ==
  ASSUME NEW p, p.first \in Nat, p.len \in Nat
  PROVE  Decompressed(p) \in Seq(Int)
<1>1. Units(p.first, p.len) \in Seq(Int)
  <2>1. p.first \in Int
    OBVIOUS
  <2>2. QED  BY ONLY <2>1, p.len \in Nat, UnitsFacts
<1>2. [i \in 1..p.len |-> Garbage] \in [1..p.len -> Int]
  BY DEF Garbage
<1>3. QED  BY <1>1, <1>2 DEF Decompressed

LEMMA OpenContainerInv == IInv /\ OpenContainer => IInv'
<1> SUFFICES ASSUME IInv, OpenContainer PROVE IInv'
  OBVIOUS
<1>1. UNCHANGED <<env, todo, loaded, at, outcome, disk, job>> /\ todo # <<>>
  BY DEF OpenContainer
<1>2. JobInv'
  BY <1>1 DEF IInv, JobInv, InTable, Aligned, Entry, Files, Section, TableReaches, Decodable,
     WindowFramed
<1>3. QED  BY <1>1, <1>2, JobStepInv

LEMMA SkipInternalInv == IInv /\ SkipInternal => IInv'
<1> SUFFICES ASSUME IInv, SkipInternal PROVE IInv'
  OBVIOUS
<1>1. /\ Current /\ End("skipped") /\ UNCHANGED <<env, todo, loaded>> /\ disk' = disk
      /\ "skipped" \in Outcomes
  BY DEF SkipInternal, Outcomes
<1>2. QED  BY <1>1, EndInv

(* The bytes of an entry whose section is whole are its own.               *)
LEMMA OwnData ==
  ASSUME IInv, Ready, Whole(Entry)
  PROVE  SubSeq(Data(Entry), 1, Len(Data(Entry))) = Units(Entry.offset, Entry.size)
<1>1. todo # <<>> /\ at \in 1..(Len(Files) + 1) /\ at <= Len(Files) /\ Len(Files) \in Nat
  BY ContainerFacts DEF IInv, Ready, Current
<1>2. /\ Entry.section \in 0..Len(Secs) /\ Len(Secs) \in Nat
      /\ \A s \in 1..Len(Secs) : Section(s).length \in Nat
  BY <1>1, ContainerFacts DEF IInv, Entry
<1> Entry.offset \in Nat /\ Entry.size \in Nat
  <2>1. at \in 1..Len(Files)
    BY <1>1
  <2>2. Files[at].offset \in Nat /\ Files[at].size \in Nat
    BY <1>1, <2>1, ContainerFacts DEF IInv
  <2>3. QED  BY <2>2 DEF Entry
<1>3. PICK o \in Nat : o = Entry.offset
  OBVIOUS
<1>4. PICK n \in Nat : n = Entry.size
  OBVIOUS
<1>5. Data(Entry) = Units(o, n)
  <2>1. CASE Entry.section = 0
    BY <1>3, <1>4, <2>1 DEF Data
  <2>2. CASE Entry.section # 0
    <3>1. Entry.section \in DOMAIN loaded /\ Entry.section \in 1..Len(Secs)
      BY <1>2, <2>2 DEF Ready
    <3>2. PICK length \in Nat : length = Section(Entry.section).length
      BY <1>2, <3>1
    <3>3. PICK data : data = loaded[Entry.section]
      OBVIOUS
    <3>4. data = Units(0, length)
      BY <1>1, <2>2, <3>1, <3>2, <3>3 DEF IInv, SectionWhole, Whole
    <3>5. Len(data) = length
      <4>1. 0 \in Int
        OBVIOUS
      <4>2. QED  BY ONLY <3>4, <4>1, length \in Nat, UnitsFacts
    <3>6. o + n <= length
      BY <1>3, <1>4, <2>2, <3>2 DEF Whole, InSection
    <3>7. Data(Entry) = SubSeq(data, o + 1, o + n)
      BY <1>3, <1>4, <2>2, <3>3, <3>5, <3>6 DEF Data
    <3>8. QED  BY ONLY <3>4, <3>6, <3>7, length \in Nat, o \in Nat, n \in Nat, UnitsCut
  <2>3. QED  BY <2>1, <2>2
<1>6. PICK u : u = Units(o, n)
  OBVIOUS
<1>7. u \in Seq(Int) /\ Len(u) = n /\ \A i \in 1..n : u[i] = o + i - 1
  <2>1. o \in Int
    OBVIOUS
  <2>2. QED  BY ONLY <1>6, <2>1, n \in Nat, UnitsFacts
<1>8. SubSeq(u, 1, n) = u
  <2>1. PICK v : v = SubSeq(u, 1, n)
    OBVIOUS
  <2>2. \A i \in 1..n : u[i] \in Int
    BY <1>7, ElementOfSeq
  <2>3. /\ v \in Seq(Int) /\ Len(v) = (IF 1 <= n THEN n - 1 + 1 ELSE 0)
        /\ \A i \in 1..(n - 1 + 1) : v[i] = u[1 + i - 1]
    BY <2>1, <2>2, SubSeqProperties
  <2>4. Len(v) = n /\ n - 1 + 1 = n
    BY <2>3
  <2>5. \A i \in 1..n : v[i] = u[i]
    BY <2>3, <2>4
  <2>6. QED  BY <1>7, <2>1, <2>3, <2>4, <2>5, SeqEqual
<1>9. QED  BY <1>3, <1>4, <1>5, <1>6, <1>7, <1>8

(* What a write leaves of the other files.                                 *)
LEMMA HoldingFacts ==
  ASSUME NEW len
  PROVE  /\ DOMAIN Holding(len) = DOMAIN disk \cup {Path(Entry)}
         /\ \A n \in DOMAIN disk : n # Path(Entry) => Holding(len)[n] = disk[n]
         /\ Holding(len)[Path(Entry)] = [from |-> todo[1].id, section |-> Entry.section,
                                         data |-> SubSeq(Data(Entry), 1, len)]
BY DEF Holding

LEMMA WriteFileInv == IInv /\ WriteFile => IInv'
<1> SUFFICES ASSUME IInv, WriteFile PROVE IInv'
  OBVIOUS
<1>1. Current /\ Ready /\ UNCHANGED <<env, todo, loaded>>
  BY DEF WriteFile, Ready
<1>2. CASE End("skipped") /\ UNCHANGED disk
  <2>1. "skipped" \in Outcomes
    BY DEF Outcomes
  <2>2. QED  BY <1>1, <1>2, <2>1, EndInv
<1>3. CASE disk' = Holding(Len(Data(Entry))) /\ End("written")
  <2>1. "written" \in Outcomes
    BY DEF Outcomes
  <2>2. /\ DOMAIN disk \subseteq DOMAIN disk' /\ Path(Entry) \in DOMAIN disk'
        /\ \A n \in DOMAIN disk : n # Path(Entry) => disk'[n] = disk[n]
        /\ disk'[Path(Entry)] = [from |-> todo[1].id, section |-> Entry.section,
                                 data |-> SubSeq(Data(Entry), 1, Len(Data(Entry)))]
    BY <1>3, HoldingFacts
  <2>3. Holds(disk'[Path(Entry)], Entry)
    BY <1>1, <2>2, OwnData DEF Holds
  <2>4. End("written")
    BY <1>3
  <2>5. QED  BY <1>1, <2>1, <2>2, <2>3, <2>4, EndInv
<1>4. CASE /\ disk' \in {disk} \cup {Holding(len) : len \in 0..Len(Data(Entry))}
           /\ End("torn")
  <2>1. "torn" \in Outcomes
    BY DEF Outcomes
  <2>2. DOMAIN disk \subseteq DOMAIN disk' /\ \A n \in DOMAIN disk : n # Path(Entry) => disk'[n] = disk[n]
    <3>1. CASE disk' = disk
      BY <3>1
    <3>2. CASE \E len \in 0..Len(Data(Entry)) : disk' = Holding(len)
      BY <3>2, HoldingFacts
    <3>3. QED  BY <1>4, <3>1, <3>2
  <2>3. End("torn")
    BY <1>4
  <2>4. QED  BY <1>1, <2>1, <2>2, <2>3, EndInv
<1>5. QED  BY <1>2, <1>3, <1>4 DEF WriteFile

LEMMA StartSectionInv == IInv /\ StartSection => IInv'
<1> SUFFICES ASSUME IInv, StartSection PROVE IInv'
  OBVIOUS
<1>1. /\ todo # <<>> /\ at <= Len(Files) /\ Entry.kind # "internal" /\ Entry.section # 0
      /\ job' = [section |-> Entry.section, done |-> 0, entry |-> 0, accum |-> 0,
                 remaining |-> 0, base |-> 0, result |-> <<>>]
      /\ UNCHANGED <<env, todo, loaded, at, outcome, disk>>
  BY DEF StartSection, NeedsSection, Current
<1>2. at \in 1..Len(Files)
  BY <1>1, ContainerFacts DEF IInv
<1>3. /\ Entry.section \in 1..Len(Secs) /\ Entry.section \in Nat \ {0}
      /\ Len(Section(Entry.section).transforms) \in Nat
  <2>1. Len(Secs) \in Nat /\ Entry.section \in 0..Len(Secs)
    BY <1>1, <1>2, ContainerFacts DEF IInv, Entry
  <2>2. Entry.section \in 1..Len(Secs) /\ Entry.section \in Nat \ {0}
    BY <1>1, <2>1
  <2>3. QED  BY <1>1, <2>2, ContainerFacts DEF IInv
<1>4. job' \in JobTypes /\ job'.section = Entry.section /\ job'.done = 0 /\ job'.entry = 0
  <2>1. <<>> \in Seq(Int)
    BY EmptySeq
  <2>2. QED  BY <1>1, <1>3, <2>1 DEF JobTypes
<1>5. JobInv'
  BY <1>1, <1>2, <1>3, <1>4 DEF JobInv, Files, Entry, Section
<1>6. QED  BY <1>1, <1>5, JobStepInv

(* A transform is not the one that is decoded, no backend may be used, or  *)
(* a piece can not be decoded.                                             *)
LEMMA FailedInv ==
  ASSUME IInv, job # NoJob, Current, End("failed"), Fails(job.section),
         UNCHANGED <<env, todo, loaded, disk>>
  PROVE  IInv'
<1>1. /\ todo # <<>> /\ at \in 1..Len(Files) /\ job.section = Entry.section
      /\ job.section \in 1..Len(Secs)
  BY JobFacts
<1>2. Entry.section # 0 /\ Fails(Entry.section)
  <2>1. Len(Secs) \in Nat
    BY <1>1, ContainerFacts DEF IInv
  <2>2. QED  BY <1>1, <2>1
<1>3. "failed" \in Outcomes
  BY DEF Outcomes
<1>4. QED  BY <1>2, <1>3, EndInv

LEMMA StartLzxInv == IInv /\ StartLzx => IInv'
<1> SUFFICES ASSUME IInv, StartLzx PROVE IInv'
  OBVIOUS
<1>1. /\ job # NoJob /\ job.entry = 0 /\ job.done < Len(Transforms) /\ Current
      /\ UNCHANGED <<env, todo, loaded, disk>>
  BY DEF StartLzx, Between, Decoding
<1>2. CASE NoBackend /\ End("failed")
  <2>1. Fails(job.section)
    BY <1>2 DEF Fails
  <2>2. QED  BY <1>1, <1>2, <2>1, FailedInv
<1>3. CASE /\ job' = [job EXCEPT !.entry = 1, !.accum = Section(job.section).step,
                                 !.base = 0, !.result = <<>>,
                                 !.remaining = Section(job.section).length]
           /\ UNCHANGED <<at, outcome>>
  <2>1. /\ todo # <<>> /\ at \in 1..Len(Files) /\ Entry.kind # "internal"
        /\ job \in JobTypes /\ job.section = Entry.section
        /\ Section(job.section).length \in Nat /\ Section(job.section).step \in Nat
        /\ job.done < Len(Section(job.section).transforms)
        /\ job.done <= Len(Section(job.section).transforms)
    BY <1>1, JobFacts
  <2>2. job' = [section |-> job.section, done |-> job.done, entry |-> 1,
                accum |-> Section(job.section).step,
                remaining |-> Section(job.section).length, base |-> 0, result |-> <<>>]
    BY <1>3, <2>1 DEF JobTypes
  <2>3. job.section \in Nat \ {0} /\ job.done \in Nat /\ 1 \in Nat /\ 0 \in Nat /\ <<>> \in Seq(Int)
    BY <2>1, EmptySeq DEF JobTypes
  <2>4. /\ job' \in JobTypes /\ job'.section = job.section /\ job'.done = job.done
        /\ job'.entry = 1 /\ job'.accum = Section(job.section).step
        /\ job'.base = 0 /\ job'.result = <<>>
        /\ job'.remaining = Section(job.section).length
    BY ONLY <2>1, <2>2, <2>3 DEF JobTypes
  <2>5. \A s : Section(s)' = Section(s)
    BY <1>1 DEF Section
  <2>6. \A s : Decodable(s)' = Decodable(s)
    BY <2>5 DEF Decodable, WindowFramed
  <2>7. ASSUME Decodable(job.section) PROVE InTable'
    <3>1. Window \in Nat /\ Window > 0 /\ 0 = Window * 0
      BY LitAssumption
    <3>2. PICK step \in Nat : step = Section(job.section).step
      BY <2>1
    <3>3. step > 0 /\ Window % step = 0
      BY <2>7, <3>2 DEF Decodable, WindowFramed
    <3>4. step \in 1..Window /\ step = step * 1 /\ 0 + step = step * 1
      BY ONLY <3>1, <3>3, step \in Nat
    <3>5. <<>> = Units(0, 0)
      BY DEF Units
    <3>6. PICK length \in Nat : length = Section(job.section).length
      BY <2>1
    <3>7. length = length - 0 /\ 0 <= length
      OBVIOUS
    <3>8. Aligned(step, length)'
      BY <2>4, <3>1, <3>2, <3>4, <3>5, <3>6, <3>7 DEF Aligned
    <3>9. QED  BY <2>4, <2>5, <3>2, <3>6, <3>8 DEF InTable
  <2>8. JobInv'
    BY <1>1, <1>3, <2>1, <2>4, <2>5, <2>6, <2>7 DEF JobInv, Files, Entry
  <2>9. QED  BY <1>1, <1>3, <2>1, <2>8, JobStepInv
<1>4. QED  BY <1>2, <1>3 DEF StartLzx

LEMMA RefuseTransformInv == IInv /\ RefuseTransform => IInv'
<1> SUFFICES ASSUME IInv, RefuseTransform PROVE IInv'
  OBVIOUS
<1>1. /\ job # NoJob /\ job.done < Len(Transforms) /\ Transforms[job.done + 1] # "lzx"
      /\ Current /\ End("failed") /\ UNCHANGED <<env, todo, loaded, disk>>
  BY DEF RefuseTransform, Between, Decoding
<1>2. ~Decodable(job.section)
  <2>1. SUFFICES ASSUME Decodable(job.section) PROVE FALSE
    OBVIOUS
  <2>2. job.done = 0 /\ Transforms = <<"lzx">>
    BY <1>1, <2>1, FirstTransform
  <2>3. QED  BY <1>1, <2>2
<1>3. QED  BY <1>1, <1>2, FailedInv DEF Fails

(* The windows cut so far, told of a job that is a record of its own.      *)
AlignedAt(j, step, length) ==
  /\ j.accum \in 1..Window /\ \E a \in Nat : j.accum = step * a
  /\ \E k \in Nat : j.base = Window * k
  /\ j.base <= length
  /\ j.remaining = length - j.base
  /\ j.result = Units(0, j.base)
  /\ j.remaining >= Window => j.base + j.accum = step * j.entry

(* A step inside the reset table keeps what is known of the job.           *)
LEMMA InTableStep ==
  ASSUME IInv, job # NoJob, job.entry > 0,
         NEW next \in JobTypes, job' = next, next.section = job.section, next.done = job.done,
         next.entry = job.entry + 1,
         Decodable(job.section) =>
           AlignedAt(next, Section(job.section).step, Section(job.section).length),
         UNCHANGED <<env, todo, loaded, at, outcome, disk>>
  PROVE  IInv'
<1>1. /\ todo # <<>> /\ at \in 1..Len(Files) /\ Entry.kind # "internal"
      /\ job.section = Entry.section /\ job.entry \in Nat
      /\ job.done <= Len(Section(job.section).transforms)
  BY JobFacts
<1>2. job.done < Len(Section(job.section).transforms)
  BY DEF IInv, JobInv
<1>3. job'.entry > 0 /\ job'.entry # 0
  BY <1>1
<1>4. \A s : Section(s)' = Section(s)
  BY DEF Section
<1>5. \A s : Decodable(s)' = Decodable(s)
  BY <1>4 DEF Decodable, WindowFramed
<1>6. Decodable(job.section) => InTable'
  BY <1>4 DEF InTable, Aligned, AlignedAt
<1>7. JobInv'
  BY <1>1, <1>2, <1>3, <1>4, <1>5, <1>6 DEF JobInv, Files, Entry
<1>8. QED  BY <1>1, <1>7, JobStepInv

(* A count of units below a window, at a step that divides the window,     *)
(* leaves room for one more step.                                          *)
LEMMA StepFits ==
  ASSUME NEW step \in Nat, step > 0, Window % step = 0,
         NEW accum \in 1..Window, NEW a \in Nat, accum = step * a, accum < Window
  PROVE  accum + step \in 1..Window /\ accum + step = step * (a + 1)
<1>1. Window \in Nat /\ Window > 0
  BY LitAssumption
<1>2. PICK q \in Nat : Window = step * q
  <2>1. Window \div step \in Nat /\ Window = step * (Window \div step) + (Window % step)
    BY <1>1
  <2>2. QED  BY <1>1, <2>1
<1>3. a + 1 \in Nat /\ step * (a + 1) = step * a + step
  OBVIOUS
<1>4. a + 1 <= q
  <2>1. SUFFICES ASSUME q <= a PROVE FALSE
    BY <1>2
  <2>2. step * q <= step * a
    BY <1>2, <2>1
  <2>3. QED  BY <1>1, <1>2, <2>2
<1>5. step * (a + 1) <= step * q
  BY <1>2, <1>3, <1>4
<1>6. QED  BY <1>1, <1>2, <1>3, <1>5

LEMMA StepIsPositive ==
  ASSUME NEW step \in Nat, step > 0, Window % step = 0
  PROVE  step \in 1..Window
<1>1. Window \in Nat /\ Window > 0
  BY LitAssumption
<1>2. QED  BY <1>1

LEMMA TableEntryInv == IInv /\ TableEntry => IInv'
<1> SUFFICES ASSUME IInv, TableEntry PROVE IInv'
  OBVIOUS
<1>1. /\ job # NoJob /\ job.entry \in 1..(Section(job.section).entries - 1) /\ Current
      /\ UNCHANGED <<env, todo, loaded, disk>>
  BY DEF TableEntry, Decoding
<1>2. /\ job.section \in Nat \ {0} /\ job.done \in Nat
      /\ job.entry \in Nat /\ job.accum \in Nat /\ job.remaining \in Nat
      /\ job.base \in Nat /\ job.result \in Seq(Int)
      /\ Section(job.section).length \in Nat /\ Section(job.section).entries \in Nat
      /\ Section(job.section).step \in Nat
      /\ job \in JobTypes
  BY <1>1, JobFacts DEF JobTypes
<1>3. Window \in Nat /\ Window > 0
  BY LitAssumption
<1>4. PICK step \in Nat : step = Section(job.section).step
  BY <1>2
<1>5. PICK length \in Nat : length = Section(job.section).length
  BY <1>2
<1>6. job.entry > 0
  BY <1>1, <1>2
<1>7. job.done < Len(Transforms)
  BY <1>1, <1>6, JobFacts DEF IInv, JobInv
<1>8. ASSUME Decodable(job.section)
      PROVE  /\ job.done = 0 /\ step > 0 /\ Window % step = 0
             /\ Aligned(step, length)
  <2>1. InTable
    BY <1>1, <1>6, <1>8 DEF IInv, JobInv
  <2>2. QED  BY <1>1, <1>4, <1>5, <1>7, <1>8, <2>1, FirstTransform DEF Decodable, WindowFramed, InTable
<1>9. Offset(job.entry) = step * job.entry /\ step * job.entry \in Nat
  BY <1>2, <1>4 DEF Offset
<1>10. CASE /\ ~Cut \/ job.remaining < Window
            /\ job' = [job EXCEPT !.entry = @ + 1, !.accum = IF Cut THEN step ELSE @ + step]
            /\ UNCHANGED <<at, outcome>>
  <2>1. PICK accum \in Nat : accum = (IF Cut THEN step ELSE job.accum + step)
    BY <1>2
  <2>2. PICK next : next = [section |-> job.section, done |-> job.done, entry |-> job.entry + 1,
                accum |-> accum, remaining |-> job.remaining, base |-> job.base, result |-> job.result]
    OBVIOUS
  <2>3. job' = next
    <3>1. CASE Cut
      <4>1. job' = [job EXCEPT !.entry = @ + 1, !.accum = step]
        BY <1>10, <3>1
      <4>2. accum = step
        BY <2>1, <3>1
      <4>3. job \in JobTypes
        BY <1>2
      <4>4. job' = [section |-> job.section, done |-> job.done, entry |-> job.entry + 1,
                     accum |-> step, remaining |-> job.remaining, base |-> job.base,
                     result |-> job.result]
        BY ONLY <4>1, <4>3 DEF JobTypes
      <4>5. QED  BY ONLY <2>2, <4>2, <4>4
    <3>2. CASE ~Cut
      <4>1. job' = [job EXCEPT !.entry = @ + 1, !.accum = @ + step]
        BY <1>10, <3>2
      <4>2. accum = job.accum + step
        BY <2>1, <3>2
      <4>3. job \in JobTypes
        BY <1>2
      <4>4. job' = [section |-> job.section, done |-> job.done, entry |-> job.entry + 1,
                     accum |-> job.accum + step, remaining |-> job.remaining, base |-> job.base,
                     result |-> job.result]
        BY ONLY <4>1, <4>3 DEF JobTypes
      <4>5. QED  BY ONLY <2>2, <4>2, <4>4
    <3>3. QED  BY <3>1, <3>2
  <2>4. job.entry + 1 \in Nat
    BY <1>2
  <2>5. /\ next \in JobTypes /\ next.section = job.section /\ next.done = job.done
        /\ next.entry = job.entry + 1 /\ next.accum = accum
        /\ next.remaining = job.remaining /\ next.base = job.base /\ next.result = job.result
    BY ONLY <1>2, <2>1, <2>2, <2>4 DEF JobTypes
  <2>6. ASSUME Decodable(job.section) PROVE AlignedAt(next, step, length)
    <3>1. /\ step > 0 /\ Window % step = 0
          /\ job.accum \in 1..Window
          /\ (\E a \in Nat : job.accum = step * a)
          /\ (\E k \in Nat : job.base = Window * k)
          /\ job.base <= length
          /\ job.remaining = length - job.base
          /\ job.result = Units(0, job.base)
          /\ (job.remaining >= Window => job.base + job.accum = step * job.entry)
      BY <1>8, <2>6 DEF Aligned
    <3>2. /\ accum \in 1..Window /\ \E a \in Nat : accum = step * a
          /\ job.remaining >= Window => job.base + accum = step * (job.entry + 1)
      <4>1. CASE Cut
        <5>1. accum = step /\ step \in 1..Window /\ step = step * 1
          BY <2>1, <3>1, <4>1, StepIsPositive
        <5>2. ~(job.remaining >= Window)
          BY <1>2, <1>3, <1>10, <4>1
        <5>3. QED  BY <5>1, <5>2
      <4>2. CASE ~Cut
        <5>1. PICK a \in Nat : job.accum = step * a
          BY <3>1
        <5>2. accum = job.accum + step /\ job.accum < Window
          BY <1>2, <1>3, <2>1, <4>2 DEF Cut
        <5>3. accum \in 1..Window /\ accum = step * (a + 1)
          BY ONLY <3>1, <5>1, <5>2, step \in Nat, StepFits
        <5>4. step * (job.entry + 1) = step * job.entry + step
          BY <1>2
        <5>5. job.remaining >= Window => job.base + accum = step * (job.entry + 1)
          BY <1>2, <1>9, <3>1, <5>2, <5>4
        <5>6. a + 1 \in Nat
          OBVIOUS
        <5>7. QED  BY <5>3, <5>5, <5>6
      <4>3. QED  BY <4>1, <4>2
    <3>3. QED  BY ONLY <2>5, <3>1, <3>2 DEF AlignedAt
  <2>7. QED  BY <1>1, <1>4, <1>5, <1>6, <1>10, <2>3, <2>5, <2>6, InTableStep
<1> DEFINE piece == Piece(job.base, Offset(job.entry), Window)
<1>11. piece.first = job.base /\ piece.last = step * job.entry /\ piece.len = Window
  BY <1>9 DEF Piece
<1> HIDE DEF piece
(* A full window that can be decoded is where the next one begins.         *)
<1>12. ASSUME Decodable(job.section), Cut, job.remaining >= Window
       PROVE  /\ job.base + Window = step * job.entry /\ step * job.entry <= length
              /\ (\E k \in Nat : job.base = Window * k)
              /\ job.remaining = length - job.base
              /\ job.result = Units(0, job.base)
              /\ Decodes(piece)
  <2>1. /\ job.done = 0 /\ job.accum \in 1..Window
        /\ (\E k \in Nat : job.base = Window * k)
        /\ job.remaining = length - job.base
        /\ job.result = Units(0, job.base)
        /\ job.base + job.accum = step * job.entry
    BY <1>8, <1>12 DEF Aligned
  <2>2. job.accum = Window
    BY <1>2, <1>3, <1>12, <2>1 DEF Cut
  <2>3. job.base + Window = step * job.entry /\ step * job.entry <= length
    BY <1>2, <1>3, <1>9, <1>12, <2>1, <2>2
  <2>4. PICK k \in Nat : job.base = Window * k
    BY <2>1
  <2>5. /\ piece.first \in Nat /\ piece.first = Window * k
        /\ piece.last \in Nat /\ piece.len \in Nat
        /\ piece.first + piece.len <= piece.last /\ piece.len <= Window
        /\ piece.first + piece.len <= length
    BY <1>2, <1>3, <1>9, <1>11, <2>3, <2>4
  <2>6. piece.first + piece.len <= Section(job.section).length
    BY <1>5, <2>5
  <2>7. job.done = 0 /\ Decodable(job.section)
    BY <1>12, <2>1
  <2>8. Decodes(piece)
    BY ONLY <2>5, <2>6, <2>7, k \in Nat, PieceDecodes
  <2>9. QED  BY <2>1, <2>3, <2>8
<1>13. CASE /\ Cut /\ job.remaining >= Window
            /\ job' = [[job EXCEPT !.entry = @ + 1, !.accum = IF Cut THEN step ELSE @ + step]
                         EXCEPT !.remaining = @ - Window, !.base = Offset(job.entry),
                                !.result = @ \o Decompressed(piece)]
            /\ UNCHANGED <<at, outcome>>
  <2>1. PICK result : result = job.result \o Decompressed(piece)
    OBVIOUS
  <2>2. PICK next : next = [section |-> job.section, done |-> job.done, entry |-> job.entry + 1,
                accum |-> step, remaining |-> job.remaining - Window, base |-> step * job.entry,
                result |-> result]
    OBVIOUS
  <2>3. job' = next
    <3>1. job' = [[job EXCEPT !.entry = @ + 1, !.accum = step]
                    EXCEPT !.remaining = @ - Window, !.base = Offset(job.entry),
                           !.result = @ \o Decompressed(piece)]
      BY <1>13
    <3>2. PICK new : new = [job EXCEPT !.entry = @ + 1, !.accum = step]
      OBVIOUS
    <3>3. new = [section |-> job.section, done |-> job.done, entry |-> job.entry + 1,
                 accum |-> step, remaining |-> job.remaining, base |-> job.base,
                 result |-> job.result]
      <4>1. job \in JobTypes
        BY <1>2
      <4>2. QED  BY ONLY <3>2, <4>1 DEF JobTypes
    <3>4. job' = [new EXCEPT !.remaining = @ - Window, !.base = Offset(job.entry),
                             !.result = @ \o Decompressed(piece)]
      BY ONLY <3>1, <3>2
    <3>5. job' = [section |-> job.section, done |-> job.done, entry |-> job.entry + 1,
                  accum |-> step, remaining |-> job.remaining - Window,
                  base |-> Offset(job.entry), result |-> job.result \o Decompressed(piece)]
      BY ONLY <3>3, <3>4
    <3>6. Offset(job.entry) = step * job.entry
      BY <1>9
    <3>7. QED  BY ONLY <2>1, <2>2, <3>5, <3>6
  <2>4. job.entry + 1 \in Nat /\ job.remaining - Window \in Nat
    BY <1>2, <1>3, <1>13
  <2>5. result \in Seq(Int)
    <3>1. piece.first \in Nat /\ piece.len \in Nat
      BY <1>2, <1>3, <1>11
    <3>2. Decompressed(piece) \in Seq(Int)
      BY ONLY <3>1, DecompressedSeq
    <3>3. QED  BY <1>2, <2>1, <3>2, ConcatProperties
  <2>6. /\ next \in JobTypes /\ next.section = job.section /\ next.done = job.done
        /\ next.entry = job.entry + 1 /\ next.accum = step
        /\ next.remaining = job.remaining - Window /\ next.base = step * job.entry
        /\ next.result = result
    BY ONLY <1>2, <1>9, <2>2, <2>4, <2>5, step \in Nat DEF JobTypes
  <2>7. ASSUME Decodable(job.section) PROVE AlignedAt(next, step, length)
    <3>1. /\ job.base + Window = step * job.entry /\ step * job.entry <= length
          /\ (\E k \in Nat : job.base = Window * k)
          /\ job.remaining = length - job.base
          /\ job.result = Units(0, job.base)
          /\ Decodes(piece)
      BY <1>12, <1>13, <2>7
    <3>2. step \in 1..Window
      BY <1>8, <2>7, StepIsPositive
    <3>3. PICK k \in Nat : job.base = Window * k
      BY <3>1
    <3>4. k + 1 \in Nat /\ step * job.entry = Window * (k + 1)
      BY <1>3, <3>1, <3>3
    <3>5. Decompressed(piece) = Units(job.base, Window)
      BY <1>11, <3>1 DEF Decompressed
    <3>6. Units(0, job.base) \o Units(job.base, Window) = Units(0, job.base + Window)
      BY ONLY <1>2, <1>3, UnitsConcat
    <3>7. result = Units(0, step * job.entry)
      BY ONLY <2>1, <3>1, <3>5, <3>6
    <3>8. job.remaining - Window = length - step * job.entry
      BY <1>2, <1>3, <1>9, <3>1
    <3>9. step = step * 1 /\ step * job.entry + step = step * (job.entry + 1)
      BY <1>2
    <3>10. /\ \E a \in Nat : step = step * a
           /\ \E j \in Nat : step * job.entry = Window * j
      BY <3>4, <3>9
    <3>11. QED  BY ONLY <2>6, <3>1, <3>2, <3>7, <3>8, <3>9, <3>10 DEF AlignedAt
  <2>8. QED  BY <1>1, <1>4, <1>5, <1>6, <1>13, <2>3, <2>6, <2>7, InTableStep
<1>14. CASE Cut /\ job.remaining >= Window /\ ~Decodes(piece) /\ End("failed")
  <2>1. ~Decodable(job.section)
    BY <1>12, <1>14
  <2>2. QED  BY <1>1, <1>14, <2>1, FailedInv DEF Fails
<1>15. QED  BY <1>4, <1>10, <1>13, <1>14 DEF TableEntry, piece

LEMMA TimesMonotonic ==
  ASSUME NEW g \in Nat \ {0}, NEW x \in Nat, NEW y \in Nat
  PROVE  x <= y <=> g * x <= g * y
OBVIOUS

(* A rest of a window or more is left only by a table that ends early.     *)
LEMMA RestIsShort ==
  ASSUME NEW k \in Nat, NEW length \in Nat, NEW base \in Nat, NEW last \in Nat,
         NEW accum \in 1..Window, NEW reach \in Nat,
         base = Window * k, base + accum = last, last >= reach,
         reach > Window * (length \div Window)
  PROVE  length - base < Window
<1>1. Window \in Nat \ {0}
  BY LitAssumption
<1>2. PICK q : q = length \div Window
  OBVIOUS
<1>3. /\ q \in Nat /\ length < Window * q + Window
  BY <1>1, <1>2
<1>4. Window * q \in Nat /\ Window * (k + 1) \in Nat /\ Window * (k + 1) = base + Window
  BY <1>1, <1>3
<1>5. Window * q < Window * (k + 1)
  BY <1>1, <1>2, <1>4
<1>6. ~(k + 1 <= q)
  BY <1>1, <1>3, <1>4, <1>5, TimesMonotonic
<1>7. q <= k
  BY <1>3, <1>6
<1>8. Window * q <= base
  BY <1>1, <1>3, <1>7, TimesMonotonic
<1>9. QED  BY <1>1, <1>3, <1>4, <1>8

LEMMA TableEndInv == IInv /\ TableEnd => IInv'
<1> SUFFICES ASSUME IInv, TableEnd PROVE IInv'
  OBVIOUS
<1>1. /\ job # NoJob /\ job.entry >= 1 /\ job.entry >= Section(job.section).entries /\ Current
      /\ UNCHANGED <<env, todo, loaded, disk>>
  BY DEF TableEnd, Decoding
<1>2. /\ todo # <<>> /\ at \in 1..Len(Files) /\ Entry.kind # "internal"
      /\ job \in JobTypes /\ job.section = Entry.section
      /\ job.section \in Nat \ {0} /\ job.done \in Nat
      /\ job.entry \in Nat /\ job.accum \in Nat /\ job.remaining \in Nat
      /\ job.base \in Nat /\ job.result \in Seq(Int)
      /\ Section(job.section).length \in Nat /\ Section(job.section).entries \in Nat
      /\ Section(job.section).step \in Nat
      /\ Transforms = Section(job.section).transforms /\ Len(Transforms) \in Nat
  BY <1>1, JobFacts DEF JobTypes
<1>3. Window \in Nat /\ Window > 0
  BY LitAssumption
<1>4. PICK step \in Nat : step = Section(job.section).step
  BY <1>2
<1>5. PICK length \in Nat : length = Section(job.section).length
  BY <1>2
<1>6. PICK entries \in Nat : entries = Section(job.section).entries
  BY <1>2
<1>7. job.done < Len(Transforms)
  BY <1>1, <1>2 DEF IInv, JobInv
<1>8. ASSUME Decodable(job.section)
      PROVE  job.done = 0 /\ step > 0 /\ Aligned(step, length)
  <2>1. InTable
    BY <1>1, <1>2, <1>8 DEF IInv, JobInv
  <2>2. QED  BY <1>1, <1>4, <1>5, <1>7, <1>8, <2>1, FirstTransform DEF Decodable, WindowFramed, InTable
<1>9. ASSUME NEW result \in Seq(Int),
             job' = [section |-> job.section, done |-> job.done + 1, entry |-> 0,
                     accum |-> job.accum, remaining |-> job.remaining, base |-> job.base,
                     result |-> result],
             Decodable(job.section) /\ TableReaches(job.section) => result = Units(0, length),
             UNCHANGED <<at, outcome>>
      PROVE  IInv'
  <2>1. job.done + 1 \in Nat /\ 0 \in Nat
    BY <1>2
  <2>2. /\ job' \in JobTypes /\ job'.section = job.section /\ job'.entry = 0
        /\ job'.done = job.done + 1 /\ job'.result = result
    BY <1>2, <1>9, <2>1 DEF JobTypes
  <2>3. job.done + 1 <= Len(Section(job.section).transforms)
    BY <1>2, <1>7
  <2>4. /\ \A s : Section(s)' = Section(s)
        /\ \A s : TableReaches(s)' = TableReaches(s)
        /\ \A s : Decodable(s)' = Decodable(s)
    BY <1>1 DEF Section, TableReaches, Decodable, WindowFramed
  <2>5. JobInv'
    BY <1>1, <1>2, <1>5, <1>9, <2>2, <2>3, <2>4 DEF JobInv, Files, Entry
  <2>6. QED  BY <1>1, <1>2, <1>9, <2>5, JobStepInv
<1>10. CASE ~Rest /\ job' = [job EXCEPT !.entry = 0, !.done = @ + 1] /\ UNCHANGED <<at, outcome>>
  <2>1. job' = [section |-> job.section, done |-> job.done + 1, entry |-> 0,
                accum |-> job.accum, remaining |-> job.remaining, base |-> job.base,
                result |-> job.result]
    BY <1>2, <1>10 DEF JobTypes
  <2>2. ASSUME Decodable(job.section), TableReaches(job.section)
        PROVE  job.result = Units(0, length)
    <3>1. /\ job.accum \in 1..Window
          /\ (\E k \in Nat : job.base = Window * k)
          /\ job.base <= length
          /\ job.remaining = length - job.base
          /\ job.result = Units(0, job.base)
          /\ (job.remaining >= Window => job.base + job.accum = step * job.entry)
      BY <1>8, <2>2 DEF Aligned
    <3>2. CASE job.remaining = 0
      <4>1. job.base = length
        BY <1>2, <3>1, <3>2
      <4>2. QED  BY <3>1, <4>1
    <3>3. CASE job.remaining >= Window
      <4>1. ~(length < Window)
        BY <1>2, <1>3, <3>1, <3>3
      <4>2. step * entries > Window * (length \div Window)
        BY <1>4, <1>5, <1>6, <2>2, <4>1 DEF TableReaches
      <4>3. PICK k \in Nat : job.base = Window * k
        BY <3>1
      <4>4. PICK last : last = step * job.entry
        OBVIOUS
      <4>5. PICK reach : reach = step * entries
        OBVIOUS
      <4>6. last \in Nat /\ reach \in Nat /\ last >= reach
        <5>1. job.entry >= entries
          BY <1>1, <1>6
        <5>2. step \in Nat \ {0} /\ job.entry \in Nat
          BY <1>2, <1>8, <2>2
        <5>3. step * entries <= step * job.entry
          BY ONLY <5>1, <5>2, entries \in Nat, TimesMonotonic
        <5>4. step * entries \in Nat /\ step * job.entry \in Nat
          BY ONLY <5>2, entries \in Nat
        <5>5. QED  BY ONLY <4>4, <4>5, <5>3, <5>4
      <4>7. reach > Window * (length \div Window) /\ job.base + job.accum = last
        BY <3>1, <3>3, <4>2, <4>4, <4>5
      <4>8. job.base \in Nat /\ job.accum \in 1..Window
        BY <1>2, <3>1
      <4>9. length - job.base < Window
        BY ONLY <4>3, <4>6, <4>7, <4>8, length \in Nat, RestIsShort
      <4>10. QED  BY <1>2, <1>3, <3>1, <3>3, <4>9
    <3>4. job.remaining = 0 \/ job.remaining >= Window
      BY <1>2, <1>3, <1>10 DEF Rest
    <3>5. QED  BY <3>2, <3>3, <3>4
  <2>3. QED  BY <1>2, <1>9, <1>10, <2>1, <2>2
<1> DEFINE piece == Piece(job.base, Section(job.section).length, job.remaining)
<1>11. piece.first = job.base /\ piece.last = length /\ piece.len = job.remaining
  BY <1>5 DEF Piece
<1> HIDE DEF piece
<1>12. ASSUME Decodable(job.section), Rest
       PROVE  /\ Decodes(piece) /\ job.result = Units(0, job.base)
              /\ job.base + job.remaining = length
  <2>1. /\ job.done = 0
        /\ (\E k \in Nat : job.base = Window * k)
        /\ job.base <= length
        /\ job.remaining = length - job.base
        /\ job.result = Units(0, job.base)
    BY <1>8, <1>12 DEF Aligned
  <2>2. PICK k \in Nat : job.base = Window * k
    BY <2>1
  <2>3. /\ piece.first \in Nat /\ piece.first = Window * k
        /\ piece.last \in Nat /\ piece.len \in Nat
        /\ piece.first + piece.len <= piece.last /\ piece.len <= Window
        /\ piece.first + piece.len <= length /\ job.base + job.remaining = length
    BY <1>2, <1>3, <1>11, <1>12, <2>1, <2>2 DEF Rest
  <2>4. piece.first + piece.len <= Section(job.section).length
    BY <1>5, <2>3
  <2>5. job.done = 0 /\ Decodable(job.section)
    BY <1>12, <2>1
  <2>6. Decodes(piece)
    BY ONLY <2>3, <2>4, <2>5, k \in Nat, PieceDecodes
  <2>7. QED  BY <2>1, <2>3, <2>6
<1>13. CASE /\ Rest
            /\ job' = [[job EXCEPT !.entry = 0, !.done = @ + 1]
                         EXCEPT !.result = @ \o Decompressed(piece)]
            /\ UNCHANGED <<at, outcome>>
  <2>1. PICK result : result = job.result \o Decompressed(piece)
    OBVIOUS
  <2>2. job' = [section |-> job.section, done |-> job.done + 1, entry |-> 0,
                accum |-> job.accum, remaining |-> job.remaining, base |-> job.base,
                result |-> result]
    BY <1>2, <1>13, <2>1 DEF JobTypes
  <2>3. result \in Seq(Int)
    <3>1. piece.first \in Nat /\ piece.len \in Nat
      BY <1>2, <1>11
    <3>2. Decompressed(piece) \in Seq(Int)
      BY ONLY <3>1, DecompressedSeq
    <3>3. QED  BY <1>2, <2>1, <3>2, ConcatProperties
  <2>4. ASSUME Decodable(job.section) PROVE result = Units(0, length)
    <3>1. /\ Decodes(piece) /\ job.result = Units(0, job.base)
          /\ job.base + job.remaining = length
      BY <1>12, <1>13, <2>4
    <3>2. Decompressed(piece) = Units(job.base, job.remaining)
      BY <1>11, <3>1 DEF Decompressed
    <3>3. Units(0, job.base) \o Units(job.base, job.remaining) = Units(0, job.base + job.remaining)
      BY ONLY <1>2, UnitsConcat
    <3>4. QED  BY ONLY <2>1, <3>1, <3>2, <3>3
  <2>5. QED  BY <1>9, <1>13, <2>2, <2>3, <2>4
<1>14. CASE Rest /\ ~Decodes(piece) /\ End("failed")
  <2>1. ~Decodable(job.section)
    BY <1>12, <1>14
  <2>2. QED  BY <1>1, <1>14, <2>1, FailedInv DEF Fails
<1>15. QED  BY <1>10, <1>13, <1>14 DEF TableEnd, piece

LEMMA KeepSectionInv == IInv /\ KeepSection => IInv'
<1> SUFFICES ASSUME IInv, KeepSection PROVE IInv'
  OBVIOUS
<1>1. PICK kept : kept = (IF Transforms = <<>> THEN Units(0, Section(job.section).length)
                          ELSE job.result)
  OBVIOUS
<1>2. /\ job # NoJob /\ job.entry = 0 /\ job.done = Len(Transforms) /\ job' = NoJob
      /\ loaded' = [s \in DOMAIN loaded \cup {job.section} |->
                      IF s # job.section THEN loaded[s] ELSE kept]
      /\ UNCHANGED <<env, todo, at, disk, outcome>>
  BY <1>1 DEF KeepSection, Between, Decoding
<1>3. /\ todo # <<>> /\ job.section \in 1..Len(Secs)
      /\ job.result \in Seq(Int) /\ Section(job.section).length \in Nat
      /\ Transforms = Section(job.section).transforms
      /\ Transforms \in Seq(STRING) /\ Len(Transforms) \in Nat
  BY <1>2, JobFacts
<1>4. Decodable(job.section) /\ TableReaches(job.section) =>
        kept = Units(0, Section(job.section).length)
  <2>1. CASE Transforms = <<>>
    BY <1>1, <2>1
  <2>2. CASE Transforms # <<>>
    <3>1. Len(Transforms) # 0
      BY <1>3, <2>2, EmptySeq
    <3>2. job.done > 0
      BY <1>2, <1>3, <3>1
    <3>3. Decodable(job.section) /\ TableReaches(job.section) =>
            job.result = Units(0, Section(job.section).length)
      BY <1>2, <3>2 DEF IInv, JobInv
    <3>4. QED  BY <1>1, <2>2, <3>3
  <2>3. QED  BY <2>1, <2>2
<1>5. LitTypes'
  <2>1. DOMAIN loaded \subseteq 1..Len(Secs)
    BY <1>3 DEF IInv, LitTypes
  <2>2. DOMAIN loaded' = DOMAIN loaded \cup {job.section}
    BY <1>2
  <2>3. DOMAIN loaded' \subseteq 1..Len(Secs)
    BY <1>3, <2>1, <2>2
  <2>4. QED  BY <1>2, <1>3, <2>3 DEF IInv, LitTypes, Secs, Files
<1>6. JobInv'
  BY <1>2 DEF JobInv, NoJob
<1>7. SectionWhole'
  <2> SUFFICES ASSUME NEW s \in DOMAIN loaded', Decodable(s), TableReaches(s)
               PROVE  loaded'[s] = Units(0, Section(s).length)
    BY <1>2 DEF SectionWhole, TableReaches, Decodable, WindowFramed, Section
  <2>1. CASE s = job.section
    <3>1. loaded'[s] = kept
      BY <1>2, <2>1
    <3>2. QED  BY <1>4, <2>1, <3>1
  <2>2. CASE s # job.section
    <3>1. s \in DOMAIN loaded /\ loaded'[s] = loaded[s]
      BY <1>2, <2>2
    <3>2. QED  BY <1>3, <3>1 DEF IInv, SectionWhole
  <2>3. QED  BY <2>1, <2>2
<1>8. SoundEntriesSucceed'
  BY <1>2 DEF IInv, SoundEntriesSucceed, Files, Decodable, WindowFramed, Section, NoBackend,
     ShimUsable, ImportFails, Imported
<1>9. WrittenIsThere'
  BY <1>2 DEF IInv, WrittenIsThere, Files
<1>10. WrittenIsOwn'
  BY <1>2 DEF IInv, WrittenIsOwn, Overwritten, Whole, TableReaches, Decodable, WindowFramed,
     Section, Files, InSection
<1>11. QED  BY <1>5, <1>6, <1>7, <1>8, <1>9, <1>10 DEF IInv

LEMMA FinishInv == IInv /\ Finish => IInv'
<1> SUFFICES ASSUME IInv, Finish PROVE IInv'
  OBVIOUS
<1>1. /\ todo # <<>> /\ todo' = Tail(todo) /\ at' = 1 /\ outcome' = <<>> /\ job' = NoJob
      /\ DOMAIN loaded' = {} /\ todo \in Seq(WellFormed)
  BY DEF Finish, Fresh, IInv, LitTypes
<1>2. /\ Tail(todo) \in Seq(WellFormed)
      /\ Tail(todo) # <<>> => Tail(todo)[1] \in WellFormed
  <2>1. /\ Tail(todo) \in Seq(WellFormed) /\ Len(Tail(todo)) = Len(todo) - 1
        /\ \A i \in 1..Len(Tail(todo)) : Tail(todo)[i] = todo[i + 1]
    BY <1>1, HeadTailProperties
  <2>2. ASSUME Tail(todo) # <<>> PROVE Tail(todo)[1] \in WellFormed
    <3>1. Len(Tail(todo)) # 0
      BY <2>1, <2>2, EmptySeq
    <3>2. 1 \in 1..Len(Tail(todo))
      BY <2>1, <3>1, LenProperties
    <3>3. QED  BY <2>1, <3>2, ElementOfSeq
  <2>3. QED  BY <2>1, <2>2
<1>3. Len(outcome') = 0 /\ outcome' \in Seq(Outcomes)
  BY <1>1, EmptySeq
<1>4. LitTypes'
  <2>1. ASSUME todo' # <<>> PROVE at' \in 1..(Len(Files') + 1) /\ Len(outcome') = at' - 1
    <3>1. Files' \in Seq(DirectoryEntries)
      BY <1>1, <1>2, <2>1 DEF WellFormed, Files
    <3>2. Len(Files') \in Nat
      BY <3>1, LenProperties
    <3>3. QED  BY <1>1, <1>3, <3>2
  <2>2. QED  BY <1>1, <1>2, <1>3, <2>1 DEF LitTypes
<1>5. JobInv'
  BY <1>1 DEF JobInv, NoJob
<1>6. SectionWhole'
  BY <1>1 DEF SectionWhole
<1>7. SoundEntriesSucceed' /\ WrittenIsThere' /\ WrittenIsOwn'
  BY <1>3 DEF SoundEntriesSucceed, WrittenIsThere, WrittenIsOwn
<1>8. QED  BY <1>4, <1>5, <1>6, <1>7 DEF IInv

LEMMA StutterInv == IInv /\ UNCHANGED vars => IInv'
<1> SUFFICES ASSUME IInv, UNCHANGED vars PROVE IInv'
  OBVIOUS
<1>1. UNCHANGED <<env, todo, loaded, at, job, disk, outcome>>
  BY DEF vars
<1>2. LitTypes' /\ SectionWhole'
  BY <1>1 DEF IInv, LitTypes, Secs, Files, SectionWhole, TableReaches, Decodable, WindowFramed, Section
<1>3. JobInv'
  BY <1>1 DEF IInv, JobInv, InTable, Aligned, Entry, Files, Section, TableReaches, Decodable,
     WindowFramed
<1>4. SoundEntriesSucceed'
  BY <1>1 DEF IInv, SoundEntriesSucceed, Files, Decodable, WindowFramed, Section, NoBackend,
     ShimUsable, ImportFails, Imported
<1>5. WrittenIsThere'
  BY <1>1 DEF IInv, WrittenIsThere, Files
<1>6. WrittenIsOwn'
  BY <1>1 DEF IInv, WrittenIsOwn, Overwritten, Whole, TableReaches, Decodable, WindowFramed,
     Section, Files, InSection
<1>7. QED  BY <1>2, <1>3, <1>4, <1>5, <1>6 DEF IInv

(* Every reachable state satisfies the inductive invariant.                *)
THEOREM LitInvariant == Spec => []IInv
<1>1. Init => IInv
  BY InitInv
<1>2. IInv /\ [Next]_vars => IInv'
  BY OpenContainerInv, SkipInternalInv, WriteFileInv, StartSectionInv, StartLzxInv,
     RefuseTransformInv, TableEntryInv, TableEndInv, KeepSectionInv, FinishInv, StutterInv DEF Next
<1>3. QED  BY <1>1, <1>2, PTL DEF Spec

(* For a section whose compressor reset at every window and whose table    *)
(* lists those places, windows are cut there: no entry of it fails if it   *)
(* is sound and has a backend, whatever failed before it. Nothing is said  *)
(* of a section whose resets lie elsewhere.                                *)
THEOREM SoundEntriesAlwaysSucceed == Spec => []SoundEntriesSucceed
<1>1. IInv => SoundEntriesSucceed
  BY DEF IInv
<1>2. QED  BY <1>1, LitInvariant, PTL

(* What is kept of such a section is all of its units, in order, the last  *)
(* piece included, if the reset table reaches the end of the last full     *)
(* window.                                                                 *)
THEOREM SectionAlwaysWhole == Spec => []SectionWhole
<1>1. IInv => SectionWhole
  BY DEF IInv
<1>2. QED  BY <1>1, LitInvariant, PTL

(* A file reported as written, and not written again since by an entry of  *)
(* the same container that lstrip('/') gives the same path, is of its own  *)
(* container and section, and all of it if the section is whole: whatever  *)
(* other containers left in the directory, and whatever was cut short.     *)
THEOREM WrittenAlwaysOwn == Spec => []WrittenIsOwn
<1>1. IInv => WrittenIsOwn
  BY DEF IInv
<1>2. QED  BY <1>1, LitInvariant, PTL

-----------------------------------------------------------------------------
(* The dump folder (module Dumper): what the manifest says of it, for every*)
(* set of articles and baggage and every naming of their files, wherever a *)
(* run dies and whatever write fails.                                      *)
Manifests == [written : SUBSET Items, errors : SUBSET Items]
Contents == {Absent} \cup {PartOf(i) : i \in Items} \cup {WholeOf(i) : i \in Items}

FolderTypes ==
  /\ manifest \in Manifests
  /\ saved = Torn \/ saved \in Manifests
  /\ files \in [FileNames -> Contents]
  /\ writing \in Items \cup {NoFile, ManifestFile}

(* A Dumper knows of every item that a manifest on disk has: what it       *)
(* passes over, and what it writes back, is never less than that.          *)
KnowsWhatWasSaved ==
  running =>
    /\ flushed \subseteq manifest.written
    /\ saved # Torn => saved.written \subseteq manifest.written

OnlyRunsWrite == writing # NoFile => running

(* What an open file is about to replace has been noted.                   *)
OpenIsNoted ==
  writing \in Items =>
    \A j \in manifest.written : FileOf[j] = FileOf[writing] => j \in again

FolderInv ==
  /\ FolderTypes
  /\ OnlyRunsWrite
  /\ OpenIsNoted
  /\ KnowsWhatWasSaved
  /\ ListedIsWhole
  /\ FlushedStays

-----------------------------------------------------------------------------
LEMMA FolderInitInv == FolderInit => FolderInv
<1> SUFFICES ASSUME FolderInit PROVE FolderInv
  OBVIOUS
<1>1. /\ running = FALSE /\ manifest = Nothing /\ saved = Nothing /\ writing = NoFile
      /\ flushed = {} /\ files = [f \in FileNames |-> Absent]
  BY DEF FolderInit
<1>2. Nothing \in Manifests /\ Nothing.written = {}
  BY DEF Nothing, Manifests
<1>3. FolderTypes
  BY <1>1, <1>2 DEF FolderTypes, Contents
<1>4. NoFile \notin Items
  BY FolderAssumption
<1>5. OnlyRunsWrite /\ OpenIsNoted /\ KnowsWhatWasSaved /\ ListedIsWhole /\ FlushedStays
  BY <1>1, <1>2, <1>4 DEF OnlyRunsWrite, OpenIsNoted, KnowsWhatWasSaved, ListedIsWhole, FlushedStays
<1>6. QED  BY <1>3, <1>5 DEF FolderInv

LEMMA StartInv ==
  ASSUME FolderInv, Start PROVE FolderInv'
<1>1. saved # Torn /\ saved \in Manifests /\ manifest' = saved /\ ~running
  BY DEF FolderInv, FolderTypes, Start, Loadable, Loaded
<1>2. UNCHANGED <<files, saved, writing, again, flushed>>
  BY DEF Start
<1>3. writing = NoFile /\ NoFile \notin Items
  BY <1>1, FolderAssumption DEF FolderInv, OnlyRunsWrite
<1>4. FolderTypes' /\ OnlyRunsWrite' /\ OpenIsNoted'
  BY <1>1, <1>2, <1>3 DEF FolderInv, FolderTypes, OnlyRunsWrite, OpenIsNoted
<1>5. KnowsWhatWasSaved' /\ FlushedStays'
  BY <1>1, <1>2 DEF FolderInv, KnowsWhatWasSaved, FlushedStays
<1>6. ListedIsWhole'
  BY <1>1, <1>2 DEF FolderInv, ListedIsWhole
<1>7. QED  BY <1>4, <1>5, <1>6 DEF FolderInv

(* What is cut short by the opening of a file is no longer spoken of.      *)
LEMMA OpenFileInv ==
  ASSUME FolderInv, NEW i \in Items, OpenFile(i) PROVE FolderInv'
<1>1. /\ running /\ running' = running /\ writing' = i
      /\ files' = [files EXCEPT ![FileOf[i]] = PartOf(i)]
      /\ manifest' = manifest /\ saved' = saved /\ flushed' = flushed
      /\ again' = again \cup {j \in manifest.written : FileOf[j] = FileOf[i]}
  BY DEF OpenFile, Idle, ListedBefore
<1>2. files \in [FileNames -> Contents] /\ PartOf(i) \in Contents
  BY DEF FolderInv, FolderTypes, Contents
<1>3. files' \in [FileNames -> Contents]
  BY <1>1, <1>2
<1>4. FolderTypes' /\ OnlyRunsWrite' /\ OpenIsNoted'
  BY <1>1, <1>3 DEF FolderInv, FolderTypes, OnlyRunsWrite, OpenIsNoted
<1>5. KnowsWhatWasSaved' /\ FlushedStays'
  BY <1>1 DEF FolderInv, KnowsWhatWasSaved, FlushedStays
<1>6. ListedIsWhole'
  <2>1. SUFFICES ASSUME NEW j \in Items, j \notin again',
                        j \in manifest.written \/ (saved # Torn /\ j \in saved.written)
                 PROVE  files'[FileOf[j]] = WholeOf(j)
    BY <1>1 DEF ListedIsWhole
  <2>2. j \in manifest.written /\ j \notin again
    BY <1>1, <2>1 DEF FolderInv, KnowsWhatWasSaved
  <2>3. FileOf[j] # FileOf[i] /\ files[FileOf[j]] = WholeOf(j)
    BY <1>1, <2>1, <2>2 DEF FolderInv, ListedIsWhole
  <2>4. FileOf[j] \in FileNames
    BY DEF FileNames
  <2>5. QED  BY <1>1, <1>2, <2>3, <2>4
<1>7. QED  BY <1>4, <1>5, <1>6 DEF FolderInv

LEMMA CloseFileInv ==
  ASSUME FolderInv, NEW i \in Items, CloseFile(i) PROVE FolderInv'
<1>1. /\ writing = i /\ writing' = NoFile /\ running' = running
      /\ files' = [files EXCEPT ![FileOf[i]] = WholeOf(i)]
      /\ manifest' = [manifest EXCEPT !.written = @ \cup {i}]
      /\ again' = again \ {i} /\ saved' = saved /\ flushed' = flushed
  BY DEF CloseFile
<1>2. running /\ i # NoFile
  BY <1>1, FolderAssumption DEF FolderInv, OnlyRunsWrite
<1>3. files \in [FileNames -> Contents] /\ WholeOf(i) \in Contents /\ FileOf[i] \in FileNames
  BY DEF FolderInv, FolderTypes, Contents, FileNames
<1>4. files' \in [FileNames -> Contents] /\ files'[FileOf[i]] = WholeOf(i)
  BY <1>1, <1>3
<1>5. manifest' \in Manifests /\ manifest'.written = manifest.written \cup {i}
  BY <1>1 DEF FolderInv, FolderTypes, Manifests
<1>6. FolderTypes' /\ OnlyRunsWrite' /\ OpenIsNoted'
  <2>1. NoFile \notin Items
    BY FolderAssumption
  <2>2. QED  BY <1>1, <1>4, <1>5, <2>1 DEF FolderInv, FolderTypes, OnlyRunsWrite, OpenIsNoted
<1>7. KnowsWhatWasSaved' /\ FlushedStays'
  BY <1>1, <1>5 DEF FolderInv, KnowsWhatWasSaved, FlushedStays
<1>8. ListedIsWhole'
  <2>1. SUFFICES ASSUME NEW j \in Items, j \notin again',
                        j \in manifest'.written \/ (saved # Torn /\ j \in saved.written)
                 PROVE  files'[FileOf[j]] = WholeOf(j)
    BY <1>1 DEF ListedIsWhole
  <2>2. CASE j = i
    BY <1>4, <2>2
  <2>3. CASE j # i
    <3>1. j \in manifest.written /\ j \notin again
      BY <1>1, <1>2, <1>5, <2>1, <2>3 DEF FolderInv, KnowsWhatWasSaved
    <3>2. FileOf[j] # FileOf[i] /\ files[FileOf[j]] = WholeOf(j)
      BY <1>1, <3>1 DEF FolderInv, OpenIsNoted, ListedIsWhole
    <3>3. FileOf[j] \in FileNames
      BY DEF FileNames
    <3>4. QED  BY <1>1, <1>3, <3>2, <3>3
  <2>4. QED  BY <2>2, <2>3
<1>9. QED  BY <1>6, <1>7, <1>8 DEF FolderInv

LEMMA RecordErrorInv ==
  ASSUME FolderInv, NEW i \in Items, RecordError(i) PROVE FolderInv'
<1>1. /\ manifest' = [manifest EXCEPT !.errors = @ \cup {i}]
      /\ UNCHANGED <<running, files, saved, writing, again, flushed>>
  BY DEF RecordError
<1>2. manifest' \in Manifests /\ manifest'.written = manifest.written
  BY <1>1 DEF FolderInv, FolderTypes, Manifests
<1>3. FolderTypes'
  BY <1>1, <1>2 DEF FolderInv, FolderTypes
<1>4. QED
  BY <1>1, <1>2, <1>3 DEF FolderInv, OnlyRunsWrite, OpenIsNoted, KnowsWhatWasSaved,
     ListedIsWhole, FlushedStays

LEMMA ManifestInv ==
  ASSUME FolderInv, OpenManifest \/ CloseManifest PROVE FolderInv'
<1>0. ManifestFile \notin Items /\ NoFile \notin Items /\ ManifestFile # NoFile
  BY FolderAssumption DEF ManifestFile, NoFile
<1>1. CASE OpenManifest
  <2>1. /\ running /\ saved' = Torn /\ writing' = ManifestFile
        /\ UNCHANGED <<running, manifest, files, again, flushed>>
    BY <1>1 DEF OpenManifest, Idle
  <2>2. QED
    BY <1>0, <2>1 DEF FolderInv, FolderTypes, OnlyRunsWrite, OpenIsNoted, KnowsWhatWasSaved,
       ListedIsWhole, FlushedStays
<1>2. CASE CloseManifest
  <2>1. /\ running /\ saved' = manifest /\ writing' = NoFile
        /\ flushed' = flushed \cup manifest.written
        /\ UNCHANGED <<running, manifest, files, again>>
    BY <1>0, <1>2 DEF CloseManifest, FolderInv, OnlyRunsWrite
  <2>2. FolderTypes' /\ OnlyRunsWrite' /\ OpenIsNoted' /\ ListedIsWhole'
    BY <1>0, <2>1 DEF FolderInv, FolderTypes, OnlyRunsWrite, OpenIsNoted, KnowsWhatWasSaved,
       ListedIsWhole
  <2>3. flushed' \subseteq manifest.written
    BY <2>1 DEF FolderInv, KnowsWhatWasSaved
  <2>4. QED  BY <2>1, <2>2, <2>3 DEF FolderInv, KnowsWhatWasSaved, FlushedStays
<1>3. QED  BY <1>1, <1>2

LEMMA StoppedInv ==
  ASSUME FolderInv, WriteFails \/ Die PROVE FolderInv'
<1>0. NoFile \notin Items
  BY FolderAssumption
<1>1. CASE WriteFails
  BY <1>0, <1>1 DEF WriteFails, FolderInv, FolderTypes, OnlyRunsWrite, OpenIsNoted,
     KnowsWhatWasSaved, ListedIsWhole, FlushedStays
<1>2. CASE Die
  <2>1. Nothing \in Manifests /\ Nothing.written = {}
    BY DEF Nothing, Manifests
  <2>2. QED  BY <1>0, <1>2, <2>1 DEF Die, FolderInv, FolderTypes, OnlyRunsWrite, OpenIsNoted,
             KnowsWhatWasSaved, ListedIsWhole, FlushedStays
<1>3. QED  BY <1>1, <1>2

-----------------------------------------------------------------------------
THEOREM FolderInvariant == FolderSpec => []FolderInv
<1>1. FolderInv /\ [FolderNext]_foldervars => FolderInv'
  <2> SUFFICES ASSUME FolderInv, [FolderNext]_foldervars PROVE FolderInv'
    OBVIOUS
  <2>1. CASE Start
    BY <2>1, StartInv
  <2>2. ASSUME NEW i \in Items, OpenFile(i) PROVE FolderInv'
    BY <2>2, OpenFileInv
  <2>3. ASSUME NEW i \in Items, CloseFile(i) PROVE FolderInv'
    BY <2>3, CloseFileInv
  <2>4. ASSUME NEW i \in Items, RecordError(i) PROVE FolderInv'
    BY <2>4, RecordErrorInv
  <2>5. CASE OpenManifest \/ CloseManifest
    BY <2>5, ManifestInv
  <2>6. CASE WriteFails \/ Die
    BY <2>6, StoppedInv
  <2>7. CASE UNCHANGED foldervars
    BY <2>7 DEF foldervars, FolderInv, FolderTypes, OnlyRunsWrite, OpenIsNoted, KnowsWhatWasSaved,
       ListedIsWhole, FlushedStays
  <2>8. QED
    BY <2>1, <2>2, <2>3, <2>4, <2>5, <2>6, <2>7 DEF FolderNext
<1>2. QED  BY FolderInitInv, <1>1, PTL DEF FolderSpec

(* What a manifest lists, in memory or on disk, is whole and its own,      *)
(* unless its file was opened for writing again, wherever this run or an   *)
(* earlier one died and whatever write failed, the manifest's own          *)
(* included; and a manifest that can be loaded has every item that any     *)
(* manifest before it had.                                                 *)
THEOREM ManifestStaysTrue == FolderSpec => []ManifestIsTrue
<1>1. FolderInv => ManifestIsTrue
  BY DEF FolderInv, ManifestIsTrue
<1>2. QED  BY FolderInvariant, <1>1, PTL

=============================================================================
