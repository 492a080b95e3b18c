--------------------------------- MODULE Dumper ---------------------------------
(***************************************************************************)
(* The dump folder (dumper.py): articles and baggage are files, and        *)
(* manifest.json says which of them are there. No caller is part of the    *)
(* repository: any call may come at any time, has_article may be asked or  *)
(* not, and the process may die, or the disk fill up, in the middle of any *)
(* file, the manifest included.                                            *)
(***************************************************************************)
EXTENDS FiniteSets

CONSTANTS
  Articles,  \* content ids
  Baggage,   \* hexids
  FileOf     \* the file of each (ext is left at "bin"); two hexids may share one

Items == Articles \cup Baggage
FileNames == {FileOf[i] : i \in Items}

VARIABLES
  running,   \* a Dumper exists
  manifest,  \* of the Dumper: what is written, and what is noted as failed
  files,     \* what is on disk: whose bytes, and if they are all there
  saved,     \* manifest.json
  writing,   \* the item, or the manifest, whose file is open for writing
  again,     \* history: listed items whose file was opened for writing again
  flushed    \* history: the items of every manifest that was saved

foldervars == <<running, manifest, files, saved, writing, again, flushed>>

Nothing == [written |-> {}, errors |-> {}]
Torn == [torn |-> TRUE]
NoFile == "none"
ManifestFile == "manifest.json"

ASSUME FolderAssumption == Items \cap {NoFile, ManifestFile} = {}

PartOf(i) == <<"part", i>>
WholeOf(i) == <<"whole", i>>
Absent == <<"absent", NoFile>>

FolderInit ==
  /\ running = FALSE
  /\ manifest = Nothing /\ saved = Nothing
  /\ files = [f \in FileNames |-> Absent]
  /\ writing = NoFile
  /\ again = {} /\ flushed = {}

(* Manifest.load: a missing file is an empty manifest, JSON that ends too  *)
(* early raises and no Dumper is made.                                     *)
Loadable == saved # Torn
Loaded == IF saved = Torn THEN Nothing ELSE saved

Start ==
  /\ ~running /\ Loadable
  /\ running' = TRUE
  /\ manifest' = Loaded
  /\ UNCHANGED <<files, saved, writing, again, flushed>>

-----------------------------------------------------------------------------
(* write_bytes and write_text empty the file before they write it. One     *)
(* that can not even be opened changes nothing.                            *)
Idle == running /\ writing = NoFile

ListedEarly(m, i) == [m EXCEPT !.written = @ \cup {i}]
ListedBefore(m, i) == m

OpenFile(i) ==
  /\ Idle
  /\ writing' = i
  /\ files' = [files EXCEPT ![FileOf[i]] = PartOf(i)]
  /\ manifest' = ListedBefore(manifest, i)
  /\ again' = again \cup {j \in manifest.written : FileOf[j] = FileOf[i]}
  /\ UNCHANGED <<running, saved, flushed>>

CloseFile(i) ==
  /\ writing = i
  /\ files' = [files EXCEPT ![FileOf[i]] = WholeOf(i)]
  /\ manifest' = [manifest EXCEPT !.written = @ \cup {i}]
  /\ again' = again \ {i}
  /\ writing' = NoFile
  /\ UNCHANGED <<running, saved, flushed>>

(* An OSError goes to the caller, which may go on with this Dumper.        *)
WriteFails ==
  /\ writing # NoFile
  /\ writing' = NoFile
  /\ UNCHANGED <<running, manifest, files, saved, again, flushed>>

RecordError(i) ==
  /\ Idle
  /\ manifest' = [manifest EXCEPT !.errors = @ \cup {i}]
  /\ UNCHANGED <<running, files, saved, writing, again, flushed>>

OpenManifest ==
  /\ Idle
  /\ writing' = ManifestFile
  /\ saved' = Torn
  /\ UNCHANGED <<running, manifest, files, again, flushed>>

CloseManifest ==
  /\ writing = ManifestFile
  /\ saved' = manifest
  /\ flushed' = flushed \cup manifest.written
  /\ writing' = NoFile
  /\ UNCHANGED <<running, manifest, files, again>>

Die ==
  /\ running
  /\ running' = FALSE /\ writing' = NoFile /\ manifest' = Nothing
  /\ UNCHANGED <<files, saved, again, flushed>>

FolderNext ==
  \/ Start
  \/ \E i \in Items : OpenFile(i) \/ CloseFile(i) \/ RecordError(i)
  \/ WriteFails \/ OpenManifest \/ CloseManifest \/ Die

FolderSpec == FolderInit /\ [][FolderNext]_foldervars

-----------------------------------------------------------------------------
(* What a manifest lists, saved or not, is whole on disk and its own,      *)
(* wherever a run died or a call failed, unless its file was opened for    *)
(* writing again since: a file is listed behind its last byte. (Nothing in *)
(* write_article keeps a listed article from being written again, and if   *)
(* that fails it stays on the list.)                                       *)
ListedIsWhole ==
  \A i \in Items :
    (i \in manifest.written \/ (saved # Torn /\ i \in saved.written)) /\ i \notin again =>
      files[FileOf[i]] = WholeOf(i)

(* A manifest that can be loaded has every item that any manifest before   *)
(* it had. (While flush() is under way, and after one that failed, there   *)
(* is none that can be loaded: until a flush of the same Dumper succeeds,  *)
(* no run can be taken up again, whatever dumper.py:2 says.)               *)
FlushedStays == saved # Torn => flushed \subseteq saved.written

ManifestIsTrue == ListedIsWhole /\ FlushedStays

=============================================================================
