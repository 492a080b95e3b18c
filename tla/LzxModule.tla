------------------------------- MODULE LzxModule -------------------------------
(***************************************************************************)
(* The extension module (lzxmodule.c) on top of an lzxd_stream: one call   *)
(* of decompress makes a bytes object, a stream, one lzxd_decompress for   *)
(* all of it and frees the stream; glue_alloc, glue_read and glue_write    *)
(* serve the stream and leave Python exceptions behind. Besides, a program *)
(* may use the stream's functions themselves (module LzxStream).           *)
(***************************************************************************)
EXTENDS LzxStream

CONSTANT OutLengths   \* outlen

ASSUME ModuleAssumption == OutLengths \subseteq Asks \cap Nat

VARIABLES
  caller,     \* fixed: "program" or "extension"
  LZXwindow,  \* the last init() named a window that lzxd_init takes
  step,       \* of decompress: "out", "init", "call", "calling", "free", "return"
  outlen,
  retval,     \* NULL or the bytes object, as a sequence
  err,        \* not MSPACK_ERR_OK
  exception   \* the Python exception that is set

modvars == <<caller, LZXwindow, step, outlen, retval, err, exception>>
allvars == <<vars, modvars>>

NULL == <<-1>>

ModuleInit ==
  /\ Init
  /\ caller \in {"program", "extension"}
  /\ LZXwindow = FALSE
  /\ step = "out" /\ outlen = 0 /\ retval = NULL /\ err = FALSE /\ exception = "none"

(* init(window): any number is taken; lzxd_init looks at it later.         *)
SetWindow(valid) ==
  /\ caller = "extension" /\ step = "out"
  /\ LZXwindow' = valid
  /\ UNCHANGED <<vars, caller, step, outlen, retval, err, exception>>

(* decompress(data, outlen) makes the bytes object first, uninitialised.   *)
Enter(n, memory) ==
  /\ caller = "extension" /\ step = "out"
  /\ outlen' = n
  /\ \/ memory /\ retval' = Blank(n) /\ step' = "init" /\ UNCHANGED exception
     \/ ~memory /\ exception' = "MemoryError" /\ step' = "return" /\ UNCHANGED retval
  /\ UNCHANGED <<vars, caller, LZXwindow, err>>

(* glue_alloc sets MemoryError when malloc gives nothing. reset_interval   *)
(* is 0x7fff frames, which no stream here reaches. The output file has     *)
(* room for the object.                                                    *)
MakeStream(got, s) ==
  /\ step = "init" /\ s.interval = 0
  /\ InitStream(LZXwindow, got, s, outlen, outlen)
  /\ exception' = IF LZXwindow /\ got # Parts THEN "MemoryError" ELSE exception
  /\ err' = ~handle'
  /\ step' = IF handle' THEN "call" ELSE "free"
  /\ UNCHANGED <<caller, LZXwindow, outlen, retval>>

Start ==
  /\ step = "call"
  /\ Decompress(outlen)
  /\ step' = "calling"
  /\ UNCHANGED <<caller, LZXwindow, outlen, retval, err, exception>>

(* What glue_write took is in the object.                                  *)
Object == [i \in 1..outlen |-> IF i <= Len(output) THEN output[i] ELSE Junk]

Answered ==
  /\ step = "calling" /\ call.pc = "idle"
  /\ err' = (answer # "ok") /\ retval' = Object
  /\ step' = "free"
  /\ UNCHANGED <<vars, caller, LZXwindow, outlen, exception>>

KeepsException == exception
SetsException == IF err THEN "LZXError" ELSE exception

(* lzxd_free, and the object too if the call failed.                       *)
Dispose ==
  /\ step = "free"
  /\ IF handle THEN Free ELSE UNCHANGED vars
  /\ retval' = IF err THEN NULL ELSE retval
  /\ exception' = SetsException
  /\ step' = "return"
  /\ UNCHANGED <<caller, LZXwindow, outlen, err>>

(* The interpreter takes the result, or the exception.                     *)
Return ==
  /\ step = "return"
  /\ step' = "out" /\ outlen' = 0 /\ retval' = NULL /\ err' = FALSE /\ exception' = "none"
  /\ UNCHANGED <<vars, caller, LZXwindow>>

Made == \E got \in SUBSET Parts, s \in Streams : MakeStream(got, s)
Inside == (Within /\ UNCHANGED modvars) \/ Made \/ Start \/ Answered \/ Dispose \/ Return

ModuleNext ==
  \/ caller = "program" /\ Library /\ UNCHANGED modvars
  \/ \E valid \in BOOLEAN : SetWindow(valid)
  \/ \E n \in OutLengths, memory \in BOOLEAN : Enter(n, memory)
  \/ Inside

ModuleSpec == ModuleInit /\ [][ModuleNext]_allvars /\ WF_allvars(Inside)

-----------------------------------------------------------------------------
ModuleTypeOK ==
  /\ TypeOK
  /\ step \in {"out", "init", "call", "calling", "free", "return"}
  /\ caller = "program" => step = "out"
  /\ exception \in {"none", "MemoryError", "LZXError"}

(* decompress returns all of what was asked for or nothing: an object of   *)
(* which every byte was written, in order, or NULL and an exception; never *)
(* both (lzxmodule.c 150 to 198 with glue_alloc and glue_write).           *)
ResultIsWhole ==
  step = "return" =>
    \/ retval = [i \in 1..outlen |-> i] /\ exception = "none"
    \/ retval = NULL /\ exception # "none"

(* A call of decompress, and of lzxd_decompress, returns: over blocks of no *)
(* bytes too, which lzx.py refuses (316) and lzxd.c takes (555 to 558), as  *)
(* each of their headers uses up input (TakeHeader).                        *)
Returns == /\ call.pc # "idle" ~> call.pc = "idle"
           /\ step # "out" ~> step = "out"

=============================================================================
