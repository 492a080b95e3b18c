------------------------------ MODULE MCLzxStream ------------------------------
(* The stream with its callers, and the bytes of one call of module        *)
(* LzxFrames, in one state space: which of the two a behaviour is about is *)
(* fixed in its first state. Streams of one to four frames in a window of  *)
(* two, calls of less than a frame to more than the stream.                *)
EXTENDS LzxModule, LzxFrames

VARIABLE frames   \* the behaviour is about module LzxFrames

MCAsks == {-1, 0, 1, 2, 3, 5}
MCStreams == [total : {3, 4, 7}, interval : {0, 2}, empty : {2}]
MCPlainStreams == [total : {3, 4, 7}, interval : {0}, empty : {2}]

StreamIdle ==
  /\ Init
  /\ caller = "program" /\ LZXwindow = FALSE
  /\ step = "out" /\ outlen = 0 /\ retval = NULL /\ err = FALSE /\ exception = "none"
FramesIdle ==
  /\ total = 0 /\ filesize = 0 /\ started = FALSE
  /\ cwin = <<>> /\ posn = 0 /\ curpos = 0 /\ written = <<>> /\ pwin = <<>> /\ out = <<>>
  /\ frame = 0 /\ plain = <<>> /\ early = FALSE

MCInit ==
  \/ frames = FALSE /\ ModuleInit /\ FramesIdle
  \/ frames = TRUE /\ FramesInit /\ StreamIdle
MCNext ==
  \/ ~frames /\ ModuleNext /\ UNCHANGED <<frames, framevars>>
  \/ frames /\ FramesNext /\ UNCHANGED <<frames, allvars>>
MCSpec ==
  /\ MCInit /\ [][MCNext]_<<frames, framevars, allvars>>
  /\ WF_allvars(~frames /\ Inside /\ UNCHANGED <<frames, framevars>>)

=============================================================================
