---------------------------- MODULE RetentionLog ----------------------------
(***************************************************************************)
(* What the frame queue promises its users, with no queue in sight: a log  *)
(* of every accepted frame and one cursor.  A reader always gets the frame *)
(* at the cursor; the writer never waits, and may push the cursor forward  *)
(* only when a reader lags more than Capacity frames behind.               *)
(*                                                                         *)
(* backend/inference/frame_queue.py is shown to implement this             *)
(* (FrameQueue!ImplementsLog, proved in FrameQueueProofs).                 *)
(***************************************************************************)
EXTENDS Integers, Sequences

CONSTANTS Frames,    \* the frames a producer may hand over
          Capacity   \* how many unread frames are retained

VARIABLES log,       \* every frame accepted since the last clear, in order
          cursor,    \* number of frames that are no longer readable
          lost,      \* how many of those were skipped unread
          out        \* the frame most recently handed to a reader, or <<>>

logVars == <<log, cursor, lost, out>>

LogInit ==
    /\ log = <<>>
    /\ cursor = 0
    /\ lost = 0
    /\ out = <<>>

\* Accepting a frame never blocks.  At most the oldest unread frame is lost,
\* and only when Capacity unread frames were already waiting.
Accept(f) ==
    /\ log' = Append(log, f)
    /\ \/ /\ Len(log) - cursor < Capacity
          /\ UNCHANGED <<cursor, lost>>
       \/ /\ Len(log) - cursor = Capacity
          /\ cursor' = cursor + 1
          /\ lost' = lost + 1
    /\ UNCHANGED out

\* A reader receives the oldest unread frame, exactly once.
Deliver ==
    /\ cursor < Len(log)
    /\ out' = <<log[cursor + 1]>>
    /\ cursor' = cursor + 1
    /\ UNCHANGED <<log, lost>>

\* The owner forgets everything and starts counting again.
Clear ==
    /\ log' = <<>>
    /\ cursor' = 0
    /\ lost' = 0
    /\ UNCHANGED out

LogNext ==
    \/ \E f \in Frames : Accept(f)
    \/ Deliver
    \/ Clear

LogSpec == LogInit /\ [][LogNext]_logVars
=============================================================================
