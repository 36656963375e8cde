---------------------------- MODULE MCFrameQueue ----------------------------
(* FrameQueue on a small instance.  Two consumers, so that a notify can be  *)
(* spent on the wrong one; more puts than the capacity, so that frames are  *)
(* dropped.  Liveness is checked, so no symmetry is used.                   *)
EXTENDS FrameQueue
=============================================================================
