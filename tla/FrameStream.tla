----------------------------- MODULE FrameStream -----------------------------
(***************************************************************************)
(* What a data channel promises the receivers of frames, with no           *)
(* connection, packet or datagram in sight.  Frames are numbered as they   *)
(* are broadcast.  A receiver may miss any of them, but what it gets is    *)
(* one of them, whole, and newer than all it has got.  The promise ends    *)
(* for a receiver when it is disturbed: by a timeout within a frame (TCP), *)
(* or by a fault of the network (UDP).                                     *)
(*                                                                         *)
(* Both channels of collector/tcp_data_server.py, with their receivers in  *)
(* backend/collector_io_client.py, are shown to implement this             *)
(* (MCDataChannels, proved in ChannelProofs).                              *)
(***************************************************************************)
EXTENDS Integers, Sequences

CONSTANTS Receivers,
          MaxFrames   \* bound: frames broadcast

VARIABLES made,      \* number of frames broadcast
          got,       \* what each receiver has handed on: numbers of frames
          disturbed  \* receivers the promise no longer holds for

vars == <<made, got, disturbed>>

Damaged == 0   \* the number of what is no frame

Init == made = 0 /\ got = [r \in Receivers |-> <<>>] /\ disturbed = {}

Broadcast ==
    /\ made < MaxFrames
    /\ made' = made + 1
    /\ UNCHANGED <<got, disturbed>>

IsNewer(r, f) == \A i \in DOMAIN got[r] : got[r][i] < f

HandOver(r, f) ==
    /\ r \in disturbed \/ (f \in 1 .. made /\ IsNewer(r, f))
    /\ got' = [got EXCEPT ![r] = Append(@, f)]
    /\ UNCHANGED <<made, disturbed>>

Disturb(r) ==
    /\ disturbed' = disturbed \cup {r}
    /\ UNCHANGED <<made, got>>

Next ==
    \/ Broadcast
    \/ \E r \in Receivers :
          \/ \E f \in {Damaged} \cup 1 .. MaxFrames : HandOver(r, f)
          \/ Disturb(r)

Spec == Init /\ [][Next]_vars
=============================================================================
