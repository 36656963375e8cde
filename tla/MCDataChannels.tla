---------------------------- MODULE MCDataChannels ----------------------------
(* The two data channels on small instances.                                *)
(*                                                                          *)
(* TCP (TcpChannel): packets of three units, less room on a connection than *)
(* a packet needs; two connections and a queue of one frame, or one         *)
(* connection and a longer queue.  UDP (UdpChannel, U): frames of one       *)
(* fragment, of two with a long and with a short second one, of four with a *)
(* short one, and of too many; frame ids that all clash.                    *)
(*                                                                          *)
(* A session uses one of them and the modules share no variable: TcpSpec    *)
(* has the behaviours in which only TCP moves, EitherSpec those in which    *)
(* one of the two does.  Both implement FrameStream.                        *)
EXTENDS TcpChannel

CONSTANTS UdpClients, Sizes, MaxFrags, Wrap, UdpFrames, MaxFaults

ASSUME UdpSizesAssumption ==
    /\ Sizes \subseteq [frags : Nat \ {0}, short : BOOLEAN]
    /\ \A s \in Sizes : s.short => s.frags % 2 = 0
ASSUME UdpBoundsAssumption ==
    {MaxFrags, Wrap} \subseteq Nat \ {0} /\ {UdpFrames, MaxFaults} \subseteq Nat

VARIABLES udpServer, registered, client, asking, frames, next, udpTargets, addressed,
          net, cache, udpDelivered, faults

udpVars == <<udpServer, registered, client, asking, frames, next, udpTargets,
             addressed, net, cache, udpDelivered, faults>>

U == INSTANCE UdpChannel
       WITH Clients <- UdpClients, MaxFrames <- UdpFrames,
            server <- udpServer, targets <- udpTargets, delivered <- udpDelivered

Size(n, s) == [frags |-> n, short |-> s]
MCSizes == {Size(1, FALSE), Size(2, FALSE), Size(2, TRUE), Size(4, TRUE), Size(5, FALSE)}

MCInit == Init /\ U!Init

TcpMoves == Next /\ UNCHANGED udpVars
UdpMoves == U!Next /\ UNCHANGED vars

\* The channel that does not move stays as it was initially, where none of the
\* actions is enabled which U!Fairness is about.
EitherMoves == (U!Init /\ TcpMoves) \/ (Init /\ UdpMoves)

TcpSpec == MCInit /\ [][TcpMoves]_<<vars, udpVars>> /\ Fairness
EitherSpec == MCInit /\ [][EitherMoves]_<<vars, udpVars>> /\ U!Fairness

\* What each channel's receivers hand on, as numbers of frames: a TCP frame is
\* a header and the body behind it, a UDP frame the pieces put together.  What is
\* not a whole frame is 0.
TcpNumber(d) == LET f == d.header[1].frame
                IN  IF f \in 1 .. MaxFrames /\ Intact(d) THEN f ELSE 0
UdpNumber(chunks) == IF U!Whole(chunks) THEN chunks[1].frame ELSE 0

TcpGot == [c \in Clients |-> [i \in DOMAIN delivered[c] |-> TcpNumber(delivered[c][i])]]
UdpGot == [c \in UdpClients |-> [i \in DOMAIN udpDelivered[c] |-> UdpNumber(udpDelivered[c][i])]]

TcpStream == INSTANCE FrameStream
               WITH Receivers <- Clients, got <- TcpGot, disturbed <- torn

UdpStream == INSTANCE FrameStream
               WITH Receivers <- UdpClients, MaxFrames <- UdpFrames, made <- U!Number,
                    got <- UdpGot, disturbed <- {c \in UdpClients : faults[c] > 0}

(* The TCP channel keeps the promise of FrameStream (broadcast_frame        *)
(* 141-174, _send_loop 176-265, _tcp_recv_loop 141-188).                    *)
TcpIsStream == TcpStream!Spec

(* And so does the UDP channel, as far as its network does (broadcast_frame *)
(* 359-438, _udp_recv_loop 190-248).                                        *)
UdpIsStream == UdpStream!Spec

(* Nothing cut is handed on, whatever the network does (UdpChannel).        *)
NothingIsCut == U!NothingIsCut

(* A small frame arrives over a network without faults (UdpChannel).        *)
SmallFramesArrive == U!SmallFramesArrive
=============================================================================
