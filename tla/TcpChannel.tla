------------------------------ MODULE TcpChannel ------------------------------
(***************************************************************************)
(* collector/tcp_data_server.py (TCPDataServer) and the TCP half of        *)
(* backend/collector_io_client.py: IQ frames on their way from the         *)
(* acquisition thread to the receiver threads of the Platform.             *)
(*                                                                         *)
(* On the collector's side the acquisition thread fills a bounded queue,   *)
(* a sender thread serves all clients with each frame while it holds the   *)
(* client list's lock, and an accept thread adds clients under that lock.  *)
(* On the Platform's side every connection has a receiver thread.          *)
(*                                                                         *)
(* A packet is Header units followed by Body units; a unit is a record of  *)
(* its frame and its place in the packet.  A connection carries at most    *)
(* Window units that are sent and not received.                            *)
(***************************************************************************)
EXTENDS Integers, Sequences, FiniteSets

CONSTANTS Clients,    \* connections, each made by one CollectorIOClient
          QueueSize,  \* _MAX_FRAME_QUEUE, 500 in the code
          Header, Body, Window,
          MaxFrames,  \* bound: frames broadcast
          None

ASSUME NoneAssumption == None \notin Clients
ASSUME SizesAssumption ==
    {QueueSize, Header, Body, Window} \subseteq Nat \ {0} /\ MaxFrames \in Nat

VARIABLES made,      \* history: frames the acquisition thread has broadcast
          queue,     \* _frame_queue
          full,      \* history: frames dropped because the queue was full
          dropped,   \* _total_dropped_frames
          sentCount, \* _total_frames_sent
          taken,     \* history: frames the sender has taken
          sending,   \* the frame being sent, 0 if none
          targets,   \* clients the current pass has still to serve
          target,    \* the client send() is working on, or None
          copied,    \* units of the packet send() has passed on
          failed,    \* clients_to_remove
          connected, \* _clients
          conn,      \* each connection: "new", "open", "ended" by the server,
                     \* or "closed" by the client
          wire,      \* units sent and not yet received
          buf,       \* what the receiver has of the present header or body
          expect,    \* units the present body has; 0 while reading a header
          head,      \* the header units of the present body
          delivered, \* history: frames handed to put_frame
          torn,      \* history: connections where a timeout discarded units
          server     \* "up", "stopping" (in stop()) or "down"

queueVars == <<made, queue, full>>
sendVars == <<dropped, sentCount, taken, sending, targets, target, copied, failed>>
netVars == <<connected, conn, wire>>
recvVars == <<buf, expect, head, delivered, torn>>
vars == <<made, queue, full, dropped, sentCount, taken, sending, targets, target,
          copied, failed, connected, conn, wire, buf, expect, head, delivered,
          torn, server>>

PacketLength == Header + Body
Packet(f) == [i \in 1 .. PacketLength |-> [frame |-> f, place |-> i]]

Init ==
    /\ made = 0 /\ queue = <<>> /\ full = 0
    /\ dropped = 0 /\ sentCount = 0 /\ taken = 0
    /\ sending = 0 /\ targets = {} /\ target = None /\ copied = 0 /\ failed = {}
    /\ connected = {}
    /\ conn = [c \in Clients |-> "new"]
    /\ wire = [c \in Clients |-> <<>>]
    /\ buf = [c \in Clients |-> <<>>]
    /\ expect = [c \in Clients |-> 0]
    /\ head = [c \in Clients |-> <<>>]
    /\ delivered = [c \in Clients |-> <<>>]
    /\ torn = {}
    /\ server = "up"
-----------------------------------------------------------------------------
(* The acquisition thread: broadcast_frame never waits. *)

HasRoom == Len(queue) < QueueSize

Broadcast ==
    /\ server = "up" /\ made < MaxFrames
    /\ made' = made + 1
    /\ IF HasRoom
         THEN queue' = Append(queue, made') /\ UNCHANGED <<full, dropped>>
         ELSE /\ full' = full + 1
              /\ dropped' = dropped + 1
              /\ UNCHANGED queue
    /\ UNCHANGED <<sentCount, taken, sending, targets, target, copied, failed,
                   netVars, recvVars, server>>
-----------------------------------------------------------------------------
(* The accept thread.  The sender holds _clients_lock for a whole pass. *)

LockFree == sending = 0

Accept(c) ==
    /\ server = "up" /\ LockFree
    /\ conn[c] = "new"
    /\ conn' = [conn EXCEPT ![c] = "open"]
    /\ connected' = connected \cup {c}
    /\ UNCHANGED <<queueVars, sendVars, wire, recvVars, server>>
-----------------------------------------------------------------------------
(* The sender thread: _send_loop. *)

PeekFrame ==   \* faulty: the frame stays in the queue
    /\ sending = 0 /\ queue # <<>>
    /\ sending' = Head(queue)
    /\ taken' = taken + 1
    /\ targets' = connected
    /\ UNCHANGED <<queueVars, dropped, sentCount, target, copied, failed,
                   netVars, recvVars, server>>

\* Take the oldest frame and begin a pass over the clients.
TakeFrame ==
    /\ sending = 0 /\ queue # <<>>
    /\ sending' = Head(queue)
    /\ queue' = Tail(queue)
    /\ taken' = taken + 1
    /\ targets' = connected
    /\ UNCHANGED <<made, full, dropped, sentCount, target, copied, failed,
                   netVars, recvVars, server>>

\* select(): begin to send to a writable client; give a client up for this
\* frame when there is no room for half a second.
Select(c) ==
    /\ sending # 0 /\ target = None /\ c \in targets /\ conn[c] = "open"
    /\ targets' = targets \ {c}
    /\ IF Len(wire[c]) < Window
         THEN target' = c /\ copied' = 0 /\ UNCHANGED dropped
         ELSE dropped' = dropped + 1 /\ UNCHANGED <<target, copied>>
    /\ UNCHANGED <<queueVars, sentCount, taken, sending, failed, netVars, recvVars, server>>

CopyWhatFits ==   \* faulty: a non-blocking send() leaves the rest of the packet
    /\ target # None /\ conn[target] = "open"
    /\ Len(wire[target]) < Window
    /\ wire' = [wire EXCEPT ![target] = Append(@, Packet(sending)[copied + 1])]
    /\ copied' = copied + 1
    /\ IF copied' = PacketLength \/ Len(wire'[target]) = Window
         THEN target' = None /\ sentCount' = sentCount + 1
         ELSE UNCHANGED <<target, sentCount>>
    /\ UNCHANGED <<queueVars, dropped, taken, sending, targets, failed,
                   connected, conn, recvVars, server>>

\* send() on a blocking socket passes the packet on as room comes up.
Copy ==
    /\ target # None /\ conn[target] = "open"
    /\ Len(wire[target]) < Window
    /\ wire' = [wire EXCEPT ![target] = Append(@, Packet(sending)[copied + 1])]
    /\ copied' = copied + 1
    /\ IF copied' = PacketLength
         THEN target' = None /\ sentCount' = sentCount + 1
         ELSE UNCHANGED <<target, sentCount>>
    /\ UNCHANGED <<queueVars, dropped, taken, sending, targets, failed,
                   connected, conn, recvVars, server>>

\* The peer closes during send(): a short count, or an exception when
\* nothing was passed on.
SendCut ==
    /\ target # None /\ conn[target] = "closed"
    /\ IF copied > 0
         THEN dropped' = dropped + 1 /\ UNCHANGED failed
         ELSE failed' = failed \cup {target} /\ UNCHANGED dropped
    /\ target' = None
    /\ UNCHANGED <<queueVars, sentCount, taken, sending, targets, copied,
                   netVars, recvVars, server>>

SendRetries(c) ==   \* faulty: the pass does not go on after an exception
    /\ sending # 0 /\ target = None /\ c \in targets /\ conn[c] = "closed"
    /\ failed' = failed \cup {c}
    /\ UNCHANGED <<queueVars, dropped, sentCount, taken, sending, targets, target,
                   copied, netVars, recvVars, server>>

\* The peer had closed before: setsockopt, select or send raises.
SendRaises(c) ==
    /\ sending # 0 /\ target = None /\ c \in targets /\ conn[c] = "closed"
    /\ targets' = targets \ {c}
    /\ failed' = failed \cup {c}
    /\ UNCHANGED <<queueVars, dropped, sentCount, taken, sending, target, copied,
                   netVars, recvVars, server>>

\* The pass is over: forget the failed clients and count the frame.
FinishPass ==
    /\ sending # 0 /\ target = None /\ targets = {}
    /\ connected' = connected \ failed
    /\ failed' = {}
    /\ sentCount' = sentCount + 1
    /\ sending' = 0
    /\ UNCHANGED <<queueVars, dropped, taken, targets, target, copied, conn, wire,
                   recvVars, server>>

Sender ==
    \/ TakeFrame
    \/ \E c \in Clients : Select(c) \/ SendRaises(c)
    \/ Copy
    \/ SendCut
    \/ FinishPass
-----------------------------------------------------------------------------
(* stop(): no more frames and clients are taken; after its joins, which    *)
(* time out, the connections are closed under the lock.  What is on the    *)
(* wire can still be received.                                             *)

StopServer ==
    /\ server = "up"
    /\ server' = "stopping"
    /\ UNCHANGED <<queueVars, sendVars, netVars, recvVars>>

CloseClients ==
    /\ server = "stopping" /\ LockFree
    /\ conn' = [c \in Clients |-> IF c \in connected /\ conn[c] = "open"
                            THEN "ended" ELSE conn[c]]
    /\ connected' = {}
    /\ server' = "down"
    /\ UNCHANGED <<queueVars, sendVars, wire, recvVars>>
-----------------------------------------------------------------------------
(* The receiver thread: _tcp_recv_loop.  Units are received one at a time, *)
(* as a recv() may return any number of the bytes asked for.               *)

ReadingHeader(c) == head[c] = <<>>

\* The length a header names: the body's if it is a header, any other if the
\* bytes are something else.
Lengths(units) ==
    IF \A i \in 1 .. Header : units[i] = [frame |-> units[1].frame, place |-> i]
    THEN {Body} ELSE 0 .. PacketLength

\* The frame is complete: decode it and put it into the frame queue.
Deliver(c, header, body) ==
    delivered' = [delivered EXCEPT ![c] = Append(@, [header |-> header, body |-> body])]

Consume(c) ==
    /\ conn[c] \in {"open", "ended"} /\ wire[c] # <<>>
    /\ wire' = [wire EXCEPT ![c] = Tail(@)]

ReceiveHeader(c) ==
    /\ ReadingHeader(c) /\ Consume(c)
    /\ LET units == Append(buf[c], Head(wire[c]))
       IN  IF Len(units) < Header
             THEN /\ buf' = [buf EXCEPT ![c] = units]
                  /\ UNCHANGED <<head, expect, delivered>>
             ELSE \E n \in Lengths(units) :
                  /\ buf' = [buf EXCEPT ![c] = <<>>]
                  /\ IF n = 0
                       THEN Deliver(c, units, <<>>) /\ UNCHANGED <<head, expect>>
                       ELSE /\ head' = [head EXCEPT ![c] = units]
                            /\ expect' = [expect EXCEPT ![c] = n]
                            /\ UNCHANGED delivered
    /\ UNCHANGED <<queueVars, sendVars, connected, conn, torn, server>>

NextHeader(c) ==
    /\ buf' = [buf EXCEPT ![c] = <<>>]
    /\ head' = [head EXCEPT ![c] = <<>>]
    /\ expect' = [expect EXCEPT ![c] = 0]

ReceiveBody(c) ==
    /\ ~ReadingHeader(c) /\ Consume(c)
    /\ LET units == Append(buf[c], Head(wire[c]))
       IN  IF Len(units) < expect[c]
             THEN /\ buf' = [buf EXCEPT ![c] = units]
                  /\ UNCHANGED <<head, expect, delivered>>
             ELSE Deliver(c, head[c], units) /\ NextHeader(c)
    /\ UNCHANGED <<queueVars, sendVars, connected, conn, torn, server>>

\* socket.timeout: a header begun is thrown away; so is a body, and the
\* loop goes on with what it takes for the next header.
ReceiveTimeout(c) ==
    /\ conn[c] = "open" /\ wire[c] = <<>>
    /\ ReadingHeader(c) => buf[c] # <<>>
    /\ NextHeader(c)
    /\ torn' = torn \cup {c}
    /\ UNCHANGED <<queueVars, sendVars, netVars, delivered, server>>

\* disconnect(): the Platform closes the socket.
Disconnect(c) ==
    /\ conn[c] \in {"open", "ended"}
    /\ conn' = [conn EXCEPT ![c] = "closed"]
    /\ wire' = [wire EXCEPT ![c] = <<>>]
    /\ UNCHANGED <<queueVars, sendVars, connected, recvVars, server>>

Receive(c) == ReceiveHeader(c) \/ ReceiveBody(c)
-----------------------------------------------------------------------------
Next ==
    \/ Broadcast
    \/ Sender
    \/ StopServer
    \/ CloseClients
    \/ \E c \in Clients :
          \/ Accept(c)
          \/ Receive(c)
          \/ ReceiveTimeout(c)
          \/ Disconnect(c)

Spec == Init /\ [][Next]_vars

\* The sender thread keeps running, stop() takes the lock when it is free, and
\* receivers read what has arrived, their loop has no other wait.  No frame has
\* to be acquired, no client to connect, no timeout to fire.
Fairness ==
    /\ WF_vars(Sender)
    /\ WF_vars(CloseClients)
    /\ \A c \in Clients : WF_vars(Receive(c))

FairSpec == Spec /\ Fairness
-----------------------------------------------------------------------------
Units == [frame : Nat, place : 1 .. PacketLength]

(* Type invariant. *)
TypeOK ==
    /\ made \in Nat /\ full \in Nat /\ taken \in Nat
    /\ dropped \in Nat /\ sentCount \in Nat
    /\ queue \in Seq(Nat) /\ Len(queue) <= QueueSize
    /\ sending \in Nat
    /\ targets \subseteq Clients /\ failed \subseteq Clients /\ connected \subseteq Clients
    /\ target \in Clients \cup {None}
    /\ copied \in 0 .. PacketLength
    /\ conn \in [Clients -> {"new", "open", "ended", "closed"}]
    /\ wire \in [Clients -> Seq(Units)]
    /\ \A c \in Clients : Len(wire[c]) <= Window
    /\ buf \in [Clients -> Seq(Units)] /\ head \in [Clients -> Seq(Units)]
    /\ expect \in [Clients -> 0 .. PacketLength]
    /\ torn \subseteq Clients
    /\ server \in {"up", "stopping", "down"}

(* No frame vanishes inside the collector: each one was refused by a full  *)
(* queue, waits in it, or was taken by the sender, and the sender takes    *)
(* them in the order they were acquired (broadcast_frame 141-174).         *)
FramesAccounted ==
    /\ TypeOK
    /\ made = full + Len(queue) + taken
    /\ \A i, j \in 1 .. Len(queue) : i < j => queue[i] < queue[j]
    /\ sending # 0 /\ queue # <<>> => sending < queue[1]

Intact(d) ==
    LET f == d.header[1].frame IN d.header \o d.body = Packet(f)

(* As long as the receiver had no timeout within a frame, every frame it   *)
(* delivers is one frame of the collector, whole and in order, although    *)
(* the sender drops frames per client and packets arrive in pieces         *)
(* (_send_loop 176-265, _tcp_recv_loop 141-188).                           *)
DeliveredInOrder ==
    \A c \in Clients \ torn :
        /\ \A i \in 1 .. Len(delivered[c]) : Intact(delivered[c][i])
        /\ \A i, j \in 1 .. Len(delivered[c]) : i < j =>
              delivered[c][i].header[1].frame < delivered[c][j].header[1].frame

(* With receivers that read, the sender gets through every pass, a frame   *)
(* in the queue is taken, and stop() returns.                              *)
SenderProgress ==
    /\ (sending # 0) ~> (sending = 0)
    /\ (queue # <<>>) ~> (queue = <<>>)
    /\ (server = "stopping") ~> (server = "down")
=============================================================================
