----------------------------- MODULE ChannelProofs -----------------------------
(***************************************************************************)
(* What holds of the two data channels, for any number of clients and      *)
(* frames: of TCP for any queue size, packet and window, of UDP for any    *)
(* sizes of frames and any number of faults of the network.  They share no *)
(* variable and are proved about one after the other.                      *)
(***************************************************************************)
EXTENDS MCDataChannels, SequenceTheorems, TLAPS

(***************************************************************************)
(* TCP: no frame vanishes inside the collector, and what a receiver        *)
(* delivers are whole frames in order.                                     *)
(*                                                                         *)
(* That the queue is in order is no inductive fact: a new frame goes to    *)
(* its end, which is right because no frame in the queue or under way is   *)
(* newer than the last one broadcast (NewestIsLast).                       *)
(*                                                                         *)
(* That frames are delivered whole rests on what lies between the sender   *)
(* and put_frame: the header read, the units read of the body and the      *)
(* units on the wire are one stream, which begins with a packet's first    *)
(* unit, has no gap (Gapless) and ends where the sender stands (EndInv).   *)
(* Everything in it is older than what the sender has still to send to     *)
(* the client, and younger than what was delivered (OrderInv).             *)
(***************************************************************************)

\* The client being served has not got the whole packet.
CopyInv == target # None => copied < PacketLength

Accounts ==
    /\ made = full + Len(queue) + taken
    /\ \A i, j \in 1 .. Len(queue) : i < j => queue[i] < queue[j]
    /\ sending # 0 /\ queue # <<>> => sending < queue[1]

NewestIsLast ==
    /\ sending <= made
    /\ \A i \in 1 .. Len(queue) : queue[i] <= made

IInv == TypeOK /\ CopyInv /\ Accounts /\ NewestIsLast
-----------------------------------------------------------------------------
LEMMA PacketSizes == /\ PacketLength \in Nat /\ PacketLength > 0 /\ Body \in 0 .. PacketLength
                     /\ QueueSize \in Nat \ {0} /\ Window \in Nat \ {0}
BY SizesAssumption DEF PacketLength

LEMMA InitInv == Init => IInv
<1> SUFFICES ASSUME Init PROVE IInv
  OBVIOUS
<1>1. queue \in Seq(Nat) /\ queue = <<>> /\ Len(queue) = 0
  BY EmptySeq DEF Init
<1>2. <<>> \in Seq(Units) /\ Len(<<>>) = 0
  BY EmptySeq
<1>3. TypeOK
  BY <1>1, <1>2, PacketSizes DEF Init, TypeOK
<1>4. CopyInv /\ Accounts /\ NewestIsLast
  BY <1>1 DEF Init, CopyInv, Accounts, NewestIsLast
<1> QED
  BY <1>3, <1>4 DEF IInv


LEMMA AppendUnit ==
  ASSUME NEW units \in Seq(Units), NEW u \in Units
  PROVE  /\ Append(units, u) \in Seq(Units)
         /\ Len(Append(units, u)) = Len(units) + 1
BY DEF Units

LEMMA UnitOfPacket ==
  ASSUME NEW f \in Nat, NEW i \in 1 .. PacketLength
  PROVE  Packet(f)[i] \in Units
BY DEF Packet, Units

\* A number beyond all others goes to the end of an increasing sequence.
LEMMA AppendIncreases ==
  ASSUME NEW q \in Seq(Nat), NEW n \in Nat,
         \A i, j \in 1 .. Len(q) : i < j => q[i] < q[j],
         \A i \in 1 .. Len(q) : q[i] <= n
  PROVE  LET p == Append(q, n + 1)
         IN  /\ p \in Seq(Nat) /\ Len(p) = Len(q) + 1
             /\ \A i, j \in 1 .. Len(p) : i < j => p[i] < p[j]
             /\ \A i \in 1 .. Len(p) : p[i] <= n + 1
             /\ p[1] = IF q = <<>> THEN n + 1 ELSE q[1]
<1> DEFINE p == Append(q, n + 1)
<1>1. /\ p \in Seq(Nat) /\ Len(p) = Len(q) + 1 /\ Len(q) \in Nat
      /\ \A i \in 1 .. Len(q) : p[i] = q[i] /\ q[i] \in Nat
      /\ p[Len(q) + 1] = n + 1
  OBVIOUS
<1> HIDE DEF p
<1>2. \A i \in 1 .. Len(p) : i \in 1 .. Len(q) \/ i = Len(q) + 1
  BY <1>1
<1>3. \A i, j \in 1 .. Len(p) : i < j => p[i] < p[j]
  <2> SUFFICES ASSUME NEW i \in 1 .. Len(p), NEW j \in 1 .. Len(p), i < j
               PROVE  p[i] < p[j]
    OBVIOUS
  <2>1. i \in 1 .. Len(q)
    BY <1>1
  <2>2. CASE j \in 1 .. Len(q)
    BY <1>1, <2>1, <2>2
  <2>3. CASE j = Len(q) + 1
    BY <1>1, <2>1, <2>3, SMTT(30)
  <2> QED
    BY <1>2, <2>2, <2>3
<1>4. \A i \in 1 .. Len(p) : p[i] <= n + 1
  <2> SUFFICES ASSUME NEW i \in 1 .. Len(p)
               PROVE  p[i] <= n + 1
    OBVIOUS
  <2>1. i \in 1 .. Len(q) => p[i] \in Nat /\ p[i] <= n
    BY <1>1
  <2> QED
    BY <1>1, <1>2, <2>1
<1>5. p[1] = IF q = <<>> THEN n + 1 ELSE q[1]
  <2>1. q = <<>> => Len(q) = 0
    OBVIOUS
  <2>2. q # <<>> => 1 \in 1 .. Len(q)
    OBVIOUS
  <2> QED
    BY <1>1, <2>1, <2>2
<1> QED
  BY <1>1, <1>3, <1>4, <1>5 DEF p

LEMMA ReceiveKeeps ==
  ASSUME IInv, NEW c \in Clients, Receive(c)
  PROVE  IInv'
<1> USE DEF IInv, TypeOK
<1> DEFINE units == Append(buf[c], Head(wire[c]))
<1>1. wire[c] \in Seq(Units) /\ wire[c] # <<>> /\ wire' = [wire EXCEPT ![c] = Tail(wire[c])]
  BY DEF Receive, ReceiveHeader, ReceiveBody, Consume
<1>2. /\ Head(wire[c]) \in Units /\ Tail(wire[c]) \in Seq(Units)
      /\ Len(Tail(wire[c])) = Len(wire[c]) - 1 /\ Len(wire[c]) \in Nat
  BY <1>1
<1>3. units \in Seq(Units) /\ <<>> \in Seq(Units)
  BY <1>2, AppendUnit, EmptySeq
<1> HIDE DEF units
<1>4. /\ wire' \in [Clients -> Seq(Units)]
      /\ \A k \in Clients : Len(wire'[k]) <= Window
  BY <1>1, <1>2, PacketSizes
<1>5. /\ buf' \in [Clients -> Seq(Units)] /\ head' \in [Clients -> Seq(Units)]
      /\ expect' \in [Clients -> 0 .. PacketLength]
  <2>1. CASE ReceiveHeader(c)
    <3>1. \A n \in Lengths(units) : n \in 0 .. PacketLength
      BY PacketSizes DEF Lengths
    <3> QED
      BY <1>3, <2>1, <3>1 DEF ReceiveHeader, units
  <2>2. CASE ReceiveBody(c)
    <3>1. \/ buf' = [buf EXCEPT ![c] = units] /\ UNCHANGED <<head, expect>>
          \/ NextHeader(c)
      BY <2>2 DEF ReceiveBody, units
    <3>2. buf \in [Clients -> Seq(Units)] /\ head \in [Clients -> Seq(Units)]
      OBVIOUS
    <3>3. 0 \in 0 .. PacketLength /\ expect \in [Clients -> 0 .. PacketLength]
      BY PacketSizes
    <3>4. CASE buf' = [buf EXCEPT ![c] = units] /\ UNCHANGED <<head, expect>>
      BY <1>3, <3>2, <3>3, <3>4
    <3>5. CASE NextHeader(c)
      BY <1>3, <3>2, <3>3, <3>5 DEF NextHeader
    <3> QED
      BY <3>1, <3>4, <3>5
  <2> QED
    BY <2>1, <2>2 DEF Receive
<1>6. UNCHANGED <<queueVars, sendVars, connected, conn, torn, server>>
  BY DEF Receive, ReceiveHeader, ReceiveBody
<1> QED
  BY <1>4, <1>5, <1>6 DEF queueVars, sendVars, CopyInv, Accounts, NewestIsLast

LEMMA SenderKeeps == IInv /\ Sender => IInv'
<1> SUFFICES ASSUME IInv, Sender
             PROVE  IInv'
  OBVIOUS
<1> USE PacketSizes DEF IInv, TypeOK, queueVars, netVars, recvVars
<1>1. CASE TakeFrame
  <2>1. /\ Len(queue) \in Nat /\ Len(queue) > 0
        /\ Head(queue) = queue[1] /\ queue[1] \in Nat
        /\ Tail(queue) \in Seq(Nat) /\ Len(Tail(queue)) = Len(queue) - 1
        /\ \A i \in 1 .. Len(Tail(queue)) : Tail(queue)[i] = queue[i + 1]
    BY <1>1 DEF TakeFrame
  <2>2. queue' = Tail(queue) /\ sending' = queue[1] /\ taken' = taken + 1
    BY <1>1, <2>1 DEF TakeFrame
  <2>3. Accounts'
    <3>1. made' = full' + Len(queue') + taken'
      BY <1>1, <2>1, <2>2 DEF TakeFrame, Accounts
    <3>2. \A i, j \in 1 .. Len(queue') : i < j => queue'[i] < queue'[j]
      BY <2>1, <2>2 DEF Accounts
    <3>3. queue' # <<>> => sending' < queue'[1]
      <4> SUFFICES ASSUME queue' # <<>> PROVE sending' < queue'[1]
        OBVIOUS
      <4>1. 1 \in 1 .. Len(queue')
        BY <2>1, <2>2
      <4>2. queue'[1] = queue[2] /\ 1 \in 1 .. Len(queue) /\ 2 \in 1 .. Len(queue)
        BY <2>1, <2>2, <4>1
      <4> QED
        BY <2>2, <4>2 DEF Accounts
    <3> QED
      BY <3>1, <3>2, <3>3 DEF Accounts
  <2>4. NewestIsLast'
    BY <1>1, <2>1, <2>2 DEF TakeFrame, NewestIsLast
  <2>5. TypeOK' /\ CopyInv'
    BY <1>1, <2>1, <2>2 DEF TakeFrame, CopyInv
  <2> QED
    BY <2>3, <2>4, <2>5
<1>2. ASSUME NEW c \in Clients, Select(c) \/ SendRaises(c)
      PROVE  IInv'
  <2>1. UNCHANGED <<queueVars, sentCount, taken, sending, netVars, recvVars, server>>
    BY <1>2 DEF Select, SendRaises
  <2>2. /\ targets' \subseteq Clients /\ failed' \subseteq Clients
        /\ target' \in Clients \cup {None} /\ copied' \in 0 .. PacketLength
        /\ dropped' \in Nat /\ CopyInv'
    BY <1>2, SMTT(30) DEF Select, SendRaises, CopyInv
  <2> QED
    BY <2>1, <2>2 DEF Accounts, NewestIsLast
<1>3. CASE Copy
  <2>1. Packet(sending)[copied + 1] \in Units
    BY <1>3, UnitOfPacket DEF Copy, CopyInv
  <2>2. target \in Clients /\ wire[target] \in Seq(Units)
    BY <1>3 DEF Copy
  <2>3. /\ Append(wire[target], Packet(sending)[copied + 1]) \in Seq(Units)
        /\ Len(Append(wire[target], Packet(sending)[copied + 1])) = Len(wire[target]) + 1
        /\ Len(wire[target]) \in Nat
    BY <2>1, <2>2, AppendUnit
  <2>4. /\ wire' \in [Clients -> Seq(Units)]
        /\ \A k \in Clients : Len(wire'[k]) <= Window
    BY <1>3, <2>2, <2>3 DEF Copy
  <2>5. /\ copied' \in 0 .. PacketLength /\ sentCount' \in Nat
        /\ target' \in Clients \cup {None} /\ CopyInv'
    BY <1>3 DEF Copy, CopyInv
  <2>6. UNCHANGED <<queueVars, dropped, taken, sending, targets, failed, connected, conn,
                    recvVars, server>>
    BY <1>3 DEF Copy
  <2> QED
    BY <2>4, <2>5, <2>6 DEF Accounts, NewestIsLast
<1>4. CASE SendCut
  BY <1>4, SMTT(30) DEF SendCut, CopyInv, Accounts, NewestIsLast
<1>5. CASE FinishPass
  BY <1>5 DEF FinishPass, CopyInv, Accounts, NewestIsLast
<1> QED
  BY <1>1, <1>2, <1>3, <1>4, <1>5 DEF Sender

LEMMA BroadcastKeeps == IInv /\ Broadcast => IInv'
<1> SUFFICES ASSUME IInv, Broadcast
             PROVE  IInv'
  OBVIOUS
<1> USE PacketSizes DEF IInv, TypeOK, netVars, recvVars
<1>1. CASE HasRoom
  <2>1. /\ queue' = Append(queue, made + 1) /\ made' = made + 1
        /\ UNCHANGED <<full, taken, sending, dropped, target, copied>>
    BY <1>1 DEF Broadcast
  <2>2. /\ queue' \in Seq(Nat) /\ Len(queue') = Len(queue) + 1
        /\ \A i, j \in 1 .. Len(queue') : i < j => queue'[i] < queue'[j]
        /\ \A i \in 1 .. Len(queue') : queue'[i] <= made'
        /\ queue'[1] = IF queue = <<>> THEN made' ELSE queue[1]
    BY <2>1, AppendIncreases DEF Accounts, NewestIsLast
  <2>3. Accounts'
    <3>1. sending' # 0 => sending' < queue'[1]
      BY <2>1, <2>2 DEF Accounts, NewestIsLast
    <3>2. Len(queue) \in Nat
      OBVIOUS
    <3> QED
      BY <2>1, <2>2, <3>1, <3>2, SMTT(30) DEF Accounts
  <2>4. NewestIsLast'
    BY <2>1, <2>2 DEF NewestIsLast
  <2>5. TypeOK' /\ CopyInv'
    <3>1. Len(queue') <= QueueSize
      BY <1>1, <2>2 DEF HasRoom
    <3> QED
      BY <2>1, <2>2, <3>1 DEF Broadcast, CopyInv
  <2> QED
    BY <2>3, <2>4, <2>5
<1>2. CASE ~HasRoom
  <2>1. /\ UNCHANGED <<queue, taken, sending, copied, target>>
        /\ made' = made + 1 /\ full' = full + 1 /\ dropped' = dropped + 1
    BY <1>2 DEF Broadcast
  <2>2. \A i \in 1 .. Len(queue) : queue[i] \in Nat
    OBVIOUS
  <2>3. Accounts' /\ NewestIsLast'
    BY <2>1, <2>2 DEF Accounts, NewestIsLast
  <2> QED
    BY <1>2, <2>1, <2>3 DEF Broadcast, CopyInv
<1> QED
  BY <1>1, <1>2

LEMMA NextInv == IInv /\ [Next]_vars => IInv'
<1> SUFFICES ASSUME IInv, [Next]_vars
             PROVE  IInv'
  OBVIOUS
<1> USE DEF IInv, TypeOK, queueVars, sendVars, netVars, recvVars, CopyInv, Accounts,
            NewestIsLast
<1>1. CASE StopServer \/ CloseClients
  BY <1>1 DEF StopServer, CloseClients
<1>2. ASSUME NEW c \in Clients, Accept(c)
      PROVE  IInv'
  BY <1>2 DEF Accept
<1>3. ASSUME NEW c \in Clients, ReceiveTimeout(c) \/ Disconnect(c)
      PROVE  IInv'
  <2>1. <<>> \in Seq(Units) /\ Len(<<>>) = 0
    BY EmptySeq
  <2>2. CASE ReceiveTimeout(c)
    BY <2>1, <2>2, PacketSizes, SMTT(30) DEF ReceiveTimeout, NextHeader
  <2>3. CASE Disconnect(c)
    BY <2>1, <2>3, PacketSizes DEF Disconnect
  <2> QED
    BY <1>3, <2>2, <2>3
<1>4. CASE UNCHANGED vars
  BY <1>4 DEF vars
<1> QED
  BY <1>1, <1>2, <1>3, <1>4, BroadcastKeeps, SenderKeeps, ReceiveKeeps DEF Next
-----------------------------------------------------------------------------
(* Each frame was refused by a full queue, waits in it, or was taken by    *)
(* the sender, and the sender takes them in the order they were acquired   *)
(* (broadcast_frame 141-174).                                              *)
THEOREM FramesAccountedHolds == Spec => []FramesAccounted
<1>1. IInv => FramesAccounted
  BY DEF IInv, Accounts, FramesAccounted
<1> QED
  BY InitInv, NextInv, <1>1, PTL DEF Spec
-----------------------------------------------------------------------------
\* The units of a connection that are not delivered yet, oldest first.
Stream(c) == head[c] \o buf[c] \o wire[c]

\* v comes d units after u: in the same packet, or in a later one with a greater
\* number, and then the rest of u's packet lies between them.
Apart(u, v, d) ==
    \/ u.frame = v.frame /\ v.place = u.place + d
    \/ u.frame < v.frame /\ d >= PacketLength - u.place + v.place

\* A stream begins with the first unit of a packet, and no unit is missing.
Gapless(s) ==
    /\ s # <<>> => s[1].place = 1
    /\ \A i, j \in 1 .. Len(s) : i < j => Apart(s[i], s[j], j - i)

\* It ends where the sender stands.
EndInv(c) ==
    LET s == Stream(c) IN
    IF target = c /\ copied > 0
    THEN s # <<>> /\ s[Len(s)] = [frame |-> sending, place |-> copied]
    ELSE s # <<>> => s[Len(s)].place = PacketLength

\* The receiver knows how much of the packet it has.
ReaderInv(c) ==
    \/ head[c] = <<>> /\ Len(buf[c]) < Header
    \/ Len(head[c]) = Header /\ expect[c] = Body /\ Len(buf[c]) < Body

FrameOf(d) == d.header[1].frame

\* Every frame on the way, s, or delivered, d, is older than f.
Older(s, d, f) ==
    /\ \A i \in 1 .. Len(s) : s[i].frame \in 1 .. f - 1
    /\ \A k \in 1 .. Len(d) : FrameOf(d[k]) \in 1 .. f - 1

\* A delivered frame is older than what is on the way.
Follows(s, d) ==
    \A k \in 1 .. Len(d) : \A i \in 1 .. Len(s) : FrameOf(d[k]) < s[i].frame

OrderInv(c) ==
    /\ Older(Stream(c), delivered[c], made + 1)
    /\ \A i \in 1 .. Len(queue) : Older(Stream(c), delivered[c], queue[i])
    /\ sending # 0 => Older(Stream(c), delivered[c], sending + 1)
    /\ c \in targets \/ (target = c /\ copied = 0) => Older(Stream(c), delivered[c], sending)
    /\ Follows(Stream(c), delivered[c])

\* The delivered frames d are whole and in order.
InOrder(d) ==
    /\ \A i \in 1 .. Len(d) : Intact(d[i])
    /\ \A i, j \in 1 .. Len(d) : i < j => FrameOf(d[i]) < FrameOf(d[j])

ClientInv(c) == Gapless(Stream(c)) /\ EndInv(c) /\ ReaderInv(c) /\ OrderInv(c)

SenderInv ==
    /\ target # None \/ targets # {} => sending # 0
    /\ target \notin targets
    /\ \A i \in 1 .. Len(queue) : queue[i] # 0

Frames == [header : Seq(Units), body : Seq(Units)]

ChannelInv ==
    /\ delivered \in [Clients -> Seq(Frames)]
    /\ SenderInv
    /\ \A c \in Clients \ torn : conn[c] # "closed" => ClientInv(c)
    /\ \A c \in Clients \ torn : InOrder(delivered[c])
-----------------------------------------------------------------------------
\* A distance of units and the next unit.
LEMMA ApartAdds ==
  ASSUME NEW x \in Units, NEW y \in Units, NEW z \in Units, NEW d \in Nat,
         Apart(x, y, d), Apart(y, z, 1)
  PROVE  Apart(x, z, d + 1)
<1>1. /\ x.frame \in Nat /\ y.frame \in Nat /\ z.frame \in Nat
      /\ x.place \in 1 .. PacketLength /\ y.place \in 1 .. PacketLength
      /\ z.place \in 1 .. PacketLength
  BY DEF Units
<1>2. PacketLength \in Nat
  BY PacketSizes
<1> QED
  BY <1>1, <1>2 DEF Apart

LEMMA UnitsAssociative ==
  \A x, y, z \in Seq(Units) : (x \o y) \o z = x \o (y \o z)
BY ConcatAssociative

\* Reading a unit does not change the stream.
LEMMA ReadKeepsStream ==
  ASSUME NEW h \in Seq(Units), NEW b \in Seq(Units), NEW w \in Seq(Units), w # <<>>
  PROVE  /\ (h \o Append(b, Head(w))) \o Tail(w) = (h \o b) \o w
         /\ (Append(b, Head(w)) \o <<>>) \o Tail(w) = (<<>> \o b) \o w
<1> DEFINE u == Append(b, Head(w))
<1>1. Len(w) \in Nat /\ Len(w) > 0 /\ Head(w) = w[1] /\ Head(w) \in Units
  OBVIOUS
<1>2. /\ Tail(w) \in Seq(Units) /\ Len(Tail(w)) = Len(w) - 1
      /\ \A i \in 1 .. Len(Tail(w)) : Tail(w)[i] = w[i + 1]
  OBVIOUS
<1>3. /\ u \in Seq(Units) /\ Len(u) = Len(b) + 1 /\ Len(b) \in Nat
      /\ \A i \in 1 .. Len(b) : u[i] = b[i]
      /\ u[Len(b) + 1] = w[1]
  BY <1>1
<1> HIDE DEF u
<1>4. u \o Tail(w) = b \o w
  <2> DEFINE x == u \o Tail(w)
             y == b \o w
  <2>1. /\ x \in Seq(Units) /\ Len(x) = Len(b) + Len(w)
        /\ \A i \in 1 .. Len(b) + Len(w) :
              x[i] = IF i <= Len(b) + 1 THEN u[i] ELSE Tail(w)[i - (Len(b) + 1)]
    <3>1. /\ x \in Seq(Units) /\ Len(x) = Len(u) + Len(Tail(w))
          /\ \A i \in 1 .. Len(u) + Len(Tail(w)) :
                x[i] = IF i <= Len(u) THEN u[i] ELSE Tail(w)[i - Len(u)]
      BY <1>2, <1>3, ConcatProperties
    <3>2. Len(u) + Len(Tail(w)) = Len(b) + Len(w)
      BY <1>1, <1>2, <1>3
    <3> HIDE DEF x
    <3> QED
      BY <1>3, <3>1, <3>2
  <2>2. /\ y \in Seq(Units) /\ Len(y) = Len(b) + Len(w)
        /\ \A i \in 1 .. Len(b) + Len(w) :
              y[i] = IF i <= Len(b) THEN b[i] ELSE w[i - Len(b)]
    BY ConcatProperties
  <2> HIDE DEF x, y
  <2>3. \A i \in 1 .. Len(x) : x[i] = y[i]
    <3> SUFFICES ASSUME NEW i \in 1 .. Len(b) + Len(w)
                 PROVE  x[i] = y[i]
      BY <2>1
    <3>1. CASE i <= Len(b)
      BY <1>1, <1>3, <2>1, <2>2, <3>1, SMTT(30)
    <3>2. CASE i = Len(b) + 1
      <4>1. x[i] = u[i]
        BY <1>3, <2>1, <3>2
      <4>2. y[i] = w[i - Len(b)] /\ i - Len(b) = 1
        BY <1>3, <2>2, <3>2
      <4> QED
        BY <1>3, <3>2, <4>1, <4>2
    <3>3. CASE i > Len(b) + 1
      <4>1. /\ i - (Len(b) + 1) \in 1 .. Len(Tail(w))
            /\ (i - (Len(b) + 1)) + 1 = i - Len(b)
        BY <1>1, <1>2, <1>3, <3>3
      <4> QED
        BY <1>2, <1>3, <2>1, <2>2, <3>3, <4>1
    <3> QED
      BY <1>3, <3>1, <3>2, <3>3
  <2>4. x = y
    BY <2>1, <2>2, <2>3, SeqEqual
  <2> QED
    BY <2>4 DEF x, y
<1>5. (h \o u) \o Tail(w) = (h \o b) \o w
  <2>1. u \in Seq(Units) /\ Tail(w) \in Seq(Units)
    BY <1>2, <1>3
  <2>2. \A x, y \in Seq(Units) : (h \o x) \o y = h \o (x \o y)
    BY UnitsAssociative, Zenon
  <2>3. (h \o u) \o Tail(w) = h \o (u \o Tail(w))
    BY <2>1, <2>2, Zenon
  <2>4. (h \o b) \o w = h \o (b \o w)
    BY <2>2, Zenon
  <2> QED
    BY <1>4, <2>3, <2>4, Zenon
<1>6. (u \o <<>>) \o Tail(w) = (<<>> \o b) \o w
  BY <1>3, <1>4, ConcatEmptySeq
<1> QED
  BY <1>5, <1>6 DEF u

\* A unit that is sent comes to the end of the stream.
LEMMA SendExtendsStream ==
  ASSUME NEW p \in Seq(Units), NEW w \in Seq(Units), NEW u \in Units
  PROVE  p \o Append(w, u) = Append(p \o w, u)
<1>1. /\ Append(w, u) = w \o <<u>> /\ <<u>> \in Seq(Units) /\ p \o w \in Seq(Units)
      /\ Append(p \o w, u) = (p \o w) \o <<u>>
  BY AppendIsConcat, ConcatProperties
<1> QED
  BY <1>1, ConcatAssociative

\* With one more unit of w, the units h and b are the first of the stream, and
\* the others are what is left when they are taken.
PacketLeaves(h, b, w) ==
    LET n == Len(h) + Len(b) + 1
        s == (h \o b) \o w
        p == h \o Append(b, Head(w))
        r == (<<>> \o <<>>) \o Tail(w)
    IN  /\ s \in Seq(Units) /\ r \in Seq(Units)
        /\ Len(s) = n + Len(r)
        /\ \A i \in 1 .. Len(r) : r[i] = s[i + n]
        /\ p \in Seq(Units) /\ Len(p) = n
        /\ \A i \in 1 .. n : p[i] = s[i]

LEMMA PacketLeavesStream ==
  ASSUME NEW h \in Seq(Units), NEW b \in Seq(Units), NEW w \in Seq(Units), w # <<>>
  PROVE  PacketLeaves(h, b, w)
<1> DEFINE n == Len(h) + Len(b) + 1
           s == (h \o b) \o w
           u == Append(b, Head(w))
           p == h \o u
           r == (<<>> \o <<>>) \o Tail(w)
<1>1. /\ Len(w) \in Nat /\ Len(w) > 0 /\ Head(w) = w[1] /\ Head(w) \in Units
      /\ Len(h) \in Nat /\ Len(b) \in Nat /\ n \in Nat /\ n = Len(h) + Len(b) + 1
  OBVIOUS
<1> HIDE DEF n
<1>2. /\ Tail(w) \in Seq(Units) /\ Len(Tail(w)) = Len(w) - 1
      /\ \A i \in 1 .. Len(Tail(w)) : Tail(w)[i] = w[i + 1]
  OBVIOUS
<1>3. /\ u \in Seq(Units) /\ Len(u) = Len(b) + 1
      /\ \A i \in 1 .. Len(b) : u[i] = b[i]
      /\ u[Len(b) + 1] = w[1]
  BY <1>1
<1>4. r = Tail(w)
  BY <1>2
<1>5. /\ s \in Seq(Units) /\ Len(s) = Len(h) + Len(b) + Len(w)
      /\ \A i \in 1 .. Len(h) : s[i] = h[i]
      /\ \A i \in 1 .. Len(b) : s[Len(h) + i] = b[i]
      /\ \A i \in 1 .. Len(w) : s[Len(h) + Len(b) + i] = w[i]
  OBVIOUS
<1> HIDE DEF u
<1>6. /\ p \in Seq(Units) /\ Len(p) = n
      /\ \A i \in 1 .. Len(h) : p[i] = h[i]
      /\ \A i \in 1 .. Len(u) : p[Len(h) + i] = u[i]
  BY <1>1, <1>3
<1> HIDE DEF s, p, r
<1>7. \A i \in 1 .. n : p[i] = s[i]
  <2> SUFFICES ASSUME NEW i \in 1 .. n PROVE p[i] = s[i]
    OBVIOUS
  <2>1. CASE i \in 1 .. Len(h)
    BY <1>5, <1>6, <2>1
  <2>2. CASE i \in Len(h) + 1 .. Len(h) + Len(b)
    <3>1. i - Len(h) \in 1 .. Len(b) /\ i = Len(h) + (i - Len(h))
      BY <1>1, <2>2
    <3> QED
      <4>1. p[i] = u[i - Len(h)] /\ s[i] = b[i - Len(h)] /\ i - Len(h) \in 1 .. Len(u)
        <5>1. i - Len(h) \in 1 .. Len(u)
          BY <1>1, <1>3, <3>1
        <5>2. p[Len(h) + (i - Len(h))] = u[i - Len(h)]
          BY <1>6, <5>1
        <5>3. s[Len(h) + (i - Len(h))] = b[i - Len(h)]
          BY <1>5, <3>1
        <5> QED
          BY <3>1, <5>1, <5>2, <5>3
      <4> QED
        BY <1>3, <3>1, <4>1
  <2>3. CASE i = Len(h) + Len(b) + 1
    <3>1. /\ Len(b) + 1 \in 1 .. Len(u) /\ 1 \in 1 .. Len(w)
          /\ i = Len(h) + (Len(b) + 1)
      BY <1>1, <1>3, <2>3
    <3>2. p[i] = u[Len(b) + 1]
      BY <1>6, <3>1
    <3>3. s[i] = w[1]
      <4>1. s[Len(h) + Len(b) + 1] = w[1]
        BY <1>5, <3>1
      <4> QED
        BY <2>3, <4>1
    <3> QED
      BY <1>3, <3>2, <3>3
  <2> QED
    BY <1>1, <2>1, <2>2, <2>3
<1>8. \A i \in 1 .. Len(r) : r[i] = s[i + n]
  <2> SUFFICES ASSUME NEW i \in 1 .. Len(r) PROVE r[i] = s[i + n]
    OBVIOUS
  <2>1. /\ i + 1 \in 1 .. Len(w) /\ i \in 1 .. Len(Tail(w))
        /\ i + n = Len(h) + Len(b) + (i + 1)
    BY <1>1, <1>2, <1>4
  <2> QED
    BY <1>2, <1>4, <1>5, <2>1
<1>9. Len(s) = n + Len(r) /\ r \in Seq(Units)
  BY <1>1, <1>2, <1>4, <1>5
<1> QED
  BY <1>5, <1>6, <1>7, <1>8, <1>9 DEF n, s, p, r, u, PacketLeaves

\* The next packet in the stream is whole as far as it has come.
LEMMA PacketAhead ==
  ASSUME NEW s \in Seq(Units), Gapless(s), NEW i \in 1 .. Len(s), i <= PacketLength
  PROVE  s[i] = [frame |-> s[1].frame, place |-> i]
<1>1. s[1] \in Units /\ s[i] \in Units /\ Len(s) \in Nat /\ 1 \in 1 .. Len(s) /\ s # <<>>
  OBVIOUS
<1>2. s[1].place = 1
  BY <1>1 DEF Gapless
<1>3. s[i].frame = s[1].frame /\ s[i].place = i
  <2>1. CASE i = 1
    BY <1>2, <2>1
  <2>2. CASE i > 1
    <3>1. Apart(s[1], s[i], i - 1)
      BY <1>1, <2>2 DEF Gapless
    <3> QED
      BY <1>1, <1>2, <3>1, PacketSizes DEF Apart, Units
  <2> QED
    BY <2>1, <2>2
<1> QED
  BY <1>1, <1>3 DEF Units

\* What is left of the stream when its first packet is taken.
LEMMA StreamAfterPacket ==
  ASSUME NEW s \in Seq(Units), NEW r \in Seq(Units),
         Len(s) = PacketLength + Len(r),
         \A i \in 1 .. Len(r) : r[i] = s[i + PacketLength],
         Gapless(s)
  PROVE  /\ s[PacketLength].place = PacketLength
         /\ r # <<>> => r[Len(r)] = s[Len(s)]
         /\ Gapless(r)
         /\ \A i \in 1 .. Len(r) : s[1].frame < r[i].frame
<1>1. /\ Len(s) \in Nat /\ Len(r) \in Nat /\ PacketLength \in Nat /\ PacketLength > 0
      /\ \A i \in 1 .. Len(s) : s[i] \in Units
  BY PacketSizes
<1>2. \A u \in Units : u.frame \in Nat /\ u.place \in 1 .. PacketLength
  BY DEF Units
<1>0. /\ s[1].place = 1
      /\ \A i, j \in 1 .. Len(s) : i < j => Apart(s[i], s[j], j - i)
  <2>1. s # <<>>
    BY <1>1
  <2> QED
    BY <2>1 DEF Gapless
<1>3. s[PacketLength].frame = s[1].frame /\ s[PacketLength].place = PacketLength
  <2>1. PacketLength > 1 => Apart(s[1], s[PacketLength], PacketLength - 1)
    BY <1>0, <1>1
  <2>2. s[1] \in Units /\ s[PacketLength] \in Units
    BY <1>1
  <2> QED
    BY <1>0, <1>1, <1>2, <2>1, <2>2 DEF Apart
<1>4. \A i \in 1 .. Len(r) : Apart(s[PacketLength], r[i], i)
  <2> SUFFICES ASSUME NEW i \in 1 .. Len(r)
               PROVE  Apart(s[PacketLength], r[i], i)
    OBVIOUS
  <2>1. /\ PacketLength \in 1 .. Len(s) /\ i + PacketLength \in 1 .. Len(s)
        /\ (i + PacketLength) - PacketLength = i /\ PacketLength < i + PacketLength
    BY <1>1
  <2> QED
    BY <1>0, <2>1
<1>5. \A i \in 1 .. Len(r) : r[i] \in Units
  OBVIOUS
<1>6. \A i \in 1 .. Len(r) : s[1].frame < r[i].frame
  BY <1>1, <1>2, <1>3, <1>4, <1>5 DEF Apart
<1>7. r # <<>> => r[1].place = 1 /\ r[Len(r)] = s[Len(s)]
  <2> SUFFICES ASSUME r # <<>> PROVE r[1].place = 1 /\ r[Len(r)] = s[Len(s)]
    OBVIOUS
  <2>1. 1 \in 1 .. Len(r) /\ Len(r) \in 1 .. Len(r)
    BY <1>1
  <2>2. Apart(s[PacketLength], r[1], 1) /\ r[1] \in Units /\ s[1].frame < r[1].frame
    BY <1>4, <1>5, <1>6, <2>1
  <2> QED
    BY <1>1, <1>2, <1>3, <2>1, <2>2 DEF Apart
<1>8. \A i, j \in 1 .. Len(r) : i < j => Apart(r[i], r[j], j - i)
  <2> SUFFICES ASSUME NEW i \in 1 .. Len(r), NEW j \in 1 .. Len(r), i < j
               PROVE  Apart(r[i], r[j], j - i)
    OBVIOUS
  <2>1. /\ i + PacketLength \in 1 .. Len(s) /\ j + PacketLength \in 1 .. Len(s)
        /\ (j + PacketLength) - (i + PacketLength) = j - i
        /\ i + PacketLength < j + PacketLength
    BY <1>1
  <2> QED
    BY <1>0, <2>1
<1> QED
  BY <1>3, <1>6, <1>7, <1>8 DEF Gapless

LEMMA UnitAppended ==
  ASSUME NEW s \in Seq(Units), NEW u \in Units
  PROVE  LET t == Append(s, u)
         IN  /\ Len(s) \in Nat /\ t # <<>> /\ Len(t) = Len(s) + 1 /\ t[Len(s) + 1] = u
             /\ \A i \in 1 .. Len(s) : t[i] = s[i] /\ s[i] \in Units
             /\ s = <<>> \/ Len(s) > 0
OBVIOUS

\* What the stream is when a unit is sent.
LEMMA StreamAfterUnit ==
  ASSUME NEW s \in Seq(Units), NEW u \in Units,
         Gapless(s), s # <<>> => Apart(s[Len(s)], u, 1),
         s = <<>> => u.place = 1
  PROVE  LET t == Append(s, u)
         IN  t # <<>> /\ t[Len(t)] = u /\ Gapless(t)
<1> DEFINE t == Append(s, u)
<1>1. /\ Len(s) \in Nat /\ t # <<>> /\ Len(t) = Len(s) + 1 /\ t[Len(s) + 1] = u
      /\ \A i \in 1 .. Len(s) : t[i] = s[i] /\ s[i] \in Units
      /\ s = <<>> \/ Len(s) > 0
  BY UnitAppended
<1> HIDE DEF t
<1>2. t[1].place = 1
  <2>1. CASE s = <<>>
    BY <1>1, <2>1
  <2>2. CASE s # <<>>
    BY <1>1, <2>2 DEF Gapless
  <2> QED
    BY <2>1, <2>2
<1>3. \A i, j \in 1 .. Len(t) : i < j => Apart(t[i], t[j], j - i)
  <2> SUFFICES ASSUME NEW i \in 1 .. Len(t), NEW j \in 1 .. Len(t), i < j
               PROVE  Apart(t[i], t[j], j - i)
    OBVIOUS
  <2>1. i \in 1 .. Len(s)
    BY <1>1
  <2>2. CASE j \in 1 .. Len(s)
    BY <1>1, <2>1, <2>2 DEF Gapless
  <2>3. CASE j = Len(s) + 1
    <3>1. /\ s[i] \in Units /\ s[Len(s)] \in Units /\ Apart(s[Len(s)], u, 1)
          /\ Len(s) \in 1 .. Len(s)
      BY <1>1, <2>1
    <3>2. Apart(s[i], u, j - i)
      <4>1. CASE i = Len(s)
        BY <1>1, <2>3, <3>1, <4>1
      <4>2. CASE i < Len(s)
        <5>1. Apart(s[i], s[Len(s)], Len(s) - i)
          BY <2>1, <3>1, <4>2 DEF Gapless
        <5>2. Len(s) - i \in Nat /\ (Len(s) - i) + 1 = j - i
          BY <1>1, <2>1, <2>3, <4>2
        <5>3. Apart(s[i], u, (Len(s) - i) + 1)
          BY <3>1, <5>1, <5>2, ApartAdds
        <5> QED
          BY <5>2, <5>3
      <4> QED
        BY <1>1, <2>1, <4>1, <4>2
    <3> QED
      BY <1>1, <2>1, <2>3, <3>2
  <2>4. j \in 1 .. Len(s) \/ j = Len(s) + 1
    BY <1>1
  <2> QED
    BY <2>2, <2>3, <2>4
<1> QED
  BY <1>1, <1>2, <1>3 DEF t, Gapless
-----------------------------------------------------------------------------
LEMMA StreamType ==
  ASSUME IInv, NEW c \in Clients
  PROVE  Stream(c) \in Seq(Units)
<1>1. head[c] \in Seq(Units) /\ buf[c] \in Seq(Units) /\ wire[c] \in Seq(Units)
  BY DEF IInv, TypeOK
<1> QED
  BY <1>1, ConcatProperties DEF Stream

LEMMA OlderGrows ==
  ASSUME NEW s, NEW d, NEW f \in Nat, NEW g \in Nat, f <= g, Older(s, d, f)
  PROVE  Older(s, d, g)
<1>1. \A n \in 1 .. f - 1 : n \in 1 .. g - 1
  OBVIOUS
<1> QED
  BY <1>1 DEF Older

\* What a step that leaves a connection and its receiver alone keeps.
LEMMA Unmoved ==
  ASSUME NEW c \in Clients, ClientInv(c),
         head'[c] = head[c], buf'[c] = buf[c], wire'[c] = wire[c],
         expect'[c] = expect[c], delivered'[c] = delivered[c]
  PROVE  /\ Stream(c)' = Stream(c) /\ Gapless(Stream(c)') /\ ReaderInv(c)'
         /\ Follows(Stream(c)', delivered'[c])
<1>1. Stream(c)' = Stream(c)
  BY DEF Stream
<1> QED
  BY <1>1 DEF ClientInv, ReaderInv, OrderInv

LEMMA InitChannel == Init => ChannelInv
<1> SUFFICES ASSUME Init PROVE ChannelInv
  OBVIOUS
<1>1. <<>> \in Seq(Frames) /\ <<>> \in Seq(Units) /\ Len(<<>>) = 0
  BY EmptySeq
<1>2. \A c \in Clients : Stream(c) = <<>> /\ delivered[c] = <<>>
  BY <1>1, ConcatEmptySeq DEF Init, Stream
<1>3. ASSUME NEW c \in Clients
      PROVE  ClientInv(c) /\ InOrder(delivered[c])
  <2>1. Gapless(Stream(c)) /\ Follows(Stream(c), delivered[c]) /\ InOrder(delivered[c])
    BY <1>1, <1>2 DEF Gapless, Follows, InOrder
  <2>2. EndInv(c) /\ ReaderInv(c)
    BY <1>1, <1>2, SizesAssumption DEF Init, EndInv, ReaderInv
  <2>3. OrderInv(c)
    <3>1. \A f : Older(Stream(c), delivered[c], f)
      BY <1>1, <1>2 DEF Older
    <3> QED
      BY <2>1, <3>1 DEF OrderInv
  <2> QED
    BY <2>1, <2>2, <2>3 DEF ClientInv
<1>4. SenderInv
  BY <1>1, NoneAssumption DEF Init, SenderInv
<1>5. delivered \in [Clients -> Seq(Frames)]
  BY <1>1 DEF Init
<1> QED
  BY <1>3, <1>4, <1>5 DEF ChannelInv

LEMMA BroadcastInOrder ==
  ASSUME IInv, ChannelInv, Broadcast
  PROVE  ChannelInv'
<1>1. /\ UNCHANGED <<sending, targets, target, copied, head, buf, wire, expect,
                     delivered, torn, conn>>
      /\ made' = made + 1 /\ made \in Nat /\ queue \in Seq(Nat)
      /\ queue' = queue \/ queue' = Append(queue, made + 1)
  BY DEF Broadcast, netVars, recvVars, IInv, TypeOK
<1>2. \A i \in 1 .. Len(queue') :
          \/ i \in 1 .. Len(queue) /\ queue'[i] = queue[i]
          \/ queue'[i] = made + 1
  BY <1>1
<1>3. ASSUME NEW c \in Clients, ClientInv(c)
      PROVE  ClientInv(c)'
  <2>1. /\ Stream(c)' = Stream(c) /\ Gapless(Stream(c)') /\ ReaderInv(c)'
        /\ Follows(Stream(c)', delivered'[c])
    BY <1>1, <1>3, Unmoved
  <2>2. EndInv(c)'
    BY <1>1, <1>3, <2>1 DEF ClientInv, EndInv
  <2>3. Older(Stream(c), delivered[c], made + 1)
    BY <1>3 DEF ClientInv, OrderInv
  <2>4. Older(Stream(c), delivered[c], (made + 1) + 1)
    <3>1. made + 1 \in Nat /\ (made + 1) + 1 \in Nat /\ made + 1 <= (made + 1) + 1
      BY <1>1
    <3> QED
      BY <2>3, <3>1, OlderGrows
  <2>5. \A i \in 1 .. Len(queue') : Older(Stream(c), delivered[c], queue'[i])
    BY <1>2, <1>3, <2>3 DEF ClientInv, OrderInv
  <2>6. OrderInv(c)'
    BY <1>1, <1>3, <2>1, <2>4, <2>5 DEF ClientInv, OrderInv
  <2> QED
    BY <2>1, <2>2, <2>6 DEF ClientInv
<1>4. SenderInv'
  <2>1. \A i \in 1 .. Len(queue') : queue'[i] # 0
    BY <1>1, <1>2 DEF ChannelInv, SenderInv
  <2> QED
    BY <1>1, <2>1 DEF ChannelInv, SenderInv
<1> QED
  BY <1>1, <1>3, <1>4 DEF ChannelInv

LEMMA TakeFrameInOrder ==
  ASSUME IInv, ChannelInv, TakeFrame
  PROVE  ChannelInv'
<1>1. /\ UNCHANGED <<made, target, copied, head, buf, wire, expect, delivered, torn, conn>>
      /\ sending = 0 /\ queue # <<>> /\ queue \in Seq(Nat)
      /\ sending' = queue[1] /\ queue' = Tail(queue) /\ targets' = connected
      /\ target = None /\ targets = {} /\ None \notin Clients /\ connected \subseteq Clients
  BY NoneAssumption
     DEF TakeFrame, queueVars, netVars, recvVars, IInv, TypeOK, ChannelInv, SenderInv
<1>2. /\ 1 \in 1 .. Len(queue) /\ queue[1] \in Nat /\ queue[1] # 0
      /\ \A i \in 1 .. Len(queue') : i + 1 \in 1 .. Len(queue) /\ queue'[i] = queue[i + 1]
  BY <1>1 DEF ChannelInv, SenderInv
<1>3. ASSUME NEW c \in Clients, ClientInv(c)
      PROVE  ClientInv(c)'
  <2>1. /\ Stream(c)' = Stream(c) /\ Gapless(Stream(c)') /\ ReaderInv(c)'
        /\ Follows(Stream(c)', delivered'[c])
    BY <1>1, <1>3, Unmoved
  <2>2. EndInv(c)'
    BY <1>1, <1>3, <2>1 DEF ClientInv, EndInv
  <2>3. Older(Stream(c), delivered[c], sending')
    BY <1>1, <1>2, <1>3 DEF ClientInv, OrderInv
  <2>4. Older(Stream(c), delivered[c], sending' + 1)
    <3>1. sending' \in Nat /\ sending' + 1 \in Nat /\ sending' <= sending' + 1
      BY <1>1, <1>2
    <3> QED
      BY <2>3, <3>1, OlderGrows
  <2>5. /\ Older(Stream(c), delivered[c], made + 1)
        /\ \A i \in 1 .. Len(queue') : Older(Stream(c), delivered[c], queue'[i])
    BY <1>2, <1>3 DEF ClientInv, OrderInv
  <2>6. OrderInv(c)'
    BY <1>1, <2>1, <2>3, <2>4, <2>5 DEF OrderInv
  <2> QED
    BY <2>1, <2>2, <2>6 DEF ClientInv
<1>4. SenderInv'
  BY <1>1, <1>2 DEF ChannelInv, SenderInv
<1> QED
  BY <1>1, <1>3, <1>4 DEF ChannelInv

\* The steps of the sender that pass no unit on, and those of stop() and accept.
LEMMA OthersInOrder ==
  ASSUME IInv, ChannelInv,
         \/ \E c \in Clients : Select(c) \/ SendRaises(c) \/ Accept(c)
         \/ SendCut \/ FinishPass \/ StopServer \/ CloseClients
  PROVE  ChannelInv'
<1>1. UNCHANGED <<made, queue, head, buf, wire, expect, delivered, torn>>
  BY DEF Select, SendRaises, Accept, SendCut, FinishPass, StopServer, CloseClients,
         queueVars, sendVars, netVars, recvVars
<1>2. \A c \in Clients : conn'[c] # "closed" => conn[c] # "closed"
  BY DEF Select, SendRaises, Accept, SendCut, FinishPass, StopServer, CloseClients,
         queueVars, sendVars, netVars, recvVars, IInv, TypeOK
<1>3. /\ SenderInv /\ None \notin Clients
      /\ target \in Clients \cup {None} /\ targets \subseteq Clients
  BY NoneAssumption DEF ChannelInv, IInv, TypeOK
<1>4. ASSUME NEW c \in Clients, ClientInv(c), conn'[c] # "closed"
      PROVE  ClientInv(c)'
  <2>1. /\ Stream(c)' = Stream(c) /\ Gapless(Stream(c)') /\ ReaderInv(c)'
        /\ Follows(Stream(c)', delivered'[c])
    BY <1>1, <1>4, Unmoved
  <2>2. /\ target = c /\ copied > 0 <=> target' = c /\ copied' > 0
        /\ target = c => sending' = sending /\ copied' = copied
        /\ sending' = sending \/ sending' = 0
        /\ c \in targets' \/ (target' = c /\ copied' = 0) =>
              sending' = sending /\ (c \in targets \/ (target = c /\ copied = 0))
    <3>1. CASE \E k \in Clients : Select(k)
      BY <1>3, <3>1 DEF Select, SenderInv
    <3>2. CASE \E k \in Clients : SendRaises(k)
      BY <1>3, <3>2 DEF SendRaises, SenderInv
    <3>3. CASE SendCut
      BY <1>3, <1>4, <3>3 DEF SendCut, SenderInv, netVars
    <3>4. CASE FinishPass
      BY <1>3, <1>4, <3>4 DEF FinishPass, SenderInv
    <3>5. CASE \/ \E k \in Clients : Accept(k)
               \/ StopServer \/ CloseClients
      BY <3>5 DEF Accept, StopServer, CloseClients, sendVars
    <3> QED
      BY <3>1, <3>2, <3>3, <3>4, <3>5
  <2>3. EndInv(c)'
    BY <1>4, <2>1, <2>2 DEF ClientInv, EndInv
  <2>4. OrderInv(c)'
    BY <1>1, <1>4, <2>1, <2>2 DEF ClientInv, OrderInv
  <2> QED
    BY <2>1, <2>3, <2>4 DEF ClientInv
<1>5. SenderInv'
  <2>1. CASE \E k \in Clients : Select(k) \/ SendRaises(k)
    BY <1>1, <1>3, <2>1 DEF Select, SendRaises, SenderInv
  <2>2. CASE SendCut \/ FinishPass
    BY <1>1, <1>3, <2>2 DEF SendCut, FinishPass, SenderInv
  <2>3. CASE \/ \E k \in Clients : Accept(k)
             \/ StopServer \/ CloseClients
    BY <1>1, <1>3, <2>3 DEF Accept, StopServer, CloseClients, SenderInv, sendVars
  <2> QED
    BY <2>1, <2>2, <2>3
<1> QED
  BY <1>1, <1>2, <1>4, <1>5 DEF ChannelInv

LEMMA TimeoutInOrder ==
  ASSUME IInv, ChannelInv, NEW c \in Clients, ReceiveTimeout(c) \/ Disconnect(c)
  PROVE  ChannelInv'
<1>1. /\ UNCHANGED <<made, queue, sending, targets, target, copied, delivered>>
      /\ \A k \in Clients \ {c} :
            head'[k] = head[k] /\ buf'[k] = buf[k] /\ wire'[k] = wire[k]
            /\ expect'[k] = expect[k] /\ conn'[k] = conn[k]
      /\ torn \subseteq torn'
      /\ c \in torn' \/ conn'[c] = "closed"
  BY DEF ReceiveTimeout, NextHeader, Disconnect, queueVars, sendVars, netVars, recvVars,
         IInv, TypeOK
<1>2. ASSUME NEW k \in Clients \ {c}, ClientInv(k)
      PROVE  ClientInv(k)'
  <2>1. /\ Stream(k)' = Stream(k) /\ Gapless(Stream(k)') /\ ReaderInv(k)'
        /\ Follows(Stream(k)', delivered'[k])
    BY <1>1, <1>2, Unmoved
  <2>2. EndInv(k)' /\ OrderInv(k)'
    BY <1>1, <1>2, <2>1 DEF ClientInv, EndInv, OrderInv
  <2> QED
    BY <2>1, <2>2 DEF ClientInv
<1>3. SenderInv'
  BY <1>1 DEF ChannelInv, SenderInv
<1> QED
  BY <1>1, <1>2, <1>3 DEF ChannelInv

\* The sender passes a unit on.
LEMMA CopyInOrder ==
  ASSUME IInv, ChannelInv, Copy
  PROVE  ChannelInv'
<1> DEFINE u == Packet(sending)[copied + 1]
<1>1. /\ UNCHANGED <<made, queue, sending, targets, head, buf, expect, delivered, torn, conn>>
      /\ target \in Clients /\ target \notin targets
      /\ sending \in Nat /\ sending # 0 /\ made \in Nat /\ queue \in Seq(Nat)
      /\ copied \in Nat /\ copied + 1 \in 1 .. PacketLength /\ copied' = copied + 1
      /\ wire' = [wire EXCEPT ![target] = Append(@, u)]
      /\ wire \in [Clients -> Seq(Units)]
      /\ target' = IF copied + 1 = PacketLength THEN None ELSE target
      /\ None \notin Clients /\ targets \subseteq Clients
  BY PacketSizes, NoneAssumption
     DEF Copy, queueVars, recvVars, IInv, TypeOK, CopyInv, ChannelInv, SenderInv
<1>2. u = [frame |-> sending, place |-> copied + 1] /\ u \in Units
  BY <1>1 DEF Packet, Units
<1> HIDE DEF u
<1>3. ASSUME NEW c \in Clients, ClientInv(c), c # target
      PROVE  ClientInv(c)'
  <2>1. /\ Stream(c)' = Stream(c) /\ Gapless(Stream(c)') /\ ReaderInv(c)'
        /\ Follows(Stream(c)', delivered'[c])
    BY <1>1, <1>3, Unmoved
  <2>2. EndInv(c)' /\ OrderInv(c)'
    BY <1>1, <1>3, <2>1 DEF ClientInv, EndInv, OrderInv
  <2> QED
    BY <2>1, <2>2 DEF ClientInv
<1>4. ASSUME NEW c \in Clients, ClientInv(c), c = target
      PROVE  ClientInv(c)'
  <2> DEFINE s == Stream(c)
             t == Append(s, u)
             d == delivered[c]
  <2>1. s \in Seq(Units) /\ Stream(c)' = t
    <3>1. head[c] \in Seq(Units) /\ buf[c] \in Seq(Units) /\ wire[c] \in Seq(Units)
      BY DEF IInv, TypeOK
    <3>2. head[c] \o buf[c] \in Seq(Units)
      BY <3>1, ConcatProperties
    <3>3. (head[c] \o buf[c]) \o Append(wire[c], u) = Append((head[c] \o buf[c]) \o wire[c], u)
      BY <1>2, <3>1, <3>2, SendExtendsStream
    <3>4. wire'[c] = Append(wire[c], u) /\ head'[c] = head[c] /\ buf'[c] = buf[c]
      BY <1>1, <1>4
    <3> QED
      BY <3>3, <3>4, StreamType DEF Stream
  <2>2. Gapless(s) /\ EndInv(c) /\ ReaderInv(c) /\ OrderInv(c)
    BY <1>4 DEF ClientInv
  <2>3. copied > 0 => s # <<>> /\ s[Len(s)] = [frame |-> sending, place |-> copied]
    BY <1>4, <2>2 DEF EndInv
  <2>4. copied = 0 /\ s # <<>> => s[Len(s)].place = PacketLength
    BY <1>4, <2>2 DEF EndInv
  <2>5. copied = 0 => Older(s, d, sending)
    BY <1>4, <2>2 DEF OrderInv
  <2>6. /\ Older(s, d, sending + 1) /\ Older(s, d, made + 1) /\ Follows(s, d)
        /\ \A i \in 1 .. Len(queue) : Older(s, d, queue[i])
    BY <1>1, <2>2 DEF OrderInv
  <2>7. /\ Len(s) \in Nat /\ Len(t) = Len(s) + 1 /\ t[Len(s) + 1] = u
        /\ \A i \in 1 .. Len(s) : t[i] = s[i] /\ s[i] \in Units
        /\ s = <<>> \/ Len(s) > 0
    BY <1>2, <2>1, UnitAppended
  <2> HIDE DEF s, t, d
  <2>8. s # <<>> => Apart(s[Len(s)], u, 1)
    <3>1. CASE copied > 0
      BY <1>1, <1>2, <2>3, <3>1 DEF Apart
    <3>2. CASE copied = 0 /\ s # <<>>
      <4>1. /\ s[Len(s)].frame \in 1 .. sending - 1 /\ s[Len(s)].place = PacketLength
        BY <2>4, <2>5, <2>7, <3>2 DEF Older
      <4> QED
        BY <1>1, <1>2, <3>2, <4>1, PacketSizes DEF Apart
    <3> QED
      BY <1>1, <3>1, <3>2
  <2>9. s = <<>> => u.place = 1
    BY <1>1, <1>2, <2>3
  <2>10. t # <<>> /\ t[Len(t)] = u /\ Gapless(t)
    BY <1>2, <2>1, <2>2, <2>8, <2>9, StreamAfterUnit DEF s, t
  <2>11. EndInv(c)'
    <3>1. CASE copied + 1 = PacketLength
      <4>1. target' # c /\ t[Len(t)].place = PacketLength
        BY <1>1, <1>2, <2>10, <3>1
      <4> QED
        BY <2>1, <4>1 DEF EndInv
    <3>2. CASE copied + 1 # PacketLength
      BY <1>1, <1>2, <1>4, <2>1, <2>10, <3>2 DEF EndInv
    <3> QED
      BY <3>1, <3>2
  <2>12. ReaderInv(c)'
    BY <1>1, <2>2 DEF ReaderInv
  <2>13. ASSUME NEW f \in Nat, Older(s, d, f), sending < f
         PROVE  Older(t, d, f)
    <3>1. \A i \in 1 .. Len(t) : i \in 1 .. Len(s) \/ i = Len(s) + 1
      BY <2>7
    <3>2. u.frame \in 1 .. f - 1
      BY <1>1, <1>2, <2>13
    <3> QED
      BY <2>7, <2>13, <3>1, <3>2 DEF Older
  <2>14. Follows(t, d)
    <3> SUFFICES ASSUME NEW k \in 1 .. Len(d), NEW i \in 1 .. Len(t)
                 PROVE  FrameOf(d[k]) < t[i].frame
      BY DEF Follows
    <3>1. CASE i \in 1 .. Len(s)
      BY <2>6, <2>7, <3>1 DEF Follows
    <3>2. CASE i = Len(s) + 1
      <4>1. t[i].frame = sending
        BY <1>2, <2>7, <3>2
      <4>2. CASE copied > 0
        BY <2>3, <2>6, <2>7, <4>1, <4>2 DEF Follows
      <4>3. CASE copied = 0
        <5>1. FrameOf(d[k]) \in 1 .. sending - 1
          BY <2>5, <4>3, Zenon DEF Older
        <5>2. sending \in Nat
          BY <1>1, Zenon
        <5> QED
          BY <4>1, <5>1, <5>2
      <4> QED
        BY <1>1, <4>1, <4>2, <4>3
    <3> QED
      BY <2>7, <3>1, <3>2
  <2>15. OrderInv(c)'
    <3>1. Older(t, d, sending + 1)
      BY <1>1, <2>6, <2>13
    <3>2. Older(t, d, made + 1)
      BY <1>1, <2>6, <2>13 DEF IInv, NewestIsLast
    <3>3. ASSUME NEW i \in 1 .. Len(queue)
          PROVE  Older(t, d, queue[i])
      <4>1. queue # <<>> /\ 1 \in 1 .. Len(queue) /\ queue[i] \in Nat /\ queue[1] \in Nat
        BY <1>1
      <4>2. sending < queue[1] /\ (i = 1 \/ queue[1] < queue[i])
        BY <1>1, <4>1 DEF IInv, Accounts
      <4> QED
        BY <1>1, <2>6, <2>13, <4>1, <4>2
    <3>4. c \notin targets' /\ copied' # 0
      BY <1>1, <1>4
    <3> QED
      BY <1>1, <2>1, <2>14, <3>1, <3>2, <3>3, <3>4 DEF OrderInv, d
  <2> QED
    BY <2>1, <2>10, <2>11, <2>12, <2>15 DEF ClientInv
<1>5. SenderInv'
  BY <1>1 DEF ChannelInv, SenderInv
<1> QED
  BY <1>1, <1>3, <1>4, <1>5 DEF ChannelInv

\* A header names the length of its body.
LEMMA LengthOfHeader ==
  ASSUME NEW s \in Seq(Units), Gapless(s), NEW h \in Seq(Units), Len(h) = Header,
         Header <= Len(s), \A i \in 1 .. Header : h[i] = s[i]
  PROVE  Lengths(h) = {Body}
<1>1. Header \in Nat /\ Header > 0 /\ Header <= PacketLength /\ Len(s) \in Nat
  BY SizesAssumption DEF PacketLength
<1>2. \A i \in 1 .. Header : s[i] = [frame |-> s[1].frame, place |-> i]
  BY <1>1, PacketSizes, PacketAhead
<1>3. h[1] = s[1]
  BY <1>1
<1>4. \A i \in 1 .. Header : h[i] = [frame |-> h[1].frame, place |-> i]
  <2> SUFFICES ASSUME NEW i \in 1 .. Header
               PROVE  h[i] = [frame |-> h[1].frame, place |-> i]
    OBVIOUS
  <2>1. h[i] = s[i] /\ s[i] = [frame |-> s[1].frame, place |-> i]
    BY <1>2
  <2> QED
    BY <1>3, <2>1
<1> QED
  BY <1>4 DEF Lengths

\* What is put together of the next PacketLength units is their frame.
LEMMA PacketIsWhole ==
  ASSUME NEW s \in Seq(Units), Gapless(s), NEW h \in Seq(Units), NEW b \in Seq(Units),
         Len(h) > 0, Len(h \o b) = PacketLength, PacketLength <= Len(s),
         \A i \in 1 .. PacketLength : (h \o b)[i] = s[i]
  PROVE  LET e == [header |-> h, body |-> b]
         IN  Intact(e) /\ FrameOf(e) = s[1].frame
<1> DEFINE p == h \o b
           e == [header |-> h, body |-> b]
<1>1. PacketLength \in Nat /\ PacketLength > 0 /\ Len(s) \in Nat
  BY PacketSizes
<1>2. p \in Seq(Units) /\ h[1] = p[1]
  BY ConcatProperties
<1>3. p = [i \in 1 .. Len(p) |-> p[i]]
  <2> HIDE DEF p
  <2> QED
    BY <1>2
<1>4. s[1] \in Units /\ p[1] = s[1] /\ h[1].frame = s[1].frame
  BY <1>1, <1>2
<1>5. \A i \in 1 .. PacketLength : p[i] = [frame |-> s[1].frame, place |-> i]
  BY <1>1, PacketAhead
<1> HIDE DEF p
<1>6. p = Packet(s[1].frame)
  BY <1>3, <1>5 DEF Packet, p
<1> QED
  BY <1>4, <1>6 DEF Intact, FrameOf, p

LEMMA FrameAppended ==
  ASSUME NEW d \in Seq(Frames), NEW e \in Frames
  PROVE  LET g == Append(d, e)
         IN  /\ g \in Seq(Frames) /\ Len(g) = Len(d) + 1 /\ Len(d) \in Nat
             /\ g[Len(d) + 1] = e
             /\ \A i \in 1 .. Len(d) : g[i] = d[i]
OBVIOUS

\* A younger frame is delivered after the others.
LEMMA DeliveredAfter ==
  ASSUME NEW d \in Seq(Frames), NEW e \in Frames, InOrder(d), Intact(e),
         \A k \in 1 .. Len(d) : FrameOf(d[k]) < FrameOf(e)
  PROVE  InOrder(Append(d, e))
<1> DEFINE g == Append(d, e)
<1>1. /\ Len(g) = Len(d) + 1 /\ Len(d) \in Nat /\ g[Len(d) + 1] = e
      /\ \A i \in 1 .. Len(d) : g[i] = d[i]
  BY FrameAppended
<1> HIDE DEF g
<1>2. \A i \in 1 .. Len(g) : i \in 1 .. Len(d) \/ i = Len(d) + 1
  BY <1>1
<1>3. \A i \in 1 .. Len(g) : Intact(g[i])
  BY <1>1, <1>2 DEF InOrder
<1>4. \A i, j \in 1 .. Len(g) : i < j => FrameOf(g[i]) < FrameOf(g[j])
  <2> SUFFICES ASSUME NEW i \in 1 .. Len(g), NEW j \in 1 .. Len(g), i < j
               PROVE  FrameOf(g[i]) < FrameOf(g[j])
    OBVIOUS
  <2>1. i \in 1 .. Len(d)
    BY <1>1
  <2>2. CASE j \in 1 .. Len(d)
    BY <1>1, <2>1, <2>2 DEF InOrder
  <2>3. CASE j = Len(d) + 1
    BY <1>1, <2>1, <2>3
  <2> QED
    BY <1>2, <2>2, <2>3
<1> QED
  BY <1>3, <1>4 DEF InOrder, g

\* What the receiver makes of the next unit, in a stream without a gap.
LEMMA UnitRead ==
  ASSUME IInv, NEW c \in Clients, ClientInv(c), Receive(c),
         delivered \in [Clients -> Seq(Frames)]
  PROVE  LET h == head[c]
             u == Append(buf[c], Head(wire[c]))
             e == [header |-> h, body |-> u]
         IN  /\ wire[c] # <<>> /\ wire'[c] = Tail(wire[c])
             /\ u \in Seq(Units) /\ Len(u) = Len(buf[c]) + 1
             /\ \/ /\ head'[c] = h /\ buf'[c] = u /\ delivered'[c] = delivered[c]
                   /\ ReaderInv(c)'
                \/ /\ h = <<>> /\ head'[c] = u /\ buf'[c] = <<>>
                   /\ delivered'[c] = delivered[c]
                   /\ ReaderInv(c)'
                \/ /\ Len(h) = Header /\ Len(u) = Body
                   /\ head'[c] = <<>> /\ buf'[c] = <<>>
                   /\ delivered'[c] = Append(delivered[c], e)
<1> DEFINE h == head[c]
           b == buf[c]
           w == wire[c]
           u == Append(b, Head(w))
           e == [header |-> h, body |-> u]
<1>1. /\ w # <<>> /\ wire' = [wire EXCEPT ![c] = Tail(w)]
      /\ h \in Seq(Units) /\ b \in Seq(Units) /\ w \in Seq(Units)
      /\ wire \in [Clients -> Seq(Units)] /\ buf \in [Clients -> Seq(Units)]
      /\ head \in [Clients -> Seq(Units)] /\ expect \in [Clients -> 0 .. PacketLength]
  BY DEF Receive, ReceiveHeader, ReceiveBody, Consume, IInv, TypeOK
<1>2. wire'[c] = Tail(w) /\ Head(w) \in Units
  BY <1>1
<1>3. u \in Seq(Units) /\ Len(u) = Len(b) + 1 /\ Len(b) \in Nat /\ Len(<<>>) = 0
  BY <1>1, <1>2, AppendUnit, EmptySeq
<1>4. Header \in Nat \ {0} /\ Body \in Nat \ {0}
  BY SizesAssumption
<1> HIDE DEF u
<1>5. CASE ReceiveHeader(c)
  <2>1. h = <<>> /\ Len(b) < Header
    BY <1>3, <1>4, <1>5 DEF ReceiveHeader, ReadingHeader, ClientInv, ReaderInv
  <2>2. CASE Len(u) < Header
    <3>1. head' = head /\ delivered' = delivered /\ buf'[c] = u
      BY <1>1, <1>5, <2>2 DEF ReceiveHeader, u
    <3>2. ReaderInv(c)'
      BY <2>1, <2>2, <3>1 DEF ReaderInv
    <3> QED
      BY <1>1, <1>2, <1>3, <3>1, <3>2 DEF u
  <2>3. CASE ~(Len(u) < Header)
    <3>1. Len(u) = Header
      BY <1>3, <1>4, <2>1, <2>3
    <3>2. Lengths(u) = {Body}
      <4> DEFINE s == (h \o b) \o w
                 p == h \o u
                 r == (<<>> \o <<>>) \o Tail(w)
      <4>1. p = u
        BY <1>3, <2>1, ConcatEmptySeq
      <4>2. Header = Len(h) + Len(b) + 1
        BY <1>3, <2>1, <3>1
      <4>3. /\ s \in Seq(Units) /\ r \in Seq(Units) /\ Len(s) = Header + Len(r)
            /\ \A i \in 1 .. Header : p[i] = s[i]
        <5>1. PacketLeaves(h, b, w)
          BY <1>1, PacketLeavesStream, Zenon
        <5> QED
          BY <4>2, <5>1 DEF PacketLeaves, u
      <4>4. s = Stream(c) /\ Gapless(s)
        BY DEF ClientInv, Stream
      <4> HIDE DEF s, p, r
      <4>5. Header <= Len(s)
        BY <1>4, <4>3
      <4> QED
        BY <1>3, <3>1, <4>1, <4>3, <4>4, <4>5, LengthOfHeader
    <3>3. /\ head' = [head EXCEPT ![c] = u] /\ buf' = [buf EXCEPT ![c] = <<>>]
          /\ expect' = [expect EXCEPT ![c] = Body] /\ delivered' = delivered
      BY <1>4, <1>5, <2>3, <3>2 DEF ReceiveHeader, u
    <3>4. head'[c] = u /\ buf'[c] = <<>> /\ expect'[c] = Body
      BY <1>1, <3>3
    <3>5. ReaderInv(c)'
      BY <1>3, <1>4, <3>1, <3>4 DEF ReaderInv
    <3> QED
      BY <1>1, <1>2, <1>3, <2>1, <3>3, <3>4, <3>5 DEF u
  <2> QED
    BY <2>2, <2>3
<1>6. CASE ReceiveBody(c)
  <2>1. Len(h) = Header /\ expect[c] = Body /\ Len(b) < Body
    BY <1>6 DEF ReceiveBody, ReadingHeader, ClientInv, ReaderInv
  <2>2. CASE Len(u) < Body
    <3>1. head' = head /\ delivered' = delivered /\ expect' = expect /\ buf'[c] = u
      BY <1>1, <1>6, <2>1, <2>2 DEF ReceiveBody, u
    <3>2. ReaderInv(c)'
      BY <2>1, <2>2, <3>1 DEF ReaderInv
    <3> QED
      BY <1>1, <1>2, <1>3, <3>1, <3>2 DEF u
  <2>3. CASE ~(Len(u) < Body)
    <3>1. Len(u) = Body
      BY <1>3, <1>4, <2>1, <2>3
    <3>2. /\ head' = [head EXCEPT ![c] = <<>>] /\ buf' = [buf EXCEPT ![c] = <<>>]
          /\ delivered' = [delivered EXCEPT ![c] = Append(@, e)]
      BY <1>6, <2>1, <2>3 DEF ReceiveBody, NextHeader, Deliver, u
    <3>3. head'[c] = <<>> /\ buf'[c] = <<>> /\ delivered'[c] = Append(delivered[c], e)
      BY <1>1, <3>2
    <3> QED
      BY <1>1, <1>2, <1>3, <2>1, <3>1, <3>3 DEF u
  <2> QED
    BY <2>2, <2>3
<1> QED
  BY <1>5, <1>6 DEF Receive

LEMMA PacketSum ==
  ASSUME NEW x \in Nat, NEW y \in Nat, x = Header, y + 1 = Body
  PROVE  PacketLength \in Nat /\ PacketLength > 0 /\ PacketLength = x + y + 1 /\ x > 0
BY SizesAssumption DEF PacketLength

\* A packet that is complete: what becomes of the stream s and the delivered
\* frames d.
PacketDone(h, b, w, d) ==
    LET s == (h \o b) \o w
        r == (<<>> \o <<>>) \o Tail(w)
        g == Append(d, [header |-> h, body |-> Append(b, Head(w))])
    IN  /\ InOrder(g) /\ Gapless(r) /\ Follows(r, g)
        /\ \A f : Older(s, d, f) => Older(r, g, f)
        /\ s # <<>>
        /\ r # <<>> => r[Len(r)] = s[Len(s)]
        /\ r = <<>> => s[Len(s)].place = PacketLength

LEMMA PacketDelivered ==
  ASSUME NEW h \in Seq(Units), NEW b \in Seq(Units), NEW w \in Seq(Units), w # <<>>,
         NEW d \in Seq(Frames), Len(h) = Header, Len(b) + 1 = Body,
         Gapless((h \o b) \o w), Follows((h \o b) \o w, d), InOrder(d)
  PROVE  PacketDone(h, b, w, d)
<1> DEFINE s == (h \o b) \o w
           u == Append(b, Head(w))
           r == (<<>> \o <<>>) \o Tail(w)
           e == [header |-> h, body |-> u]
           g == Append(d, e)
           p == h \o u
           n == PacketLength
<1>1. /\ n \in Nat /\ n > 0 /\ n = Len(h) + Len(b) + 1
      /\ Len(h) > 0
  <2>1. Len(h) \in Nat /\ Len(b) \in Nat
    OBVIOUS
  <2> QED
    BY <2>1, PacketSum, Zenon
<1>2. u \in Seq(Units)
  BY AppendUnit
<1> HIDE DEF n
<1>3. /\ s \in Seq(Units) /\ r \in Seq(Units)
      /\ Len(s) = n + Len(r)
      /\ \A i \in 1 .. Len(r) : r[i] = s[i + n]
      /\ p \in Seq(Units) /\ Len(p) = n
      /\ \A i \in 1 .. n : p[i] = s[i]
  <2> DEFINE m == Len(h) + Len(b) + 1
  <2>1. /\ s \in Seq(Units) /\ r \in Seq(Units)
        /\ Len(s) = m + Len(r)
        /\ \A i \in 1 .. Len(r) : r[i] = s[i + m]
        /\ p \in Seq(Units) /\ Len(p) = m
        /\ \A i \in 1 .. m : p[i] = s[i]
    <3>1. PacketLeaves(h, b, w)
      BY PacketLeavesStream
    <3> QED
      BY <3>1, Zenon DEF PacketLeaves
  <2>2. m = n
    BY <1>1
  <2> HIDE DEF m, s, r, p
  <2> QED
    BY <2>1, <2>2
<1>4. Gapless(s) /\ Follows(s, d) /\ e \in Frames
  BY <1>2 DEF Frames
<1> HIDE DEF s, u, r
<1>5. Len(s) \in Nat /\ Len(r) \in Nat /\ n <= Len(s) /\ 1 \in 1 .. Len(s)
  BY <1>1, <1>3, SMTT(30)
<1>6. Intact(e) /\ FrameOf(e) = s[1].frame
  BY <1>1, <1>2, <1>3, <1>4, <1>5, PacketIsWhole DEF n
<1> HIDE DEF p, e
<1>7. /\ s[n].place = n
      /\ r # <<>> => r[Len(r)] = s[Len(s)]
      /\ Gapless(r)
      /\ \A i \in 1 .. Len(r) : s[1].frame < r[i].frame
  BY <1>3, <1>4, StreamAfterPacket DEF n
<1>8. \A k \in 1 .. Len(d) : FrameOf(d[k]) < FrameOf(e)
  BY <1>4, <1>5, <1>6 DEF Follows
<1>9. /\ Len(g) = Len(d) + 1 /\ Len(d) \in Nat
      /\ \A k \in 1 .. Len(d) : g[k] = d[k]
      /\ g[Len(d) + 1] = e
  BY <1>4, FrameAppended
<1>10. InOrder(g)
  BY <1>4, <1>6, <1>8, DeliveredAfter
<1> HIDE DEF g
<1>11. \A k \in 1 .. Len(g) :
          \/ k \in 1 .. Len(d) /\ g[k] = d[k]
          \/ g[k] = e
  BY <1>9
<1>12. \A i \in 1 .. Len(r) : i + n \in 1 .. Len(s) /\ r[i] = s[i + n]
  BY <1>1, <1>3, <1>5, SMTT(30)
<1>13. Follows(r, g)
  <2>1. \A k \in 1 .. Len(d) : \A i \in 1 .. Len(r) : FrameOf(d[k]) < r[i].frame
    BY <1>4, <1>12 DEF Follows
  <2> QED
    BY <1>6, <1>7, <1>11, <2>1 DEF Follows
<1>14. ASSUME NEW f, Older(s, d, f)
       PROVE  Older(r, g, f)
  <2>1. \A i \in 1 .. Len(r) : r[i].frame \in 1 .. f - 1
    BY <1>12, <1>14 DEF Older
  <2>2. FrameOf(e) \in 1 .. f - 1
    BY <1>5, <1>6, <1>14 DEF Older
  <2>3. \A k \in 1 .. Len(g) : FrameOf(g[k]) \in 1 .. f - 1
    BY <1>11, <1>14, <2>2 DEF Older
  <2> QED
    BY <2>1, <2>3 DEF Older
<1>15. s # <<>> /\ (r = <<>> => s[Len(s)].place = n)
  BY <1>1, <1>3, <1>5, <1>7, EmptySeq, SMTT(30)
<1>16. /\ InOrder(g) /\ Gapless(r) /\ Follows(r, g)
       /\ \A f : Older(s, d, f) => Older(r, g, f)
       /\ s # <<>>
       /\ r # <<>> => r[Len(r)] = s[Len(s)]
       /\ r = <<>> => s[Len(s)].place = n
  BY <1>7, <1>10, <1>13, <1>14, <1>15
<1> QED
  BY <1>16, Zenon DEF s, r, u, e, g, n, PacketDone

LEMMA ClientReceives ==
  ASSUME IInv, NEW c \in Clients, ClientInv(c), InOrder(delivered[c]), Receive(c),
         delivered \in [Clients -> Seq(Frames)]
  PROVE  ClientInv(c)' /\ InOrder(delivered'[c])
<1> DEFINE h == head[c]
           b == buf[c]
           w == wire[c]
           s == Stream(c)
           d == delivered[c]
           u == Append(b, Head(w))
           e == [header |-> h, body |-> u]
<1>1. /\ h \in Seq(Units) /\ b \in Seq(Units) /\ w \in Seq(Units)
      /\ s \in Seq(Units) /\ d \in Seq(Frames)
  BY StreamType DEF IInv, TypeOK
<1>2. UNCHANGED <<made, queue, sending, targets, target, copied>>
  BY DEF Receive, ReceiveHeader, ReceiveBody, queueVars, sendVars
<1>3. /\ w # <<>> /\ wire'[c] = Tail(w) /\ u \in Seq(Units) /\ Len(u) = Len(b) + 1
  BY UnitRead
<1>4. Gapless(s) /\ EndInv(c) /\ OrderInv(c)
  BY DEF ClientInv
<1>5. ASSUME Stream(c)' = s, delivered'[c] = d, ReaderInv(c)'
      PROVE  ClientInv(c)' /\ InOrder(delivered'[c])
  BY <1>2, <1>4, <1>5 DEF ClientInv, EndInv, OrderInv
<1>6. CASE head'[c] = h /\ buf'[c] = u /\ delivered'[c] = d /\ ReaderInv(c)'
  <2>1. (h \o u) \o Tail(w) = s
    BY <1>1, <1>3, ReadKeepsStream, ZenonT(60) DEF Stream
  <2>2. Stream(c)' = s
    BY <1>3, <1>6, <2>1 DEF Stream
  <2> QED
    BY <1>5, <1>6, <2>2
<1>7. CASE /\ h = <<>> /\ head'[c] = u /\ buf'[c] = <<>>
           /\ delivered'[c] = d /\ ReaderInv(c)'
  <2>1. (u \o <<>>) \o Tail(w) = s
    <3>1. (u \o <<>>) \o Tail(w) = (<<>> \o b) \o w
      BY <1>1, <1>3, ReadKeepsStream
    <3> QED
      BY <1>7, <3>1 DEF Stream
  <2>2. Stream(c)' = s
    BY <1>3, <1>7, <2>1 DEF Stream
  <2> QED
    BY <1>5, <1>7, <2>2
<1>8. CASE /\ Len(h) = Header /\ Len(u) = Body
           /\ head'[c] = <<>> /\ buf'[c] = <<>>
           /\ delivered'[c] = Append(d, e)
  <2> DEFINE r == Stream(c)'
             g == delivered'[c]
  <2>1. s = (h \o b) \o w /\ r = (<<>> \o <<>>) \o Tail(w)
    BY <1>3, <1>8 DEF Stream
  <2>2. PacketDone(h, b, w, d)
    <3>1. Len(b) + 1 = Body /\ Len(h) = Header
      BY <1>3, <1>8, Zenon
    <3>2. Gapless((h \o b) \o w) /\ Follows((h \o b) \o w, d) /\ InOrder(d)
      BY <1>4, <2>1 DEF OrderInv
    <3> HIDE DEF h, b, w, d
    <3> QED
      BY <1>1, <1>3, <3>1, <3>2, PacketDelivered, Zenon
  <2>3. /\ InOrder(g) /\ Gapless(r) /\ Follows(r, g)
        /\ \A f : Older(s, d, f) => Older(r, g, f)
        /\ s # <<>>
        /\ r # <<>> => r[Len(r)] = s[Len(s)]
        /\ r = <<>> => s[Len(s)].place = PacketLength
    BY <1>8, <2>1, <2>2, Zenon DEF PacketDone
  <2> HIDE DEF s, r, d, g
  <2>4. OrderInv(c)'
    <3>1. OrderInv(c)
      BY <1>4
    <3> QED
      BY <1>2, <2>3, <3>1 DEF OrderInv, s, d, r, g
  <2>5. EndInv(c)'
    <3>1. CASE target = c /\ copied > 0
      <4>1. s # <<>> /\ s[Len(s)] = [frame |-> sending, place |-> copied]
        BY <1>4, <3>1 DEF EndInv, s
      <4>2. copied < PacketLength /\ copied \in Nat
        BY <3>1, PacketSizes, NoneAssumption DEF IInv, CopyInv, TypeOK
      <4>3. r # <<>>
        BY <2>3, <4>1, <4>2
      <4> QED
        BY <1>2, <2>3, <3>1, <4>1, <4>3 DEF EndInv, r
    <3>2. CASE ~(target = c /\ copied > 0)
      <4>1. s[Len(s)].place = PacketLength
        BY <1>4, <2>3, <3>2 DEF EndInv, s
      <4> QED
        BY <1>2, <2>3, <3>2, <4>1 DEF EndInv, r
    <3> QED
      BY <3>1, <3>2
  <2>6. ReaderInv(c)'
    BY <1>8, SizesAssumption, EmptySeq DEF ReaderInv
  <2> QED
    BY <2>3, <2>4, <2>5, <2>6 DEF ClientInv, r, g
<1> QED
  BY <1>6, <1>7, <1>8, UnitRead

LEMMA ReceiveInOrder ==
  ASSUME IInv, IInv', ChannelInv, NEW c \in Clients, Receive(c)
  PROVE  ChannelInv'
<1>1. /\ UNCHANGED <<made, queue, sending, targets, target, copied, conn, torn>>
      /\ conn[c] # "closed"
  BY DEF Receive, ReceiveHeader, ReceiveBody, Consume, queueVars, sendVars
<1>2. \A k \in Clients \ {c} :
          head'[k] = head[k] /\ buf'[k] = buf[k] /\ wire'[k] = wire[k]
          /\ expect'[k] = expect[k] /\ delivered'[k] = delivered[k]
  <2>1. CASE ReceiveHeader(c)
    BY <2>1, ZenonT(60) DEF ReceiveHeader, Consume, Deliver, IInv, TypeOK, ChannelInv
  <2>2. CASE ReceiveBody(c)
    BY <2>2, ZenonT(60) DEF ReceiveBody, Consume, Deliver, NextHeader, IInv, TypeOK, ChannelInv
  <2> QED
    BY <2>1, <2>2 DEF Receive
<1>3. delivered' \in [Clients -> Seq(Frames)]
  <2>1. /\ delivered \in [Clients -> Seq(Frames)]
        /\ head[c] \in Seq(Units) /\ buf[c] \in Seq(Units) /\ wire[c] \in Seq(Units)
        /\ wire[c] # <<>> /\ <<>> \in Seq(Units)
    BY EmptySeq DEF Receive, ReceiveHeader, ReceiveBody, Consume, ChannelInv, IInv, TypeOK
  <2>2. Head(wire[c]) \in Units /\ Append(buf[c], Head(wire[c])) \in Seq(Units)
    BY <2>1, AppendUnit
  <2>3. \A x, y \in Seq(Units) : Deliver(c, x, y) => delivered' \in [Clients -> Seq(Frames)]
    <3> SUFFICES ASSUME NEW x \in Seq(Units), NEW y \in Seq(Units), Deliver(c, x, y)
                 PROVE  delivered' \in [Clients -> Seq(Frames)]
      OBVIOUS
    <3>1. [header |-> x, body |-> y] \in Frames /\ delivered[c] \in Seq(Frames)
      BY <2>1 DEF Frames
    <3>2. Append(delivered[c], [header |-> x, body |-> y]) \in Seq(Frames)
      BY <3>1, FrameAppended
    <3> QED
      BY <2>1, <3>2 DEF Deliver
  <2>4. \/ UNCHANGED delivered
        \/ \E x, y \in Seq(Units) : Deliver(c, x, y)
    BY <2>1, <2>2 DEF Receive, ReceiveHeader, ReceiveBody
  <2> QED
    BY <2>1, <2>3, <2>4
<1>4. ASSUME NEW k \in Clients \ {c}, ClientInv(k)
      PROVE  ClientInv(k)'
  <2>1. /\ Stream(k)' = Stream(k) /\ Gapless(Stream(k)') /\ ReaderInv(k)'
        /\ Follows(Stream(k)', delivered'[k])
    BY <1>2, <1>4, Unmoved
  <2>2. EndInv(k)' /\ OrderInv(k)'
    BY <1>1, <1>2, <1>4, <2>1 DEF ClientInv, EndInv, OrderInv
  <2> QED
    BY <2>1, <2>2 DEF ClientInv
<1>5. c \notin torn => ClientInv(c)' /\ InOrder(delivered'[c])
  BY <1>1, ClientReceives DEF ChannelInv
<1>6. SenderInv'
  BY <1>1 DEF ChannelInv, SenderInv
<1> QED
  BY <1>1, <1>2, <1>3, <1>4, <1>5, <1>6 DEF ChannelInv

LEMMA NextChannel == IInv /\ IInv' /\ ChannelInv /\ [Next]_vars => ChannelInv'
<1> SUFFICES ASSUME IInv, IInv', ChannelInv, [Next]_vars
             PROVE  ChannelInv'
  OBVIOUS
<1>1. CASE Sender
  BY <1>1, TakeFrameInOrder, OthersInOrder, CopyInOrder DEF Sender
<1>2. CASE Broadcast \/ StopServer \/ CloseClients
  BY <1>2, BroadcastInOrder, OthersInOrder
<1>3. ASSUME NEW c \in Clients, Accept(c) \/ Receive(c) \/ ReceiveTimeout(c) \/ Disconnect(c)
      PROVE  ChannelInv'
  BY <1>3, OthersInOrder, ReceiveInOrder, TimeoutInOrder
<1>4. CASE UNCHANGED vars
  BY <1>4 DEF vars, ChannelInv, SenderInv, ClientInv, EndInv, ReaderInv, OrderInv, Stream
<1> QED
  BY <1>1, <1>2, <1>3, <1>4 DEF Next
-----------------------------------------------------------------------------
(* As long as the receiver had no timeout within a frame, every frame it   *)
(* delivers is one frame of the collector, whole and in order              *)
(* (_send_loop 176-265, _tcp_recv_loop 141-188).                           *)
THEOREM DeliveredInOrderHolds == Spec => []DeliveredInOrder
<1>1. ChannelInv => DeliveredInOrder
  BY DEF ChannelInv, InOrder, FrameOf, DeliveredInOrder
<1> QED
  BY InitInv, NextInv, InitChannel, NextChannel, <1>1, PTL DEF Spec
-----------------------------------------------------------------------------
(* What the TCP channel implements: FrameStream.  A receiver that reads     *)
(* takes either nothing or its next frame off the stream; the invariant     *)
(* says of that frame that it is whole, has been broadcast and is newer     *)
(* than those before it.                                                    *)

BoundInv == made <= MaxFrames

LEMMA BoundKept == ASSUME IInv, BoundInv, [Next]_vars PROVE BoundInv'
<1>1. made \in Nat /\ MaxFrames \in Nat
  BY SizesAssumption DEF IInv, TypeOK
<1>2. CASE Broadcast
  BY <1>1, <1>2 DEF Broadcast, BoundInv
<1>3. CASE Sender
  BY <1>3 DEF Sender, TakeFrame, Select, SendRaises, Copy, SendCut, FinishPass, queueVars, BoundInv
<1>4. CASE StopServer \/ CloseClients
  BY <1>4 DEF StopServer, CloseClients, queueVars, BoundInv
<1>5. ASSUME NEW c \in Clients, Accept(c) \/ Receive(c) \/ ReceiveTimeout(c) \/ Disconnect(c)
      PROVE  BoundInv'
  BY <1>5 DEF Accept, Receive, ReceiveHeader, ReceiveBody, ReceiveTimeout, Disconnect,
              queueVars, BoundInv
<1>6. CASE UNCHANGED vars
  BY <1>6 DEF vars, queueVars, BoundInv
<1> QED
  BY <1>2, <1>3, <1>4, <1>5, <1>6 DEF Next

\* The numbers of the frames a receiver has handed on.
NumbersOf(d) == [i \in DOMAIN d |-> TcpNumber(d[i])]

LEMMA NumberIsNat == \A d : TcpNumber(d) \in {0} \cup 1 .. MaxFrames
BY DEF TcpNumber

\* A sequence with one number more, as a function.
LEMMA AppendedNumber ==
  ASSUME NEW m \in Seq(Int), NEW n \in Int
  PROVE  Append(m, n) = [i \in 1 .. Len(m) + 1 |-> IF i \in 1 .. Len(m) THEN m[i] ELSE n]
<1> DEFINE q == Append(m, n)
<1>1. /\ q \in Seq(Int) /\ Len(q) = Len(m) + 1 /\ q[Len(m) + 1] = n /\ Len(m) \in Nat
      /\ \A i \in 1 .. Len(m) : q[i] = m[i]
  BY AppendProperties
<1> HIDE DEF q
<1>2. q = [i \in 1 .. Len(m) + 1 |-> q[i]]
  BY <1>1
<1>3. \A i \in 1 .. Len(m) + 1 : q[i] = IF i \in 1 .. Len(m) THEN m[i] ELSE n
  <2>1. \A i \in 1 .. Len(m) + 1 : i \in 1 .. Len(m) \/ i = Len(m) + 1
    BY <1>1
  <2>2. Len(m) + 1 \notin 1 .. Len(m)
    BY <1>1
  <2> QED
    BY <1>1, <2>1, <2>2
<1> QED
  BY <1>2, <1>3 DEF q

LEMMA NumbersAppended ==
  ASSUME NEW d \in Seq(Frames), NEW e \in Frames
  PROVE  NumbersOf(Append(d, e)) = Append(NumbersOf(d), TcpNumber(e))
<1> DEFINE g == Append(d, e)
           m == NumbersOf(d)
<1>1. /\ Len(d) \in Nat /\ g[Len(d) + 1] = e /\ \A i \in 1 .. Len(d) : g[i] = d[i]
      /\ DOMAIN g = 1 .. Len(d) + 1 /\ DOMAIN d = 1 .. Len(d)
  BY FrameAppended
<1>2. /\ m = [i \in 1 .. Len(d) |-> TcpNumber(d[i])] /\ m \in Seq(Int) /\ Len(m) = Len(d)
      /\ TcpNumber(e) \in Int
  <2>1. \A x : TcpNumber(x) \in Int
    BY NumberIsNat, SizesAssumption
  <2>2. m = [i \in 1 .. Len(d) |-> TcpNumber(d[i])]
    BY <1>1 DEF NumbersOf
  <2> QED
    BY <1>1, <2>1, <2>2
<1> HIDE DEF g, m
<1>3. Append(m, TcpNumber(e)) =
        [i \in 1 .. Len(d) + 1 |-> IF i \in 1 .. Len(d) THEN m[i] ELSE TcpNumber(e)]
  BY <1>2, AppendedNumber
<1>4. NumbersOf(g) = [i \in 1 .. Len(d) + 1 |-> TcpNumber(g[i])]
  BY <1>1 DEF NumbersOf
<1>5. ASSUME NEW i \in 1 .. Len(d) + 1
      PROVE  TcpNumber(g[i]) = IF i \in 1 .. Len(d) THEN m[i] ELSE TcpNumber(e)
  <2>1. i \in 1 .. Len(d) \/ i = Len(d) + 1
    BY <1>1
  <2> QED
    BY <1>1, <1>2, <2>1
<1> QED
  BY <1>3, <1>4, <1>5 DEF g, m

\* A receiver that reads hands nothing on, or one frame.
LEMMA HandsOnOne ==
  ASSUME IInv, delivered \in [Clients -> Seq(Frames)], NEW c \in Clients, Receive(c)
  PROVE  \/ UNCHANGED delivered
         \/ \E e \in Frames : delivered' = [delivered EXCEPT ![c] = Append(@, e)]
<1>1. /\ head[c] \in Seq(Units) /\ buf[c] \in Seq(Units) /\ wire[c] \in Seq(Units)
      /\ wire[c] # <<>> /\ <<>> \in Seq(Units)
  BY EmptySeq DEF Receive, ReceiveHeader, ReceiveBody, Consume, IInv, TypeOK
<1>2. Append(buf[c], Head(wire[c])) \in Seq(Units)
  <2>1. Head(wire[c]) \in Units
    BY <1>1
  <2> QED
    BY <1>1, <2>1, AppendUnit
<1>3. \/ UNCHANGED delivered
      \/ \E x, y \in Seq(Units) : Deliver(c, x, y)
  BY <1>1, <1>2 DEF Receive, ReceiveHeader, ReceiveBody
<1>4. ASSUME NEW x \in Seq(Units), NEW y \in Seq(Units), Deliver(c, x, y)
      PROVE  \E e \in Frames : delivered' = [delivered EXCEPT ![c] = Append(@, e)]
  <2>1. [header |-> x, body |-> y] \in Frames
    BY DEF Frames
  <2> QED
    BY <1>4, <2>1 DEF Deliver
<1> QED
  BY <1>3, <1>4

\* What a reader hands on is what the stream promises.
LEMMA ReceiveStreams ==
  ASSUME IInv, ChannelInv, ChannelInv', BoundInv, NEW c \in Clients, Receive(c)
  PROVE  TcpStream!Next \/ UNCHANGED TcpStream!vars
<1>1. UNCHANGED <<made, torn, conn>> /\ conn[c] # "closed" /\ made \in Nat /\ MaxFrames \in Nat
  BY SizesAssumption DEF Receive, ReceiveHeader, ReceiveBody, Consume, queueVars, IInv, TypeOK
<1>2. delivered \in [Clients -> Seq(Frames)]
  BY DEF ChannelInv
<1>3. CASE UNCHANGED delivered
  BY <1>1, <1>3 DEF TcpStream!vars, TcpGot
<1>4. ASSUME NEW e \in Frames, delivered' = [delivered EXCEPT ![c] = Append(@, e)]
      PROVE  TcpStream!Next
  <2> DEFINE d == delivered[c]
             f == TcpNumber(e)
  <2>1. /\ d \in Seq(Frames) /\ delivered'[c] = Append(d, e)
        /\ Len(Append(d, e)) = Len(d) + 1 /\ Len(d) \in Nat
        /\ Append(d, e)[Len(d) + 1] = e /\ \A i \in 1 .. Len(d) : Append(d, e)[i] = d[i]
    BY <1>2, <1>4, FrameAppended
  <2>2. TcpGot' = [TcpGot EXCEPT ![c] = Append(@, f)]
    <3>1. TcpGot = [k \in Clients |-> NumbersOf(delivered[k])]
      BY DEF TcpGot, NumbersOf
    <3>2. TcpGot' = [k \in Clients |-> NumbersOf(delivered'[k])]
      BY DEF TcpGot, NumbersOf
    <3>3. NumbersOf(delivered'[c]) = Append(NumbersOf(d), f)
      BY <2>1, NumbersAppended
    <3>4. \A k \in Clients : k # c => delivered'[k] = delivered[k]
      BY <1>2, <1>4
    <3> HIDE DEF f
    <3> QED
      BY <3>1, <3>2, <3>3, <3>4
  <2>3. ASSUME c \notin torn
        PROVE  f \in 1 .. made /\ TcpStream!IsNewer(c, f)
    <3>1. ClientInv(c)' /\ InOrder(delivered'[c])
      BY <1>1, <2>3 DEF ChannelInv
    <3>2. Older(Stream(c)', Append(d, e), made + 1)
      BY <1>1, <2>1, <3>1 DEF ClientInv, OrderInv
    <3>3. FrameOf(e) \in 1 .. made
      <4>1. FrameOf(Append(d, e)[Len(d) + 1]) \in 1 .. (made + 1) - 1
        BY <2>1, <3>2 DEF Older
      <4> QED
        BY <1>1, <2>1, <4>1
    <3>4. Intact(e) /\ \A i \in 1 .. Len(d) : FrameOf(d[i]) < FrameOf(e)
      <4>1. InOrder(Append(d, e))
        BY <2>1, <3>1, Zenon
      <4> HIDE DEF d
      <4> QED
        BY <2>1, <4>1 DEF InOrder
    <3>5. f = FrameOf(e)
      BY <1>1, <3>3, <3>4 DEF TcpNumber, FrameOf, BoundInv
    <3>6. \A i \in DOMAIN d : TcpNumber(d[i]) < f
      <4> SUFFICES ASSUME NEW i \in 1 .. Len(d)
                   PROVE  TcpNumber(d[i]) < f
        BY <2>1
      <4>1. TcpNumber(d[i]) = 0 \/ TcpNumber(d[i]) = FrameOf(d[i])
        BY DEF TcpNumber, FrameOf
      <4> QED
        BY <1>1, <3>3, <3>4, <3>5, <4>1
    <3>7. TcpGot[c] = [i \in DOMAIN d |-> TcpNumber(d[i])]
      BY DEF TcpGot
    <3> HIDE DEF d, f
    <3> QED
      BY <3>3, <3>5, <3>6, <3>7 DEF TcpStream!IsNewer
  <2>4. f \in {TcpStream!Damaged} \cup 1 .. MaxFrames
    BY NumberIsNat DEF TcpStream!Damaged
  <2> HIDE DEF f
  <2>5. TcpStream!HandOver(c, f)
    BY <1>1, <2>2, <2>3 DEF TcpStream!HandOver
  <2> QED
    BY <2>4, <2>5 DEF TcpStream!Next
<1> QED
  BY <1>2, <1>3, <1>4, HandsOnOne

\* Each step is one of the stream, or none.
LEMMA TcpStep ==
  ASSUME IInv, ChannelInv, ChannelInv', BoundInv, [Next]_vars
  PROVE  [TcpStream!Next]_(TcpStream!vars)
<1> USE DEF queueVars, sendVars, netVars, recvVars
<1>1. ASSUME UNCHANGED <<made, delivered, torn>> PROVE UNCHANGED TcpStream!vars
  BY <1>1 DEF TcpStream!vars, TcpGot
<1>2. CASE Broadcast
  <2>1. made < MaxFrames /\ made' = made + 1 /\ UNCHANGED <<delivered, torn>>
    BY <1>2 DEF Broadcast
  <2>2. TcpGot' = TcpGot
    BY <2>1 DEF TcpGot
  <2> QED
    BY <2>1, <2>2 DEF TcpStream!Next, TcpStream!Broadcast
<1>3. CASE Sender
  BY <1>1, <1>3 DEF Sender, TakeFrame, Select, SendRaises, Copy, SendCut, FinishPass
<1>4. CASE StopServer \/ CloseClients
  BY <1>1, <1>4 DEF StopServer, CloseClients
<1>5. ASSUME NEW c \in Clients, Accept(c) \/ Disconnect(c)
      PROVE  UNCHANGED TcpStream!vars
  BY <1>1, <1>5 DEF Accept, Disconnect
<1>6. ASSUME NEW c \in Clients, ReceiveTimeout(c)
      PROVE  TcpStream!Next
  <2>1. torn' = torn \cup {c} /\ UNCHANGED <<made, delivered>>
    BY <1>6 DEF ReceiveTimeout
  <2>2. TcpGot' = TcpGot
    BY <2>1 DEF TcpGot
  <2> QED
    BY <2>1, <2>2 DEF TcpStream!Next, TcpStream!Disturb
<1>7. CASE UNCHANGED vars
  BY <1>1, <1>7 DEF vars
<1> QED
  BY <1>2, <1>3, <1>4, <1>5, <1>6, <1>7, ReceiveStreams DEF Next

(* The TCP channel keeps the promise of FrameStream: what a receiver hands *)
(* on are frames that were broadcast, whole, each newer than the ones      *)
(* before, until a timeout within a frame (broadcast_frame 141-174,        *)
(* _send_loop 176-265, _tcp_recv_loop 141-188).                            *)
THEOREM TcpIsStreamHolds == Spec => TcpIsStream
<1>1. Init => TcpStream!Init /\ BoundInv
  <2> SUFFICES ASSUME Init PROVE TcpStream!Init /\ BoundInv
    OBVIOUS
  <2>1. \A c \in Clients : NumbersOf(delivered[c]) = <<>>
    <3>1. DOMAIN <<>> = {}
      OBVIOUS
    <3> QED
      BY <3>1 DEF Init, NumbersOf
  <2>2. TcpGot = [c \in Clients |-> NumbersOf(delivered[c])]
    BY DEF TcpGot, NumbersOf
  <2>3. TcpGot = [c \in Clients |-> <<>>]
    BY <2>1, <2>2
  <2> QED
    BY <2>3, SizesAssumption DEF Init, TcpStream!Init, BoundInv
<1>2. IInv /\ BoundInv /\ [Next]_vars => BoundInv'
  BY BoundKept
<1>3. IInv /\ ChannelInv /\ ChannelInv' /\ BoundInv /\ [Next]_vars => [TcpStream!Next]_(TcpStream!vars)
  BY TcpStep
<1> QED
  BY InitInv, NextInv, InitChannel, NextChannel, <1>1, <1>2, <1>3, PTL DEF Spec, TcpIsStream, TcpStream!Spec
-----------------------------------------------------------------------------
(***************************************************************************)
(* UDP: nothing cut is handed on, and without faults frames arrive whole   *)
(* and in order.                                                           *)
(*                                                                         *)
(* The first rests on the cache alone: an entry with a cut piece has no    *)
(* first fragment (IsEntry), whatever arrives.  The second rests on what   *)
(* is under way: the datagrams on the network and the one the collector    *)
(* sends next are a stream in which every datagram is the one after its    *)
(* predecessor; the cache holds the one before its first; and all that was *)
(* handed on is of older frames (FlowOf).  The collector may stop in the   *)
(* middle of a frame, and ids repeat: an entry left behind by another      *)
(* frame is overwritten before it is looked at.                            *)
(***************************************************************************)

(* Sequences of anything. *)

IsSeq(s) == s \in Seq(Range(s))

\* Something appended to a sequence.
LEMMA SeqAppend ==
  ASSUME NEW s, IsSeq(s), NEW e
  PROVE  /\ IsSeq(Append(s, e)) /\ Len(s) \in Nat /\ Len(Append(s, e)) = Len(s) + 1
         /\ DOMAIN s = 1 .. Len(s) /\ DOMAIN Append(s, e) = 1 .. Len(s) + 1
         /\ \A i \in 1 .. Len(s) : Append(s, e)[i] = s[i]
         /\ Append(s, e)[Len(s) + 1] = e
         /\ Append(s, e) # <<>>
<1> DEFINE S == Range(s) \cup {e}
           t == Append(s, e)
<1>1. s \in Seq(S) /\ e \in S
  BY SeqMonotonic DEF IsSeq
<1>2. /\ t \in Seq(S) /\ Len(t) = Len(s) + 1 /\ t # <<>>
      /\ \A i \in 1 .. Len(s) : t[i] = s[i]
      /\ t[Len(s) + 1] = e
  BY <1>1, AppendProperties
<1>3. Len(s) \in Nat /\ DOMAIN s = 1 .. Len(s) /\ DOMAIN t = 1 .. Len(t)
  BY <1>1, <1>2, LenProperties
<1> HIDE DEF t
<1>4. t \in Seq(Range(t))
  BY <1>2, SeqOfRange DEF Range
<1> QED
  BY <1>2, <1>3, <1>4 DEF IsSeq, t

\* A sequence without its first element.
LEMMA SeqTail ==
  ASSUME NEW s, IsSeq(s), s # <<>>
  PROVE  /\ IsSeq(Tail(s)) /\ Len(s) \in Nat \ {0} /\ Len(Tail(s)) = Len(s) - 1
         /\ DOMAIN s = 1 .. Len(s) /\ DOMAIN Tail(s) = 1 .. Len(s) - 1
         /\ Head(s) = s[1]
         /\ \A i \in 1 .. Len(s) - 1 : Tail(s)[i] = s[i + 1]
<1> DEFINE S == Range(s)
           t == Tail(s)
<1>1. s \in Seq(S)
  BY DEF IsSeq
<1>2. /\ t \in Seq(S) /\ Len(t) = Len(s) - 1 /\ Head(s) = s[1]
      /\ \A i \in 1 .. Len(t) : t[i] = s[i + 1]
  BY <1>1, HeadTailProperties
<1>3. Len(s) \in Nat \ {0} /\ DOMAIN s = 1 .. Len(s) /\ DOMAIN t = 1 .. Len(t)
  BY <1>1, <1>2, LenProperties, EmptySeq
<1> HIDE DEF t
<1>4. t \in Seq(Range(t))
  BY <1>2, SeqOfRange DEF Range
<1> QED
  BY <1>2, <1>3, <1>4 DEF IsSeq, t

\* A sequence without one of its elements has only elements it had.
LEMMA SeqRemove ==
  ASSUME NEW s, IsSeq(s), NEW i \in DOMAIN s
  PROVE  /\ IsSeq(U!RemoveAt(s, i))
         /\ \A j \in DOMAIN U!RemoveAt(s, i) : \E k \in DOMAIN s : U!RemoveAt(s, i)[j] = s[k]
<1> DEFINE S == Range(s)
           l == SubSeq(s, 1, i - 1)
           r == SubSeq(s, i + 1, Len(s))
<1>1. s \in Seq(S) /\ Len(s) \in Nat /\ DOMAIN s = 1 .. Len(s) /\ i \in 1 .. Len(s)
  BY LenProperties DEF IsSeq
<1>2. \A k \in 1 .. Len(s) : s[k] \in S
  BY <1>1 DEF Range
<1>3. l \in Seq(S)
  BY <1>1, <1>2, SubSeqProperties
<1>4. r \in Seq(S)
  BY <1>1, <1>2, SubSeqProperties
<1> DEFINE t == l \o r
<1>5. t \in Seq(S)
  BY <1>3, <1>4, ConcatProperties
<1> HIDE DEF l, r, t
<1>6. t \in Seq(Range(t))
  BY <1>5, SeqOfRange DEF Range
<1>7. \A j \in DOMAIN t : t[j] \in S
  BY <1>5
<1>8. U!RemoveAt(s, i) = t
  BY DEF U!RemoveAt, l, r, t
<1> QED
  BY <1>6, <1>7, <1>8 DEF IsSeq, Range
-----------------------------------------------------------------------------
(* Datagrams and cache entries. *)

\* Datagram(f, k), of frames fs.
Dg(fs, f, k) ==
    [frame |-> f, frag |-> k, total |-> fs[f].frags,
     short |-> fs[f].short /\ k = fs[f].frags]

\* A datagram that one of the frames fs is cut into.
IsOf(fs, d) ==
    /\ d.frame \in 1 .. Len(fs) /\ d.frag \in 1 .. fs[d.frame].frags
    /\ d = Dg(fs, d.frame, d.frag)

\* Frames as they are broadcast.
IsFrames(fs) == fs \in Seq(Sizes) /\ Len(fs) <= UdpFrames

\* A fragment of a frame is a datagram of it.
LEMMA DgIsOf ==
  ASSUME NEW fs, IsFrames(fs), NEW f \in 1 .. Len(fs), NEW k \in 1 .. fs[f].frags
  PROVE  /\ IsOf(fs, Dg(fs, f, k))
         /\ Dg(fs, f, k).frame = f /\ Dg(fs, f, k).frag = k
BY DEF IsOf, Dg

\* What is known of the fields of a datagram.
LEMMA DatagramFields ==
  ASSUME NEW fs, IsFrames(fs), NEW d, IsOf(fs, d)
  PROVE  /\ d.frame \in 1 .. UdpFrames /\ d.frame \in Nat /\ d.frag \in Nat \ {0}
         /\ d.total = fs[d.frame].frags /\ d.total \in Nat \ {0} /\ d.frag <= d.total
         /\ d.short \in BOOLEAN
         /\ d.short => d.frag = d.total /\ d.total % 2 = 0
<1> DEFINE f == d.frame
           k == d.frag
           s == fs[f]
<1>1. Len(fs) \in Nat /\ f \in 1 .. Len(fs) /\ Len(fs) <= UdpFrames /\ k \in 1 .. s.frags
  BY LenProperties DEF IsFrames, IsOf
<1>2. s \in Sizes
  BY <1>1, ElementOfSeq DEF IsFrames
<1>3. s.frags \in Nat \ {0} /\ s.short \in BOOLEAN /\ (s.short => s.frags % 2 = 0)
  BY <1>2, UdpSizesAssumption
<1>4. d = Dg(fs, f, k)
  BY DEF IsOf
<1> HIDE DEF f, k, s
<1>5. /\ Dg(fs, f, k).total = s.frags
      /\ Dg(fs, f, k).short \in BOOLEAN
      /\ Dg(fs, f, k).short => s.short /\ k = s.frags
  BY <1>3 DEF Dg, s
<1>6. d.total = s.frags /\ d.short \in BOOLEAN /\ (d.short => s.short /\ k = s.frags)
  BY <1>4, <1>5
<1>7. f \in 1 .. UdpFrames /\ f \in Nat /\ k \in Nat \ {0} /\ k <= s.frags
  BY <1>1, <1>3, UdpBoundsAssumption
<1> QED
  BY <1>3, <1>6, <1>7 DEF f, k, s

\* A frame more makes no difference to the datagrams of the others.
LEMMA MoreFrames ==
  ASSUME NEW fs, IsFrames(fs), Len(fs) < UdpFrames, NEW size \in Sizes
  PROVE  /\ IsFrames(Append(fs, size))
         /\ Len(fs) \in Nat /\ Len(Append(fs, size)) = Len(fs) + 1
         /\ Append(fs, size)[Len(fs) + 1] = size
         /\ \A f \in 1 .. Len(fs) : Append(fs, size)[f] = fs[f]
         /\ \A d : IsOf(fs, d) => IsOf(Append(fs, size), d)
<1> DEFINE t == Append(fs, size)
<1>1. /\ t \in Seq(Sizes) /\ Len(t) = Len(fs) + 1 /\ t[Len(fs) + 1] = size
      /\ \A f \in 1 .. Len(fs) : t[f] = fs[f]
  BY AppendProperties DEF IsFrames
<1>2. Len(fs) \in Nat
  BY LenProperties DEF IsFrames
<1> HIDE DEF t
<1>3. IsFrames(t)
  BY <1>1, <1>2, UdpBoundsAssumption DEF IsFrames
<1>4. ASSUME NEW d, IsOf(fs, d)
      PROVE  IsOf(t, d)
  <2>1. d.frame \in 1 .. Len(fs) /\ d.frag \in 1 .. fs[d.frame].frags /\ d = Dg(fs, d.frame, d.frag)
    BY <1>4 DEF IsOf
  <2>2. t[d.frame] = fs[d.frame] /\ d.frame \in 1 .. Len(t)
    BY <1>1, <1>2, <2>1
  <2>3. Dg(t, d.frame, d.frag) = Dg(fs, d.frame, d.frag)
    BY <2>2 DEF Dg
  <2> QED
    BY <2>1, <2>2, <2>3 DEF IsOf
<1> QED
  BY <1>1, <1>2, <1>3, <1>4 DEF t

\* A cache entry: the fragment that was read as a first one is not cut, or
\* the frame's first fragment is not there.
IsEntry(e) ==
    /\ e.total \in Nat \ {0}
    /\ U!IsChunks(e.chunks)
    /\ \A k \in DOMAIN e.chunks : e.chunks[k].cut => 1 \notin DOMAIN e.chunks

\* What a datagram leaves in the cache is an entry.
LEMMA StoreKeeps ==
  ASSUME NEW fs, IsFrames(fs), NEW d, IsOf(fs, d),
         NEW entry, entry = U!Nothing \/ IsEntry(entry)
  PROVE  U!Store(entry, d) = U!Nothing \/ IsEntry(U!Store(entry, d))
<1>1. /\ d.frame \in 1 .. UdpFrames /\ d.frag \in Nat \ {0} /\ d.total \in Nat \ {0}
      /\ d.short \in BOOLEAN /\ (d.short => d.frag = d.total /\ d.total % 2 = 0)
  BY DatagramFields
<1>2. d.short => d.frag # 1
  BY <1>1
<1>3. /\ U!Piece(d) \in U!Pieces /\ U!Piece(d).frag = d.frag
      /\ U!Piece(d).cut => ~d.short /\ d.frag # 1
  <2>1. (d.frag > 1 /\ ~d.short) \in BOOLEAN
    OBVIOUS
  <2>2. U!Piece(d) \in U!Pieces
    BY <1>1, <2>1 DEF U!Piece, U!Pieces
  <2>3. U!Piece(d).frag = d.frag
    BY DEF U!Piece
  <2>4. U!Piece(d).cut => d.frag > 1 /\ ~d.short
    BY DEF U!Piece
  <2> QED
    BY <2>2, <2>3, <2>4, <1>1
<1> DEFINE p == U!Piece(d)
<1>4. CASE ~d.short
  <2> DEFINE e == U!OnlyPiece(d)
  <2>1. e.total = d.total /\ DOMAIN e.chunks = {d.frag} /\ e.chunks[d.frag] = p
    BY DEF U!OnlyPiece
  <2> HIDE DEF e, p
  <2>2. IsEntry(e)
    BY <1>1, <1>3, <2>1 DEF IsEntry, U!IsChunks, p
  <2> QED
    BY <1>4, <2>2 DEF U!Store, e
<1>5. CASE d.short /\ entry # U!Nothing
  <2> DEFINE e == U!AddPiece(entry, d)
  <2>1. /\ e.total = entry.total /\ DOMAIN e.chunks = DOMAIN entry.chunks \cup {d.frag}
        /\ e.chunks[d.frag] = p
        /\ \A k \in DOMAIN entry.chunks \ {d.frag} : e.chunks[k] = entry.chunks[k]
    BY DEF U!AddPiece
  <2> HIDE DEF e, p
  <2>2. IsEntry(entry) /\ d.frag # 1 /\ ~p.cut
    BY <1>2, <1>3, <1>5 DEF p
  <2>3. e.total \in Nat \ {0}
    BY <2>1, <2>2 DEF IsEntry
  <2>4. U!IsChunks(e.chunks)
    BY <1>1, <1>3, <2>1, <2>2 DEF IsEntry, U!IsChunks, p
  <2>5. \A k \in DOMAIN e.chunks : e.chunks[k].cut => 1 \notin DOMAIN e.chunks
    BY <2>1, <2>2 DEF IsEntry
  <2> QED
    BY <1>5, <2>3, <2>4, <2>5 DEF IsEntry, U!Store, e
<1> QED
  BY <1>4, <1>5 DEF U!Store

\* A frame that was put together: nothing is missing and nothing is cut.
IsUncut(ch) ==
    U!IsChunks(ch) /\ 1 \in DOMAIN ch /\ \A k \in DOMAIN ch : ~ch[k].cut

\* What is handed on is a frame put together.
LEMMA CompleteIsUncut ==
  ASSUME NEW e, IsEntry(e), DOMAIN e.chunks = 1 .. e.total
  PROVE  IsUncut(e.chunks)
<1>1. 1 \in DOMAIN e.chunks
  BY DEF IsEntry
<1> QED
  BY <1>1 DEF IsEntry, IsUncut
-----------------------------------------------------------------------------
(* What the state variables hold. *)

ServerTypes ==
    /\ udpServer \in {"off", "binding", "up", "failed", "stopped"}
    /\ registered \subseteq UdpClients /\ udpTargets \subseteq UdpClients
    /\ asking \subseteq UdpClients
    /\ client \in [UdpClients -> {"new", "open", "closed"}]
    /\ faults \in [UdpClients -> 0 .. MaxFaults]

FrameTypes ==
    /\ IsFrames(frames)
    /\ next \in Nat
    /\ next # 0 => U!Number >= 1 /\ next <= frames[U!Number].frags
    /\ addressed \in [UdpClients -> SUBSET (1 .. U!Number)]

NetTypes ==
    /\ DOMAIN net = UdpClients
    /\ \A c \in UdpClients : IsSeq(net[c]) /\ \A i \in DOMAIN net[c] : IsOf(frames, net[c][i])

CacheTypes ==
    /\ DOMAIN cache = UdpClients /\ DOMAIN udpDelivered = UdpClients
    /\ \A c \in UdpClients :
          /\ DOMAIN cache[c] = U!Ids
          /\ \A id \in U!Ids : cache[c][id] = U!Nothing \/ IsEntry(cache[c][id])
          /\ IsSeq(udpDelivered[c])
          /\ \A i \in DOMAIN udpDelivered[c] : IsUncut(udpDelivered[c][i])

Types == ServerTypes /\ FrameTypes /\ NetTypes /\ CacheTypes

\* What a receiver makes of a datagram keeps the types of what it keeps.
LEMMA HandleTypes ==
  ASSUME Types, NEW c \in UdpClients, NEW d, IsOf(frames, d), U!Handle(c, d)
  PROVE  CacheTypes'
<1> DEFINE id == d.frame % Wrap
           entry == U!Store(cache[c][id], d)
<1>1. id \in U!Ids
  <2>1. d.frame \in Nat /\ Wrap \in Nat \ {0}
    BY DatagramFields, UdpBoundsAssumption DEF Types, FrameTypes
  <2> QED
    BY <2>1 DEF U!Ids
<1>2. entry = U!Nothing \/ IsEntry(entry)
  BY <1>1, StoreKeeps DEF Types, FrameTypes, CacheTypes
<1> HIDE DEF id, entry
<1>3. CASE /\ U!Complete(entry) /\ DOMAIN entry.chunks = 1 .. entry.total
           /\ udpDelivered' = [udpDelivered EXCEPT ![c] = Append(@, entry.chunks)]
           /\ cache' = [cache EXCEPT ![c][id] = U!Nothing]
  <2>1. IsUncut(entry.chunks)
    BY <1>2, <1>3, CompleteIsUncut DEF U!Complete
  <2>2. /\ DOMAIN udpDelivered' = UdpClients /\ udpDelivered'[c] = Append(udpDelivered[c], entry.chunks)
        /\ \A b \in UdpClients \ {c} : udpDelivered'[b] = udpDelivered[b]
    BY <1>3 DEF Types, CacheTypes
  <2>3. /\ DOMAIN cache' = UdpClients /\ DOMAIN cache'[c] = U!Ids /\ cache'[c][id] = U!Nothing
        /\ \A b \in UdpClients \ {c} : cache'[b] = cache[b]
        /\ \A j \in U!Ids \ {id} : cache'[c][j] = cache[c][j]
    BY <1>1, <1>3 DEF Types, CacheTypes
  <2>4. /\ IsSeq(udpDelivered[c]) /\ \A i \in DOMAIN udpDelivered[c] : IsUncut(udpDelivered[c][i])
    BY DEF Types, CacheTypes
  <2>5. /\ IsSeq(udpDelivered'[c]) /\ DOMAIN udpDelivered'[c] = 1 .. Len(udpDelivered[c]) + 1
        /\ DOMAIN udpDelivered[c] = 1 .. Len(udpDelivered[c]) /\ Len(udpDelivered[c]) \in Nat
        /\ \A i \in DOMAIN udpDelivered[c] : udpDelivered'[c][i] = udpDelivered[c][i]
        /\ udpDelivered'[c][Len(udpDelivered[c]) + 1] = entry.chunks
    BY <2>2, <2>4, SeqAppend
  <2>6. ASSUME NEW i \in DOMAIN udpDelivered'[c]
        PROVE  IsUncut(udpDelivered'[c][i])
    <3>1. i \in DOMAIN udpDelivered[c] \/ i = Len(udpDelivered[c]) + 1
      BY <2>5
    <3> QED
      BY <3>1, <2>1, <2>4, <2>5
  <2>7. ASSUME NEW b \in UdpClients
        PROVE  /\ DOMAIN cache'[b] = U!Ids
               /\ \A j \in U!Ids : cache'[b][j] = U!Nothing \/ IsEntry(cache'[b][j])
               /\ IsSeq(udpDelivered'[b]) /\ \A i \in DOMAIN udpDelivered'[b] : IsUncut(udpDelivered'[b][i])
    <3>1. CASE b = c
      BY <3>1, <2>3, <2>5, <2>6 DEF Types, CacheTypes
    <3>2. CASE b # c
      BY <3>2, <2>2, <2>3 DEF Types, CacheTypes
    <3> QED
      BY <3>1, <3>2
  <2> QED
    BY <2>2, <2>3, <2>7 DEF CacheTypes
<1>4. CASE cache' = [cache EXCEPT ![c][id] = entry] /\ UNCHANGED udpDelivered
  <2>1. /\ DOMAIN cache' = UdpClients /\ DOMAIN cache'[c] = U!Ids /\ cache'[c][id] = entry
        /\ \A b \in UdpClients \ {c} : cache'[b] = cache[b]
        /\ \A j \in U!Ids \ {id} : cache'[c][j] = cache[c][j]
    BY <1>1, <1>4 DEF Types, CacheTypes
  <2> QED
    BY <2>1, <1>2, <1>4 DEF Types, CacheTypes
<1> QED
  BY <1>3, <1>4 DEF U!Handle, id, entry

\* Appending datagrams of the frames sent keeps the types of the network.
LEMMA NetAppend ==
  ASSUME NEW s, IsSeq(s), NEW fs, \A i \in DOMAIN s : IsOf(fs, s[i]), NEW d, IsOf(fs, d)
  PROVE  IsSeq(Append(s, d)) /\ \A i \in DOMAIN Append(s, d) : IsOf(fs, Append(s, d)[i])
<1> DEFINE t == Append(s, d)
<1>1. /\ IsSeq(t) /\ Len(s) \in Nat /\ DOMAIN s = 1 .. Len(s) /\ DOMAIN t = 1 .. Len(s) + 1
      /\ \A i \in 1 .. Len(s) : t[i] = s[i]
      /\ t[Len(s) + 1] = d
  BY SeqAppend
<1> HIDE DEF t
<1>2. ASSUME NEW i \in DOMAIN t
      PROVE  IsOf(fs, t[i])
  <2>1. i \in DOMAIN s \/ i = Len(s) + 1
    BY <1>1
  <2> QED
    BY <2>1, <1>1
<1> QED
  BY <1>1, <1>2 DEF t

\* A fault keeps the types of the network.
LEMMA FaultTypes == ASSUME Types, NEW c \in UdpClients, U!Fault(c) PROVE NetTypes'
<1> DEFINE s == net[c]
<1>1. IsSeq(s) /\ \A i \in DOMAIN s : IsOf(frames, s[i])
  BY DEF Types, NetTypes
<1>2. PICK i \in DOMAIN s :
         \/ net' = [net EXCEPT ![c] = U!RemoveAt(@, i)]
         \/ net' = [net EXCEPT ![c] = Append(U!RemoveAt(@, i), @[i])]
         \/ net' = [net EXCEPT ![c] = Append(@, @[i])]
  BY DEF U!Fault
<1>3. \A b \in UdpClients \ {c} : net'[b] = net[b]
  BY <1>2 DEF Types, NetTypes
<1>4. DOMAIN net' = UdpClients /\ frames' = frames
  BY <1>2 DEF Types, NetTypes, U!Fault, U!sendVars
<1>5. net'[c] \in {U!RemoveAt(s, i), Append(U!RemoveAt(s, i), s[i]), Append(s, s[i])}
  BY <1>2 DEF Types, NetTypes
<1> HIDE DEF s
<1> DEFINE r == U!RemoveAt(s, i)
<1>6. IsSeq(r) /\ \A j \in DOMAIN r : IsOf(frames, r[j])
  BY <1>1, SeqRemove
<1> HIDE DEF r
<1>7. /\ IsSeq(Append(r, s[i])) /\ \A j \in DOMAIN Append(r, s[i]) : IsOf(frames, Append(r, s[i])[j])
      /\ IsSeq(Append(s, s[i])) /\ \A j \in DOMAIN Append(s, s[i]) : IsOf(frames, Append(s, s[i])[j])
  BY <1>1, <1>6, NetAppend
<1>8. IsSeq(net'[c]) /\ \A j \in DOMAIN net'[c] : IsOf(frames, net'[c][j])
  BY <1>5, <1>6, <1>7 DEF r
<1> QED
  BY <1>3, <1>4, <1>8 DEF Types, NetTypes
-----------------------------------------------------------------------------
(* Each step keeps the types. *)

\* The program starts with them.
LEMMA InitTypes == U!Init => Types
<1> SUFFICES ASSUME U!Init PROVE Types
  OBVIOUS
<1> USE UdpBoundsAssumption DEF U!Init
<1>1. ServerTypes
  BY DEF ServerTypes
<1>2. FrameTypes
  <2>1. frames \in Seq(Sizes) /\ Len(frames) = 0
    OBVIOUS
  <2> QED
    BY <2>1 DEF FrameTypes, IsFrames, U!Number
<1>3. IsSeq(<<>>) /\ DOMAIN <<>> = {}
  BY DEF IsSeq
<1>4. NetTypes /\ CacheTypes
  BY <1>3 DEF NetTypes, CacheTypes
<1> QED
  BY <1>1, <1>2, <1>4 DEF Types

\* Steps that touch neither the frames nor what is under way.
LEMMA ServerStepTypes ==
  ASSUME Types, ServerTypes', UNCHANGED <<frames, next, addressed, net, cache, udpDelivered>>
  PROVE  Types'
BY DEF Types, FrameTypes, NetTypes, CacheTypes, U!Number

\* Starting, binding, stopping; registrations that arrive or do not.
LEMMA RegistryTypes ==
  ASSUME Types,
         \/ U!Start \/ U!Bind \/ U!Stop
         \/ \E c \in UdpClients : U!Connect(c) \/ U!Register(c) \/ U!RegistrationLost(c)
  PROVE  Types'
<1> USE DEF Types, ServerTypes, U!clientVars, U!sendVars, U!recvVars, U!serverVars
<1>1. CASE U!Start \/ U!Bind \/ U!Stop
  BY <1>1, ServerStepTypes DEF U!Start, U!Bind, U!Stop
<1>2. ASSUME NEW c \in UdpClients, U!Connect(c) \/ U!Register(c)
      PROVE  Types'
  BY <1>2, ServerStepTypes DEF U!Connect, U!Register
<1>3. ASSUME NEW c \in UdpClients, U!RegistrationLost(c)
      PROVE  Types'
  <2>1. faults'[c] \in 0 .. MaxFaults
    BY <1>3, UdpBoundsAssumption DEF U!RegistrationLost
  <2>2. faults' \in [UdpClients -> 0 .. MaxFaults]
    BY <1>3, <2>1 DEF U!RegistrationLost
  <2> QED
    BY <1>3, <2>2, ServerStepTypes DEF U!RegistrationLost
<1> QED
  BY <1>1, <1>2, <1>3

\* A frame more: its clients are those registered.
LEMMA BroadcastTypes == ASSUME Types, NEW size \in Sizes, U!Broadcast(size) PROVE Types'
<1> USE DEF Types, U!clientVars, U!recvVars, U!serverVars
<1>1. /\ IsFrames(frames) /\ U!Number < UdpFrames /\ frames' = Append(frames, size)
  BY DEF FrameTypes, U!Broadcast
<1>2. /\ IsFrames(frames') /\ Len(frames) \in Nat /\ Len(frames') = Len(frames) + 1
      /\ frames'[Len(frames) + 1] = size
      /\ \A d : IsOf(frames, d) => IsOf(frames', d)
  BY <1>1, MoreFrames DEF U!Number
<1>3. size.frags \in Nat \ {0}
  BY UdpSizesAssumption
<1>4. ServerTypes' /\ NetTypes' /\ CacheTypes'
  BY <1>2 DEF U!Broadcast, ServerTypes, NetTypes, CacheTypes
<1>5. CASE size.frags <= MaxFrags /\ registered # {}
  <2>1. /\ next' = 1
        /\ addressed' = [c \in UdpClients |-> IF c \in registered
                            THEN addressed[c] \cup {U!Number + 1} ELSE addressed[c]]
    BY <1>5 DEF U!Broadcast
  <2>2. U!Number + 1 \in 1 .. U!Number' /\ (1 .. U!Number) \subseteq (1 .. U!Number')
    BY <1>2 DEF U!Number
  <2>3. addressed' \in [UdpClients -> SUBSET (1 .. U!Number')]
    BY <2>1, <2>2 DEF FrameTypes
  <2>4. next' \in Nat /\ U!Number' >= 1 /\ next' <= frames'[U!Number'].frags
    BY <2>1, <1>2, <1>3 DEF U!Number
  <2> QED
    BY <1>2, <1>4, <2>3, <2>4 DEF FrameTypes
<1>6. CASE ~(size.frags <= MaxFrags /\ registered # {})
  <2>1. next' = next /\ next = 0 /\ addressed' = addressed
    BY <1>6 DEF U!Broadcast
  <2>2. (1 .. U!Number) \subseteq (1 .. U!Number')
    BY <1>2 DEF U!Number
  <2>3. addressed' \in [UdpClients -> SUBSET (1 .. U!Number')]
    BY <2>1, <2>2 DEF FrameTypes
  <2> QED
    BY <1>2, <1>4, <2>1, <2>3 DEF FrameTypes
<1> QED
  BY <1>5, <1>6

\* The frame being sent is one of those broadcast.
LEMMA CurrentFrame ==
  ASSUME Types, next # 0
  PROVE  /\ U!Number \in 1 .. Len(frames) /\ U!Number \in Nat
         /\ next \in 1 .. frames[U!Number].frags
         /\ frames[U!Number].frags \in Nat \ {0} /\ frames[U!Number] \in Sizes
<1>1. IsFrames(frames) /\ U!Number >= 1 /\ next <= frames[U!Number].frags /\ next \in Nat
  BY DEF Types, FrameTypes
<1>2. U!Number \in Nat
  BY <1>1, LenProperties DEF IsFrames, U!Number
<1>3. U!Number \in 1 .. Len(frames)
  BY <1>1, <1>2 DEF U!Number
<1>4. frames[U!Number] \in Sizes
  BY <1>1, <1>3, ElementOfSeq DEF IsFrames
<1>5. frames[U!Number].frags \in Nat \ {0}
  BY <1>4, UdpSizesAssumption
<1> QED
  BY <1>1, <1>2, <1>3, <1>4, <1>5

\* A fragment is sent.
LEMMA SendTypes == ASSUME Types, U!SendFragment PROVE Types'
<1> DEFINE d == U!Datagram(U!Number, next)
<1>1. next # 0
  BY DEF U!SendFragment
<1>2. IsOf(frames, d)
  <2>1. d = Dg(frames, U!Number, next)
    BY DEF U!Datagram, Dg
  <2>2. IsFrames(frames)
    BY DEF Types, FrameTypes
  <2> QED
    BY <1>1, <2>1, <2>2, CurrentFrame, DgIsOf
<1> HIDE DEF d
<1>3. UNCHANGED <<udpServer, registered, client, asking, frames, addressed, cache, udpDelivered, faults>>
  BY DEF U!SendFragment, U!serverVars, U!clientVars, U!recvVars
<1>4. /\ DOMAIN net' = UdpClients
      /\ \A c \in UdpClients : net'[c] = net[c] \/ net'[c] = Append(net[c], d)
  BY DEF U!SendFragment, d
<1>5. NetTypes'
  <2>1. ASSUME NEW c \in UdpClients
        PROVE  IsSeq(net'[c]) /\ \A i \in DOMAIN net'[c] : IsOf(frames, net'[c][i])
    <3>1. IsSeq(net[c]) /\ \A i \in DOMAIN net[c] : IsOf(frames, net[c][i])
      BY DEF Types, NetTypes
    <3>2. IsSeq(Append(net[c], d)) /\ \A i \in DOMAIN Append(net[c], d) : IsOf(frames, Append(net[c], d)[i])
      BY <1>2, <3>1, NetAppend
    <3> QED
      BY <1>4, <3>1, <3>2
  <2> QED
    BY <1>3, <1>4, <2>1 DEF NetTypes
<1>6. ServerTypes'
  BY <1>3 DEF Types, ServerTypes, U!SendFragment
<1>7. FrameTypes'
  <2>1. next' \in Nat /\ (next' # 0 => next' <= frames[U!Number].frags)
    BY <1>1, CurrentFrame DEF U!SendFragment
  <2>2. U!Number' = U!Number
    BY <1>3 DEF U!Number
  <2> QED
    BY <1>1, <1>3, <2>1, <2>2, CurrentFrame DEF Types, FrameTypes, U!Number
<1>8. CacheTypes'
  BY <1>3 DEF Types, CacheTypes
<1> QED
  BY <1>5, <1>6, <1>7, <1>8 DEF Types

\* A client closes: what was under way to it is gone.
LEMMA DisconnectTypes == ASSUME Types, NEW c \in UdpClients, U!Disconnect(c) PROVE Types'
<1>1. UNCHANGED <<udpServer, registered, asking, frames, next, udpTargets, addressed, cache, udpDelivered, faults>>
  BY DEF U!Disconnect, U!serverVars, U!sendVars, U!recvVars
<1>2. IsSeq(<<>>) /\ DOMAIN <<>> = {}
  BY DEF IsSeq
<1>3. NetTypes'
  BY <1>1, <1>2 DEF U!Disconnect, Types, NetTypes
<1>4. ServerTypes' /\ FrameTypes' /\ CacheTypes'
  BY <1>1 DEF U!Disconnect, Types, ServerTypes, FrameTypes, CacheTypes, U!Number
<1> QED
  BY <1>3, <1>4 DEF Types

\* A datagram is read.
LEMMA ReceiveTypes == ASSUME Types, NEW c \in UdpClients, U!Receive(c) PROVE Types'
<1>1. /\ UNCHANGED <<udpServer, registered, client, asking, frames, next, udpTargets, addressed, faults>>
      /\ net[c] # <<>> /\ U!Handle(c, Head(net[c])) /\ net' = [net EXCEPT ![c] = Tail(net[c])]
  BY DEF U!Receive, U!serverVars, U!clientVars, U!sendVars
<1>2. IsSeq(net[c]) /\ \A i \in DOMAIN net[c] : IsOf(frames, net[c][i])
  BY DEF Types, NetTypes
<1>3. /\ IsSeq(Tail(net[c])) /\ Len(net[c]) \in Nat \ {0}
      /\ DOMAIN net[c] = 1 .. Len(net[c]) /\ DOMAIN Tail(net[c]) = 1 .. Len(net[c]) - 1
      /\ Head(net[c]) = net[c][1]
      /\ \A i \in 1 .. Len(net[c]) - 1 : Tail(net[c])[i] = net[c][i + 1]
  BY <1>1, <1>2, SeqTail
<1>4. IsOf(frames, Head(net[c]))
  BY <1>2, <1>3
<1>5. CacheTypes'
  BY <1>1, <1>4, HandleTypes
<1>6. \A i \in DOMAIN Tail(net[c]) : IsOf(frames, Tail(net[c])[i])
  BY <1>2, <1>3
<1>7. NetTypes'
  BY <1>1, <1>3, <1>6 DEF Types, NetTypes
<1> QED
  BY <1>1, <1>5, <1>7 DEF Types, ServerTypes, FrameTypes, U!Number

\* The network fails.
LEMMA FaultStepTypes == ASSUME Types, NEW c \in UdpClients, U!Fault(c) PROVE Types'
<1>1. UNCHANGED <<udpServer, registered, client, asking, frames, next, udpTargets, addressed, cache, udpDelivered>>
  BY DEF U!Fault, U!serverVars, U!clientVars, U!sendVars, U!recvVars
<1>2. NetTypes'
  BY FaultTypes
<1>3. faults' \in [UdpClients -> 0 .. MaxFaults]
  BY UdpBoundsAssumption DEF U!Fault, Types, ServerTypes
<1> QED
  BY <1>1, <1>2, <1>3 DEF Types, ServerTypes, FrameTypes, CacheTypes, U!Number

\* Every step keeps them.
LEMMA StepTypes == ASSUME Types, [U!Next]_(U!vars) PROVE Types'
<1>1. CASE U!Next
  BY <1>1, RegistryTypes, BroadcastTypes, SendTypes, DisconnectTypes, ReceiveTypes, FaultStepTypes
     DEF U!Next
<1>2. CASE UNCHANGED U!vars
  BY <1>2 DEF U!vars, U!serverVars, U!clientVars, U!sendVars, U!recvVars,
              Types, ServerTypes, FrameTypes, NetTypes, CacheTypes, U!Number
<1> QED
  BY <1>1, <1>2

\* They hold throughout.
LEMMA TypesHold == U!Spec => []Types
<1>1. U!Init => Types
  BY InitTypes
<1>2. Types /\ [U!Next]_(U!vars) => Types'
  BY StepTypes
<1> QED
  BY <1>1, <1>2, PTL DEF U!Spec

\* The types a run checks.
LEMMA TypesOK == Types => U!TypeOK
<1> SUFFICES ASSUME Types PROVE U!TypeOK
  OBVIOUS
<1>1. ASSUME NEW c \in UdpClients
      PROVE  /\ \A i \in DOMAIN net[c] : net[c][i] = U!Datagram(net[c][i].frame, net[c][i].frag)
             /\ \A id \in U!Ids : cache[c][id] = U!Nothing \/ U!IsChunks(cache[c][id].chunks)
             /\ \A i \in DOMAIN udpDelivered[c] : U!IsChunks(udpDelivered[c][i])
  BY DEF Types, NetTypes, CacheTypes, IsOf, IsEntry, IsUncut, Dg, U!Datagram
<1> QED
  BY <1>1 DEF U!TypeOK, Types, ServerTypes, FrameTypes, IsFrames, U!Number

\* Whatever the network does, nothing cut and no frame without its first
\* fragment is handed on (_udp_recv_loop).
THEOREM NothingIsCutHolds == U!Spec => []NothingIsCut
<1>1. ASSUME Types PROVE NothingIsCut
  BY <1>1, TypesOK DEF NothingIsCut, U!NothingIsCut, Types, CacheTypes, IsUncut
<1> QED
  BY <1>1, TypesHold, PTL
-----------------------------------------------------------------------------
(* Without faults: the datagrams under way to a client, in their order. *)

\* A datagram follows another: the next fragment, or the first of a later frame.
NextAfter(a, b) ==
    \/ b.frame = a.frame /\ b.frag = a.frag + 1
    \/ b.frame > a.frame /\ b.frag = 1

\* The datagrams s, of frames fs, are still to be read by a receiver whose cache
\* is ch and who has handed on dl.
FlowOf(fs, s, ch, dl) ==
    /\ \A i \in 1 .. Len(s) - 1 : NextAfter(s[i], s[i + 1])
    /\ s # <<>> /\ s[1].frag > 1 =>
          ch[s[1].frame % Wrap] = U!OnlyPiece(Dg(fs, s[1].frame, s[1].frag - 1))
    /\ s # <<>> => \A i \in DOMAIN dl : dl[i][1].frame < s[1].frame

\* Whole and WholeWithoutFaults, of frames fs.
WholeIn(fs, ch) ==
    \E f \in 1 .. Len(fs) : U!FramesIn(ch) = {f} /\ DOMAIN ch = 1 .. fs[f].frags

WholeOf(fs, dl) ==
    /\ \A i \in DOMAIN dl : WholeIn(fs, dl[i])
    /\ \A i, j \in DOMAIN dl : i < j => dl[i][1].frame < dl[j][1].frame

\* What the receiver keeps of a datagram, and what it hands on.
Kept(ch, d) == U!Store(ch[d.frame % Wrap], d)
HandsOn(e) == U!Complete(e) /\ DOMAIN e.chunks = 1 .. e.total

\* What is under way, types.
IsStream(fs, s) == IsSeq(s) /\ \A i \in DOMAIN s : IsOf(fs, s[i])

\* A frame more makes no difference to what was sent before.
LEMMA FlowGrows ==
  ASSUME NEW fs, IsFrames(fs), NEW gs, IsFrames(gs), Len(gs) = Len(fs) + 1,
         \A f \in 1 .. Len(fs) : gs[f] = fs[f],
         NEW s, IsStream(fs, s), NEW ch, NEW dl, FlowOf(fs, s, ch, dl)
  PROVE  FlowOf(gs, s, ch, dl)
<1>1. ASSUME s # <<>>
      PROVE  Dg(gs, s[1].frame, s[1].frag - 1) = Dg(fs, s[1].frame, s[1].frag - 1)
  <2>1. 1 \in DOMAIN s
    BY <1>1, SeqTail DEF IsStream
  <2>2. s[1].frame \in 1 .. Len(fs)
    BY <2>1 DEF IsStream, IsOf
  <2> QED
    BY <2>2 DEF Dg
<1> QED
  BY <1>1 DEF FlowOf

\* Nor to what was handed on.
LEMMA WholeGrows ==
  ASSUME NEW fs, IsFrames(fs), NEW gs, IsFrames(gs), Len(gs) = Len(fs) + 1,
         \A f \in 1 .. Len(fs) : gs[f] = fs[f],
         NEW dl, WholeOf(fs, dl)
  PROVE  WholeOf(gs, dl)
<1>1. Len(fs) \in Nat
  BY LenProperties DEF IsFrames
<1>2. ASSUME NEW ch, WholeIn(fs, ch) PROVE WholeIn(gs, ch)
  <2>1. PICK f \in 1 .. Len(fs) : U!FramesIn(ch) = {f} /\ DOMAIN ch = 1 .. fs[f].frags
    BY <1>2 DEF WholeIn
  <2>2. f \in 1 .. Len(gs) /\ gs[f] = fs[f]
    BY <1>1
  <2> QED
    BY <2>1, <2>2 DEF WholeIn
<1> QED
  BY <1>2 DEF WholeOf

\* What was handed on is of the frames there are.
LEMMA WholeFrames ==
  ASSUME NEW fs, NEW dl, WholeOf(fs, dl), NEW i \in DOMAIN dl, IsUncut(dl[i])
  PROVE  dl[i][1].frame \in 1 .. Len(fs)
BY DEF WholeOf, WholeIn, U!FramesIn, IsUncut

\* A datagram that follows the last one joins the stream.
LEMMA FlowAppend ==
  ASSUME NEW fs, NEW s, IsStream(fs, s), NEW ch, NEW dl, FlowOf(fs, s, ch, dl),
         NEW d,
         s = <<>> => d.frag = 1 /\ \A i \in DOMAIN dl : dl[i][1].frame < d.frame,
         s # <<>> => NextAfter(s[Len(s)], d)
  PROVE  FlowOf(fs, Append(s, d), ch, dl)
<1> DEFINE t == Append(s, d)
<1>1. /\ Len(s) \in Nat /\ Len(t) = Len(s) + 1 /\ t # <<>>
      /\ \A i \in 1 .. Len(s) : t[i] = s[i]
      /\ t[Len(s) + 1] = d
  BY SeqAppend DEF IsStream
<1> HIDE DEF t
<1>2. CASE s = <<>>
  <2>1. Len(s) = 0
    BY <1>2
  <2> QED
    BY <1>1, <1>2, <2>1 DEF FlowOf, t
<1>3. CASE s # <<>>
  <2>1. Len(s) >= 1
    BY <1>3, SeqTail DEF IsStream
  <2>2. t[1] = s[1] /\ s # <<>>
    BY <1>1, <1>3, <2>1
  <2>3. ASSUME NEW i \in 1 .. Len(t) - 1
        PROVE  NextAfter(t[i], t[i + 1])
    <3>1. CASE i = Len(s)
      BY <3>1, <1>1, <1>3, <2>1
    <3>2. CASE i # Len(s)
      <4>1. i \in 1 .. Len(s) - 1 /\ t[i] = s[i] /\ t[i + 1] = s[i + 1]
        BY <3>2, <1>1
      <4> QED
        BY <4>1 DEF FlowOf
    <3> QED
      BY <3>1, <3>2
  <2> QED
    BY <2>2, <2>3 DEF FlowOf, t
<1> QED
  BY <1>2, <1>3

\* A stream that ends early.
LEMMA FlowPrefix ==
  ASSUME NEW fs, NEW s, IsStream(fs, s), NEW d, NEW ch, NEW dl, FlowOf(fs, Append(s, d), ch, dl)
  PROVE  FlowOf(fs, s, ch, dl)
<1> DEFINE t == Append(s, d)
<1>1. /\ Len(s) \in Nat /\ Len(t) = Len(s) + 1 /\ t # <<>>
      /\ \A i \in 1 .. Len(s) : t[i] = s[i]
  BY SeqAppend DEF IsStream
<1> HIDE DEF t
<1>2. FlowOf(fs, t, ch, dl)
  BY DEF t
<1>3. ASSUME NEW i \in 1 .. Len(s) - 1
      PROVE  NextAfter(s[i], s[i + 1])
  <2>1. i \in 1 .. Len(t) - 1 /\ t[i] = s[i] /\ t[i + 1] = s[i + 1]
    BY <1>1
  <2> QED
    BY <1>2, <2>1 DEF FlowOf
<1>4. s # <<>> => t[1] = s[1]
  BY <1>1, SeqTail DEF IsStream
<1> QED
  BY <1>1, <1>2, <1>3, <1>4 DEF FlowOf

\* The cache holds the datagram before this one, if it is not a first fragment:
\* what is handed on then is one frame, and only with its last fragment.
LEMMA KeptOf ==
  ASSUME NEW fs, IsFrames(fs), NEW d, IsOf(fs, d), NEW ch,
         d.frag > 1 => ch[d.frame % Wrap] = U!OnlyPiece(Dg(fs, d.frame, d.frag - 1))
  PROVE  /\ d.frag < d.total => Kept(ch, d) = U!OnlyPiece(d)
         /\ HandsOn(Kept(ch, d)) =>
               /\ d.frag = d.total
               /\ U!FramesIn(Kept(ch, d).chunks) = {d.frame}
               /\ DOMAIN Kept(ch, d).chunks = 1 .. fs[d.frame].frags
<1> DEFINE e == Kept(ch, d)
           k == d.frag
<1>1. /\ k \in Nat \ {0} /\ d.total \in Nat \ {0} /\ k <= d.total
      /\ d.total = fs[d.frame].frags /\ d.short \in BOOLEAN
      /\ d.short => k = d.total /\ d.total % 2 = 0
  BY DatagramFields
<1>2. CASE ~d.short
  <2>1. e = U!OnlyPiece(d)
    BY <1>2 DEF Kept, U!Store
  <2>2. /\ U!OnlyPiece(d).total = d.total
        /\ DOMAIN U!OnlyPiece(d).chunks = {k}
        /\ U!OnlyPiece(d).chunks[k].frame = d.frame
    BY DEF U!OnlyPiece, U!Piece
  <2> HIDE DEF e, k
  <2>3. U!FramesIn(e.chunks) = {d.frame}
    BY <2>1, <2>2 DEF U!FramesIn
  <2>4. ASSUME HandsOn(e)
        PROVE  k = d.total /\ DOMAIN e.chunks = 1 .. fs[d.frame].frags
    <3>1. {k} = 1 .. d.total
      BY <2>1, <2>2, <2>4 DEF HandsOn
    <3>2. k = d.total
      BY <3>1, <1>1
    <3> QED
      BY <3>1, <3>2, <2>1, <2>2, <1>1
  <2> QED
    BY <2>1, <2>3, <2>4 DEF e, k
<1>3. CASE d.short
  <2>1. k = d.total /\ k > 1
    BY <1>1, <1>3
  <2> DEFINE p == Dg(fs, d.frame, k - 1)
             b == U!OnlyPiece(p)
  <2>2. ch[d.frame % Wrap] = b
    BY <2>1
  <2>3. p.total = d.total /\ p.frame = d.frame /\ p.frag = k - 1
    BY <1>1 DEF Dg
  <2> HIDE DEF p
  <2>4. /\ b.total = d.total /\ DOMAIN b.chunks = {k - 1}
        /\ b.chunks[k - 1].frame = d.frame
    BY <2>3 DEF U!OnlyPiece, U!Piece
  <2> HIDE DEF b
  <2>5. ASSUME HandsOn(e)
        PROVE  U!FramesIn(e.chunks) = {d.frame} /\ DOMAIN e.chunks = 1 .. fs[d.frame].frags
    <3>1. b # U!Nothing
      BY <2>2, <2>5, <1>3 DEF HandsOn, U!Complete, Kept, U!Store
    <3>2. e = U!AddPiece(b, d)
      BY <3>1, <2>2, <1>3 DEF Kept, U!Store
    <3>3. /\ U!AddPiece(b, d).total = d.total
          /\ DOMAIN U!AddPiece(b, d).chunks = {k - 1, k}
          /\ U!AddPiece(b, d).chunks[k].frame = d.frame
          /\ U!AddPiece(b, d).chunks[k - 1].frame = d.frame
      <4>1. U!AddPiece(b, d).total = b.total
        BY DEF U!AddPiece
      <4>2. /\ DOMAIN U!AddPiece(b, d).chunks = DOMAIN b.chunks \cup {k}
            /\ U!AddPiece(b, d).chunks[k] = U!Piece(d)
            /\ \A j \in DOMAIN b.chunks \ {k} : U!AddPiece(b, d).chunks[j] = b.chunks[j]
        BY DEF U!AddPiece
      <4>3. U!Piece(d).frame = d.frame
        BY DEF U!Piece
      <4>4. k - 1 # k
        BY <1>1
      <4> QED
        BY <4>1, <4>2, <4>3, <4>4, <2>4
    <3>4. DOMAIN e.chunks = 1 .. e.total
      BY <2>5 DEF HandsOn
    <3> HIDE DEF e
    <3> QED
      BY <3>2, <3>3, <3>4, <1>1 DEF U!FramesIn
  <2> QED
    BY <1>1, <2>1, <2>5
<1> QED
  BY <1>1, <1>2, <1>3

\* What comes after the first of a stream.
LEMMA FlowNext ==
  ASSUME NEW fs, IsFrames(fs), NEW s, IsStream(fs, s), s # <<>>,
         NEW ch, NEW dl, FlowOf(fs, s, ch, dl), Tail(s) # <<>>
  PROVE  /\ NextAfter(s[1], Tail(s)[1]) /\ IsOf(fs, Tail(s)[1])
         /\ s[1].frag = s[1].total => Tail(s)[1].frame > s[1].frame /\ Tail(s)[1].frag = 1
<1>1. /\ IsSeq(Tail(s)) /\ Len(s) \in Nat \ {0} /\ Len(Tail(s)) = Len(s) - 1
      /\ DOMAIN s = 1 .. Len(s)
      /\ \A i \in 1 .. Len(s) - 1 : Tail(s)[i] = s[i + 1]
  BY SeqTail DEF IsStream
<1>2. Len(Tail(s)) \in Nat \ {0}
  BY <1>1, SeqTail
<1>3. 1 \in 1 .. Len(s) - 1 /\ 1 \in DOMAIN s /\ 2 \in DOMAIN s /\ Tail(s)[1] = s[2]
  BY <1>1, <1>2
<1>4. NextAfter(s[1], s[2]) /\ IsOf(fs, s[1]) /\ IsOf(fs, s[2])
  BY <1>3 DEF FlowOf, IsStream
<1>5. /\ s[1].total = fs[s[1].frame].frags /\ s[2].total = fs[s[2].frame].frags
      /\ s[2].frag <= s[2].total /\ s[1].frag \in Nat /\ s[2].frag \in Nat
      /\ s[1].total \in Nat /\ s[2].total \in Nat
  BY <1>4, DatagramFields
<1>6. ASSUME s[1].frag = s[1].total
      PROVE  s[2].frame > s[1].frame /\ s[2].frag = 1
  BY <1>4, <1>5, <1>6 DEF NextAfter
<1> QED
  BY <1>3, <1>4, <1>6

\* A stream without its first: what every cache must be for the next.
LEMMA FlowTail ==
  ASSUME NEW fs, IsFrames(fs), NEW s, IsStream(fs, s), s # <<>>,
         NEW ch, NEW dl, FlowOf(fs, s, ch, dl), NEW ch2, NEW dl2,
         Tail(s) # <<>> =>
            /\ Tail(s)[1].frag > 1 =>
                  ch2[Tail(s)[1].frame % Wrap] = U!OnlyPiece(Dg(fs, Tail(s)[1].frame, Tail(s)[1].frag - 1))
            /\ \A i \in DOMAIN dl2 : dl2[i][1].frame < Tail(s)[1].frame
  PROVE  FlowOf(fs, Tail(s), ch2, dl2)
<1>1. /\ Len(s) \in Nat \ {0} /\ Len(Tail(s)) = Len(s) - 1
      /\ \A i \in 1 .. Len(s) - 1 : Tail(s)[i] = s[i + 1]
  BY SeqTail DEF IsStream
<1>2. ASSUME NEW i \in 1 .. Len(Tail(s)) - 1
      PROVE  NextAfter(Tail(s)[i], Tail(s)[i + 1])
  <2>1. /\ i + 1 \in 1 .. Len(s) - 1 /\ i \in 1 .. Len(s) - 1
        /\ Tail(s)[i] = s[i + 1] /\ Tail(s)[i + 1] = s[(i + 1) + 1]
    BY <1>1
  <2> QED
    BY <2>1 DEF FlowOf
<1> QED
  BY <1>2 DEF FlowOf

\* A datagram read, and nothing handed on.
LEMMA FlowKeep ==
  ASSUME NEW fs, IsFrames(fs), NEW s, IsStream(fs, s), s # <<>>,
         NEW ch, NEW dl, FlowOf(fs, s, ch, dl),
         WholeOf(fs, dl), \A i \in DOMAIN dl : IsUncut(dl[i]),
         NEW ch2, ch2[s[1].frame % Wrap] = Kept(ch, s[1])
  PROVE  FlowOf(fs, Tail(s), ch2, dl)
<1> DEFINE d == s[1]
<1>1. IsOf(fs, d)
  BY SeqTail DEF IsStream
<1>2. d.frag > 1 => ch[d.frame % Wrap] = U!OnlyPiece(Dg(fs, d.frame, d.frag - 1))
  BY DEF FlowOf
<1>3. /\ d.frame \in Nat /\ d.frag \in Nat \ {0} /\ d.total = fs[d.frame].frags
      /\ d.frag <= d.total /\ d.total \in Nat
  BY <1>1, DatagramFields
<1>4. d.frag < d.total => Kept(ch, d) = U!OnlyPiece(d)
  BY <1>1, <1>2, KeptOf
<1>5. d = Dg(fs, d.frame, d.frag)
  BY <1>1 DEF IsOf
<1>6. Len(fs) \in Nat
  BY LenProperties DEF IsFrames
<1>7. \A i \in DOMAIN dl : dl[i][1].frame \in Nat /\ dl[i][1].frame < d.frame
  BY <1>6, WholeFrames DEF FlowOf
<1> HIDE DEF d
<1>8. ASSUME Tail(s) # <<>>
      PROVE  /\ Tail(s)[1].frag > 1 =>
                   ch2[Tail(s)[1].frame % Wrap] = U!OnlyPiece(Dg(fs, Tail(s)[1].frame, Tail(s)[1].frag - 1))
             /\ \A i \in DOMAIN dl : dl[i][1].frame < Tail(s)[1].frame
  <2> DEFINE b == Tail(s)[1]
  <2>1. NextAfter(d, b) /\ IsOf(fs, b)
    BY <1>8, FlowNext DEF d
  <2>2. b.frame \in Nat /\ b.frag \in Nat \ {0} /\ b.frag <= b.total /\ b.total = fs[b.frame].frags
    BY <2>1, DatagramFields
  <2> HIDE DEF b
  <2>3. ASSUME b.frag > 1
        PROVE  ch2[b.frame % Wrap] = U!OnlyPiece(Dg(fs, b.frame, b.frag - 1))
    <3>1. b.frame = d.frame /\ b.frag - 1 = d.frag /\ d.frag < d.total
      BY <2>1, <2>2, <2>3, <1>3 DEF NextAfter
    <3> QED
      BY <3>1, <1>4, <1>5 DEF d
  <2>4. \A i \in DOMAIN dl : dl[i][1].frame < b.frame
    BY <2>1, <2>2, <1>3, <1>7 DEF NextAfter
  <2> QED
    BY <2>3, <2>4 DEF b
<1> QED
  BY <1>8, FlowTail

\* A datagram read that completes a frame.
LEMMA FlowHand ==
  ASSUME NEW fs, IsFrames(fs), NEW s, IsStream(fs, s), s # <<>>,
         NEW ch, NEW dl, FlowOf(fs, s, ch, dl), IsSeq(dl),
         WholeOf(fs, dl), \A i \in DOMAIN dl : IsUncut(dl[i]),
         HandsOn(Kept(ch, s[1])), NEW ch2
  PROVE  /\ FlowOf(fs, Tail(s), ch2, Append(dl, Kept(ch, s[1]).chunks))
         /\ WholeOf(fs, Append(dl, Kept(ch, s[1]).chunks))
<1> DEFINE d == s[1]
           c == Kept(ch, d).chunks
           t == Append(dl, c)
<1>1. IsOf(fs, d)
  BY SeqTail DEF IsStream
<1>2. d.frag > 1 => ch[d.frame % Wrap] = U!OnlyPiece(Dg(fs, d.frame, d.frag - 1))
  BY DEF FlowOf
<1>3. d.frag = d.total /\ U!FramesIn(c) = {d.frame} /\ DOMAIN c = 1 .. fs[d.frame].frags
  <2>1. HandsOn(Kept(ch, d))
    OBVIOUS
  <2> HIDE DEF d
  <2> QED
    BY <1>1, <1>2, <2>1, KeptOf
<1>4. /\ d.frame \in Nat /\ d.total = fs[d.frame].frags /\ d.total \in Nat \ {0}
      /\ d.frame \in 1 .. Len(fs)
  BY <1>1, DatagramFields DEF IsOf
<1>5. Len(fs) \in Nat
  BY LenProperties DEF IsFrames
<1>6. \A i \in DOMAIN dl : dl[i][1].frame \in Nat /\ dl[i][1].frame < d.frame
  BY <1>5, WholeFrames DEF FlowOf
<1>7. Tail(s) # <<>> =>
         /\ Tail(s)[1].frame > d.frame /\ Tail(s)[1].frag = 1
         /\ IsOf(fs, Tail(s)[1])
  BY <1>3, FlowNext
<1>8. Tail(s) # <<>> => Tail(s)[1].frame \in Nat
  BY <1>7, DatagramFields
<1>9. /\ Len(dl) \in Nat /\ DOMAIN dl = 1 .. Len(dl) /\ DOMAIN t = 1 .. Len(dl) + 1
      /\ \A i \in 1 .. Len(dl) : t[i] = dl[i]
      /\ t[Len(dl) + 1] = c
  BY SeqAppend
<1> HIDE DEF d, c, t
<1>10. c[1].frame = d.frame
  BY <1>3, <1>4 DEF U!FramesIn
<1>11. \A i \in DOMAIN t : t[i][1].frame \in Nat /\ t[i][1].frame <= d.frame
  <2> TAKE i \in DOMAIN t
  <2>1. CASE i \in DOMAIN dl
    BY <2>1, <1>4, <1>6, <1>9
  <2>2. CASE i = Len(dl) + 1
    BY <2>2, <1>4, <1>9, <1>10
  <2> QED
    BY <2>1, <2>2, <1>9
<1>12. FlowOf(fs, Tail(s), ch2, t)
  <2>1. Tail(s) # <<>> => \A i \in DOMAIN t : t[i][1].frame < Tail(s)[1].frame
    BY <1>4, <1>7, <1>8, <1>11
  <2>2. Tail(s) # <<>> => ~(Tail(s)[1].frag > 1)
    BY <1>7
  <2> QED
    BY <2>1, <2>2, FlowTail
<1>13. WholeOf(fs, t)
  <2>1. ASSUME NEW i \in DOMAIN t PROVE WholeIn(fs, t[i])
    <3>1. CASE i \in DOMAIN dl
      BY <3>1, <1>9 DEF WholeOf
    <3>2. CASE i = Len(dl) + 1
      BY <3>2, <1>3, <1>4, <1>9 DEF WholeIn
    <3> QED
      BY <3>1, <3>2, <1>9
  <2>2. ASSUME NEW i \in DOMAIN t, NEW j \in DOMAIN t, i < j
        PROVE  t[i][1].frame < t[j][1].frame
    <3>1. i \in DOMAIN dl /\ t[i] = dl[i]
      BY <2>2, <1>9
    <3>2. CASE j \in DOMAIN dl
      BY <3>1, <3>2, <2>2, <1>9 DEF WholeOf
    <3>3. CASE j = Len(dl) + 1
      BY <3>1, <3>3, <1>6, <1>9, <1>10
    <3> QED
      BY <3>2, <3>3, <1>9
  <2> QED
    BY <2>1, <2>2 DEF WholeOf
<1> QED
  BY <1>12, <1>13 DEF t, c, d
-----------------------------------------------------------------------------
(* The invariant of a network without faults. *)

\* Who is registered, and with a server that is up; frames are sent by no other.
RegisteredInv ==
    /\ registered # {} => udpServer = "up"
    /\ next # 0 => udpServer \in {"up", "stopped"}
    /\ \A c \in UdpClients : client[c] = "new" => c \notin registered \cup udpTargets \cup asking

\* The datagrams under way to a client and the one that is sent next.
Pending(c) == next # 0 /\ c \in udpTargets /\ udpServer = "up"
UdpUnread(c) == IF Pending(c) THEN Append(net[c], Dg(frames, U!Number, next)) ELSE net[c]

Undisturbed(c) == faults[c] = 0 /\ client[c] # "closed"

FlowInv == \A c \in UdpClients :
    Undisturbed(c) => FlowOf(frames, UdpUnread(c), cache[c], udpDelivered[c])

WholeInv == \A c \in UdpClients : faults[c] = 0 => WholeOf(frames, udpDelivered[c])

FlowTypes == Types /\ RegisteredInv
UdpInv == FlowTypes /\ FlowInv /\ WholeInv

\* The streams are of the frames sent.
LEMMA StreamTypes ==
  ASSUME Types, NEW c \in UdpClients
  PROVE  /\ IsFrames(frames) /\ IsStream(frames, net[c]) /\ IsStream(frames, UdpUnread(c))
         /\ IsSeq(udpDelivered[c]) /\ \A i \in DOMAIN udpDelivered[c] : IsUncut(udpDelivered[c][i])
<1>1. /\ IsFrames(frames) /\ IsSeq(net[c]) /\ \A i \in DOMAIN net[c] : IsOf(frames, net[c][i])
      /\ IsSeq(udpDelivered[c]) /\ \A i \in DOMAIN udpDelivered[c] : IsUncut(udpDelivered[c][i])
  BY DEF Types, FrameTypes, NetTypes, CacheTypes
<1>2. CASE Pending(c)
  <2> DEFINE d == Dg(frames, U!Number, next)
  <2>1. IsOf(frames, d)
    BY <1>1, <1>2, CurrentFrame, DgIsOf DEF Pending
  <2> HIDE DEF d
  <2>2. IsSeq(Append(net[c], d)) /\ \A i \in DOMAIN Append(net[c], d) : IsOf(frames, Append(net[c], d)[i])
    BY <1>1, <2>1, NetAppend
  <2> QED
    BY <1>1, <1>2, <2>2 DEF IsStream, UdpUnread, d
<1>3. CASE ~Pending(c)
  BY <1>1, <1>3 DEF IsStream, UdpUnread
<1> QED
  BY <1>2, <1>3

\* Registrations and connections keep their part.
LEMMA ClientStep == ASSUME FlowTypes, [U!Next]_(U!vars) PROVE RegisteredInv'
<1> USE DEF FlowTypes, Types, ServerTypes, RegisteredInv, U!serverVars, U!clientVars, U!sendVars, U!recvVars
<1>1. CASE U!Start \/ U!Bind \/ U!Stop
  BY <1>1 DEF U!Start, U!Bind, U!Stop
<1>2. ASSUME NEW size \in Sizes, U!Broadcast(size)
      PROVE  RegisteredInv'
  BY <1>2 DEF U!Broadcast
<1>3. CASE U!SendFragment
  BY <1>3 DEF U!SendFragment
<1>4. ASSUME NEW c \in UdpClients, U!Connect(c) \/ U!Disconnect(c) \/ U!Register(c) \/ U!RegistrationLost(c)
      PROVE  RegisteredInv'
  <2>1. CASE U!Connect(c)
    BY <2>1 DEF U!Connect
  <2>2. CASE U!Disconnect(c)
    BY <2>2 DEF U!Disconnect
  <2>3. CASE U!Register(c)
    BY <2>3 DEF U!Register
  <2>4. CASE U!RegistrationLost(c)
    BY <2>4 DEF U!RegistrationLost
  <2> QED
    BY <1>4, <2>1, <2>2, <2>3, <2>4
<1>5. ASSUME NEW c \in UdpClients, U!Receive(c) \/ U!Fault(c)
      PROVE  RegisteredInv'
  BY <1>5 DEF U!Receive, U!Fault
<1>6. CASE UNCHANGED U!vars
  BY <1>6 DEF U!vars
<1> QED
  BY <1>1, <1>2, <1>3, <1>4, <1>5, <1>6 DEF U!Next

\* There is nothing under way at first.
LEMMA InitFlow == U!Init => UdpInv
<1> SUFFICES ASSUME U!Init PROVE UdpInv
  OBVIOUS
<1>1. Types
  BY InitTypes
<1>2. RegisteredInv
  BY DEF U!Init, RegisteredInv
<1>3. ASSUME NEW c \in UdpClients
      PROVE  UdpUnread(c) = <<>> /\ udpDelivered[c] = <<>> /\ Len(<<>>) = 0 /\ DOMAIN <<>> = {}
  BY <1>3 DEF U!Init, UdpUnread, Pending
<1>4. FlowInv /\ WholeInv
  BY <1>3 DEF FlowInv, WholeInv, FlowOf, WholeOf
<1> QED
  BY <1>1, <1>2, <1>4 DEF UdpInv, FlowTypes

\* A step that leaves the frames, the streams and the receivers as they are.
LEMMA QuietFlow ==
  ASSUME FlowInv, WholeInv, UNCHANGED <<frames, cache, udpDelivered>>,
         \A c \in UdpClients :
            /\ Undisturbed(c)' => Undisturbed(c) /\ UdpUnread(c)' = UdpUnread(c)
            /\ faults'[c] = 0 => faults[c] = 0
  PROVE  FlowInv' /\ WholeInv'
<1>1. ASSUME NEW c \in UdpClients, Undisturbed(c)'
      PROVE  FlowOf(frames', UdpUnread(c)', cache'[c], udpDelivered'[c])
  <2>1. Undisturbed(c) /\ UdpUnread(c)' = UdpUnread(c)
    BY <1>1
  <2>2. FlowOf(frames, UdpUnread(c), cache[c], udpDelivered[c])
    BY <2>1 DEF FlowInv
  <2> QED
    BY <2>1, <2>2
<1>2. ASSUME NEW c \in UdpClients, faults'[c] = 0
      PROVE  WholeOf(frames', udpDelivered'[c])
  BY <1>2 DEF WholeInv
<1> QED
  BY <1>1, <1>2 DEF FlowInv, WholeInv

\* The server and the registrations.
LEMMA RegistryFlow ==
  ASSUME UdpInv,
         \/ U!Start \/ U!Bind
         \/ \E c \in UdpClients : U!Connect(c) \/ U!Register(c) \/ U!RegistrationLost(c)
  PROVE  FlowInv' /\ WholeInv'
<1> USE DEF U!serverVars, U!clientVars, U!sendVars, U!recvVars
<1>1. RegisteredInv /\ FlowInv /\ WholeInv /\ ServerTypes
  BY DEF UdpInv, FlowTypes, Types
<1>2. CASE U!Start \/ U!Bind
  BY <1>1, <1>2, QuietFlow DEF U!Start, U!Bind, RegisteredInv, Undisturbed, UdpUnread, Pending, U!Number
<1>3. ASSUME NEW c \in UdpClients, U!Connect(c) \/ U!Register(c)
      PROVE  FlowInv' /\ WholeInv'
  <2>1. \A b \in UdpClients : client'[b] # "closed" => client[b] # "closed"
    BY <1>1, <1>3 DEF U!Connect, U!Register, ServerTypes
  <2> QED
    BY <1>1, <1>3, <2>1, QuietFlow DEF U!Connect, U!Register, Undisturbed, UdpUnread, Pending, U!Number
<1>4. ASSUME NEW c \in UdpClients, U!RegistrationLost(c)
      PROVE  FlowInv' /\ WholeInv'
  <2>1. \A b \in UdpClients : faults'[b] = 0 => faults[b] = 0
    BY <1>1, <1>4 DEF U!RegistrationLost, ServerTypes
  <2> QED
    BY <1>1, <1>4, <2>1, QuietFlow DEF U!RegistrationLost, Undisturbed, UdpUnread, Pending, U!Number
<1> QED
  BY <1>2, <1>3, <1>4

\* A server that is stopped sends no more.
LEMMA StopFlow == ASSUME UdpInv, U!Stop PROVE FlowInv' /\ WholeInv'
<1> USE DEF U!clientVars, U!sendVars, U!recvVars
<1>1. Types /\ FlowInv /\ WholeInv
  BY DEF UdpInv, FlowTypes
<1>2. UNCHANGED <<frames, client, faults, net, cache, udpDelivered>> /\ udpServer' = "stopped"
  BY DEF U!Stop
<1>3. ASSUME NEW c \in UdpClients, Undisturbed(c)'
      PROVE  FlowOf(frames', UdpUnread(c)', cache'[c], udpDelivered'[c])
  <2>1. FlowOf(frames, UdpUnread(c), cache[c], udpDelivered[c])
    BY <1>1, <1>2, <1>3 DEF FlowInv, Undisturbed
  <2>2. IsStream(frames, net[c])
    BY <1>1, StreamTypes
  <2>3. FlowOf(frames, net[c], cache[c], udpDelivered[c])
    BY <2>1, <2>2, FlowPrefix DEF UdpUnread
  <2>4. UdpUnread(c)' = net[c]
    BY <1>2 DEF UdpUnread, Pending
  <2> QED
    BY <1>2, <2>3, <2>4
<1> QED
  BY <1>1, <1>2, <1>3 DEF FlowInv, WholeInv

\* A new frame joins the streams of those registered.
LEMMA BroadcastFlow == ASSUME UdpInv, NEW size \in Sizes, U!Broadcast(size) PROVE FlowInv' /\ WholeInv'
<1>1. Types /\ RegisteredInv /\ FlowInv /\ WholeInv
  BY DEF UdpInv, FlowTypes
<1>2. UNCHANGED <<udpServer, registered, client, faults, net, cache, udpDelivered>>
  BY DEF U!Broadcast, U!serverVars, U!clientVars, U!recvVars
<1>3. /\ IsFrames(frames) /\ U!Number < UdpFrames /\ frames' = Append(frames, size) /\ next = 0
  BY <1>1 DEF U!Broadcast, Types, FrameTypes
<1>4. /\ IsFrames(frames') /\ Len(frames) \in Nat /\ Len(frames') = Len(frames) + 1
      /\ frames'[Len(frames) + 1] = size
      /\ \A f \in 1 .. Len(frames) : frames'[f] = frames[f]
      /\ \A d : IsOf(frames, d) => IsOf(frames', d)
  BY <1>3, MoreFrames DEF U!Number
<1>5. ASSUME NEW c \in UdpClients, faults'[c] = 0
      PROVE  WholeOf(frames', udpDelivered'[c])
  <2>1. WholeOf(frames, udpDelivered[c])
    BY <1>1, <1>2, <1>5 DEF WholeInv
  <2> QED
    BY <1>2, <1>3, <1>4, <2>1, WholeGrows
<1>6. ASSUME NEW c \in UdpClients, Undisturbed(c)'
      PROVE  FlowOf(frames', UdpUnread(c)', cache'[c], udpDelivered'[c])
  <2>1. FlowOf(frames, net[c], cache[c], udpDelivered[c])
    BY <1>1, <1>2, <1>3, <1>6 DEF FlowInv, Undisturbed, UdpUnread, Pending
  <2>2. /\ IsStream(frames, net[c])
        /\ \A i \in DOMAIN udpDelivered[c] : IsUncut(udpDelivered[c][i])
    BY <1>1, StreamTypes
  <2>3. FlowOf(frames', net[c], cache[c], udpDelivered[c])
    BY <1>3, <1>4, <2>1, <2>2, FlowGrows
  <2>4. IsStream(frames', net[c])
    BY <1>4, <2>2 DEF IsStream
  <2>5. U!Number' = Len(frames) + 1
    BY <1>4 DEF U!Number
  <2>6. CASE Pending(c)'
    <3> DEFINE d == Dg(frames', U!Number', next')
    <3>1. next' = 1
      BY <1>3, <2>6 DEF U!Broadcast, Pending
    <3>2. d.frame = Len(frames) + 1 /\ d.frag = 1
      BY <2>5, <3>1 DEF Dg
    <3> HIDE DEF d
    <3>3. faults'[c] = 0
      BY <1>6 DEF Undisturbed
    <3>4. WholeOf(frames, udpDelivered[c])
      BY <1>1, <1>2, <3>3 DEF WholeInv
    <3>5. \A i \in DOMAIN udpDelivered[c] : udpDelivered[c][i][1].frame \in 1 .. Len(frames)
      BY <2>2, <3>4, WholeFrames
    <3>6. \A i \in DOMAIN udpDelivered[c] : udpDelivered[c][i][1].frame < d.frame
      BY <1>4, <3>2, <3>5
    <3>7. ASSUME net[c] # <<>>
          PROVE  NextAfter(net[c][Len(net[c])], d)
      <4>1. Len(net[c]) \in DOMAIN net[c]
        BY <2>2, <3>7, SeqTail DEF IsStream
      <4>2. IsOf(frames, net[c][Len(net[c])])
        BY <2>2, <4>1 DEF IsStream
      <4>3. net[c][Len(net[c])].frame \in 1 .. Len(frames)
        BY <4>2 DEF IsOf
      <4> QED
        BY <1>4, <3>2, <4>3 DEF NextAfter
    <3>8. FlowOf(frames', Append(net[c], d), cache[c], udpDelivered[c])
      BY <2>3, <2>4, <3>2, <3>6, <3>7, FlowAppend
    <3>9. UdpUnread(c)' = Append(net[c], d)
      BY <1>2, <2>6 DEF UdpUnread, d
    <3> QED
      BY <1>2, <3>8, <3>9
  <2>7. CASE ~Pending(c)'
    BY <1>2, <2>3, <2>7 DEF UdpUnread
  <2> QED
    BY <2>6, <2>7
<1> QED
  BY <1>5, <1>6 DEF FlowInv, WholeInv

\* A fragment is sent, and the one after it follows.
LEMMA SendFlow == ASSUME UdpInv, U!SendFragment PROVE FlowInv' /\ WholeInv'
<1>1. Types /\ RegisteredInv /\ FlowInv /\ WholeInv /\ ServerTypes
  BY DEF UdpInv, FlowTypes, Types
<1>2. UNCHANGED <<udpServer, registered, client, frames, faults, cache, udpDelivered>>
  BY DEF U!SendFragment, U!serverVars, U!clientVars, U!recvVars
<1>3. /\ next # 0 /\ udpTargets' = (IF next' = 0 THEN {} ELSE udpTargets)
      /\ next' = IF next = frames[U!Number].frags THEN 0 ELSE next + 1
  BY DEF U!SendFragment
<1>4. ASSUME NEW c \in UdpClients, Undisturbed(c)'
      PROVE  FlowOf(frames', UdpUnread(c)', cache'[c], udpDelivered'[c])
  <2>1. FlowOf(frames, UdpUnread(c), cache[c], udpDelivered[c])
    BY <1>1, <1>2, <1>4 DEF FlowInv, Undisturbed
  <2>2. IsStream(frames, UdpUnread(c))
    BY <1>1, StreamTypes
  <2>3. client[c] # "closed"
    BY <1>2, <1>4 DEF Undisturbed
  <2>4. net'[c] = UdpUnread(c)
    <3>1. c \in udpTargets => client[c] = "open"
      BY <1>1, <2>3 DEF RegisteredInv, ServerTypes
    <3>2. net'[c] = IF c \in udpTargets /\ udpServer = "up" /\ client[c] = "open"
                      THEN Append(net[c], U!Datagram(U!Number, next)) ELSE net[c]
      BY DEF U!SendFragment
    <3>3. U!Datagram(U!Number, next) = Dg(frames, U!Number, next)
      BY DEF U!Datagram, Dg
    <3> QED
      BY <1>3, <3>1, <3>2, <3>3 DEF UdpUnread, Pending
  <2>5. CASE Pending(c)'
    <3> DEFINE d == Dg(frames, U!Number, next + 1)
               a == Dg(frames, U!Number, next)
               s == UdpUnread(c)
    <3>1. next' = next + 1 /\ Pending(c)
      BY <1>2, <1>3, <2>5 DEF Pending
    <3>2. s = Append(net[c], a)
      BY <3>1 DEF UdpUnread
    <3>3. NextAfter(a, d)
      BY DEF NextAfter, Dg
    <3>4. IsSeq(net[c])
      BY <1>1, StreamTypes DEF IsStream
    <3> HIDE DEF d, a
    <3>5. s # <<>> /\ s[Len(s)] = a
      BY <3>2, <3>4, SeqAppend
    <3> HIDE DEF s
    <3>6. FlowOf(frames, Append(s, d), cache[c], udpDelivered[c])
      BY <2>1, <2>2, <3>3, <3>5, FlowAppend DEF s
    <3>7. U!Number' = U!Number
      BY <1>2 DEF U!Number
    <3>8. UdpUnread(c)' = Append(s, d)
      BY <1>2, <2>4, <2>5, <3>1, <3>7 DEF UdpUnread, d, s
    <3> QED
      BY <1>2, <3>6, <3>8
  <2>6. CASE ~Pending(c)'
    BY <1>2, <2>1, <2>4, <2>6 DEF UdpUnread
  <2> QED
    BY <2>5, <2>6
<1> QED
  BY <1>1, <1>2, <1>4 DEF FlowInv, WholeInv

\* A fault or a client that closes leaves the others alone.
LEMMA OtherFlow ==
  ASSUME UdpInv, NEW c \in UdpClients, U!Fault(c) \/ U!Disconnect(c)
  PROVE  FlowInv' /\ WholeInv'
<1> USE DEF U!serverVars, U!clientVars, U!sendVars, U!recvVars
<1>1. FlowInv /\ WholeInv /\ ServerTypes /\ NetTypes
  BY DEF UdpInv, FlowTypes, Types
<1>2. UNCHANGED <<udpServer, frames, next, udpTargets, cache, udpDelivered>>
  BY DEF U!Fault, U!Disconnect
<1>3. ~Undisturbed(c)'
  BY <1>1 DEF Undisturbed, U!Fault, U!Disconnect, ServerTypes
<1>4. ASSUME NEW b \in UdpClients, b # c
      PROVE  net'[b] = net[b] /\ client'[b] = client[b] /\ faults'[b] = faults[b]
  BY <1>1, <1>4 DEF U!Fault, U!Disconnect, ServerTypes, NetTypes
<1>5. faults'[c] = 0 => faults[c] = 0
  BY <1>1 DEF U!Fault, U!Disconnect, ServerTypes
<1>6. ASSUME NEW b \in UdpClients, Undisturbed(b)'
      PROVE  Undisturbed(b) /\ UdpUnread(b)' = UdpUnread(b)
  <2>1. b # c
    BY <1>3, <1>6
  <2> QED
    BY <1>2, <1>4, <1>6, <2>1 DEF Undisturbed, UdpUnread, Pending, U!Number
<1>7. \A b \in UdpClients : faults'[b] = 0 => faults[b] = 0
  BY <1>4, <1>5
<1> QED
  BY <1>1, <1>2, <1>6, <1>7, QuietFlow

\* A datagram is read.
LEMMA ReceiveFlow == ASSUME UdpInv, NEW c \in UdpClients, U!Receive(c) PROVE FlowInv' /\ WholeInv'
<1>1. Types /\ FlowInv /\ WholeInv /\ NetTypes /\ CacheTypes
  BY DEF UdpInv, FlowTypes, Types
<1>2. /\ UNCHANGED <<udpServer, client, frames, next, udpTargets, faults>>
      /\ net[c] # <<>> /\ U!Handle(c, Head(net[c])) /\ net' = [net EXCEPT ![c] = Tail(net[c])]
      /\ client[c] = "open"
  BY DEF U!Receive, U!serverVars, U!clientVars, U!sendVars
<1> DEFINE d == Head(net[c])
           s == UdpUnread(c)
           e == Kept(cache[c], d)
<1>3. /\ IsFrames(frames) /\ IsStream(frames, net[c]) /\ IsStream(frames, s)
      /\ IsSeq(udpDelivered[c]) /\ \A i \in DOMAIN udpDelivered[c] : IsUncut(udpDelivered[c][i])
  BY <1>1, StreamTypes
<1>4. /\ d = net[c][1] /\ Len(net[c]) \in Nat \ {0} /\ DOMAIN net[c] = 1 .. Len(net[c])
  BY <1>2, <1>3, SeqTail DEF IsStream
<1>5. s # <<>> /\ s[1] = d /\ UdpUnread(c)' = Tail(s)
  <2>1. Pending(c)' = Pending(c) /\ U!Number' = U!Number /\ net'[c] = Tail(net[c])
    BY <1>1, <1>2 DEF Pending, U!Number, NetTypes
  <2>2. CASE Pending(c)
    <3> DEFINE a == Dg(frames, U!Number, next)
    <3>1. s = Append(net[c], a) /\ UdpUnread(c)' = Append(Tail(net[c]), a)
      BY <1>2, <2>1, <2>2 DEF UdpUnread
    <3> HIDE DEF a, s
    <3>2. s # <<>> /\ s[1] = d
      BY <1>3, <1>4, <3>1, SeqAppend DEF IsStream
    <3>3. Tail(Append(net[c], a)) = Append(Tail(net[c]), a)
      BY <1>2, <1>3, HeadTailAppend DEF IsStream, IsSeq
    <3> QED
      BY <3>1, <3>2, <3>3
  <2>3. CASE ~Pending(c)
    BY <1>2, <1>4, <2>1, <2>3 DEF UdpUnread
  <2> QED
    BY <2>2, <2>3
<1>6. UdpUnread(c)' = Tail(s) /\ DOMAIN cache = UdpClients /\ DOMAIN udpDelivered = UdpClients /\ DOMAIN cache[c] = U!Ids
  BY <1>1, <1>5 DEF CacheTypes
<1>7. d.frame % Wrap \in U!Ids
  <2>1. d.frame \in Nat /\ Wrap \in Nat \ {0}
    BY <1>3, <1>4, DatagramFields, UdpBoundsAssumption DEF IsStream
  <2> QED
    BY <2>1 DEF U!Ids
<1>8. ASSUME faults[c] = 0
      PROVE  FlowOf(frames, s, cache[c], udpDelivered[c]) /\ WholeOf(frames, udpDelivered[c])
  BY <1>1, <1>2, <1>8 DEF FlowInv, WholeInv, Undisturbed
<1>9. \A b \in UdpClients : b # c => /\ cache'[b] = cache[b] /\ udpDelivered'[b] = udpDelivered[b]
                                 /\ net'[b] = net[b]
  BY <1>1, <1>2 DEF U!Handle, CacheTypes, NetTypes
<1> HIDE DEF d, s
<1>10. ASSUME faults[c] = 0
       PROVE  FlowOf(frames, Tail(s), cache'[c], udpDelivered'[c]) /\ WholeOf(frames, udpDelivered'[c])
  <2>1. e = U!Store(cache[c][d.frame % Wrap], d)
    BY DEF Kept
  <2>2. CASE HandsOn(e)
    <3>1. udpDelivered'[c] = Append(udpDelivered[c], e.chunks)
      BY <1>2, <1>6, <2>1, <2>2 DEF U!Handle, HandsOn, d
    <3> QED
      BY <1>3, <1>5, <1>8, <1>10, <2>2, <3>1, FlowHand
  <2>3. CASE ~HandsOn(e)
    <3>1. udpDelivered' = udpDelivered /\ cache'[c][d.frame % Wrap] = e
      BY <1>2, <1>6, <1>7, <2>1, <2>3 DEF U!Handle, HandsOn, d
    <3> QED
      BY <1>3, <1>5, <1>8, <1>10, <3>1, FlowKeep
  <2> QED
    BY <2>2, <2>3
<1>11. ASSUME NEW b \in UdpClients, Undisturbed(b)'
       PROVE  FlowOf(frames', UdpUnread(b)', cache'[b], udpDelivered'[b])
  <2>1. Undisturbed(b) /\ faults[b] = 0
    BY <1>2, <1>11 DEF Undisturbed
  <2>2. CASE b = c
    BY <1>2, <1>6, <1>10, <2>1, <2>2
  <2>3. CASE b # c
    <3>1. UdpUnread(b)' = UdpUnread(b)
      BY <1>2, <1>9, <2>3 DEF UdpUnread, Pending, U!Number
    <3> QED
      BY <1>1, <1>2, <1>9, <2>1, <2>3, <3>1 DEF FlowInv
  <2> QED
    BY <2>2, <2>3
<1>12. ASSUME NEW b \in UdpClients, faults'[b] = 0
       PROVE  WholeOf(frames', udpDelivered'[b])
  BY <1>1, <1>2, <1>9, <1>10, <1>12 DEF WholeInv
<1> QED
  BY <1>11, <1>12 DEF FlowInv, WholeInv

\* Every step keeps the invariant.
LEMMA StepFlow == ASSUME UdpInv, [U!Next]_(U!vars) PROVE UdpInv'
<1>1. FlowTypes'
  BY StepTypes, ClientStep DEF UdpInv, FlowTypes
<1>2. ASSUME U!Next PROVE FlowInv' /\ WholeInv'
  BY <1>2, RegistryFlow, StopFlow, BroadcastFlow, SendFlow, OtherFlow, ReceiveFlow DEF U!Next
<1>3. ASSUME UNCHANGED U!vars PROVE FlowInv' /\ WholeInv'
  BY <1>3, QuietFlow DEF U!vars, U!serverVars, U!clientVars, U!sendVars, U!recvVars,
         UdpInv, Undisturbed, UdpUnread, Pending, U!Number
<1>4. FlowInv' /\ WholeInv'
  BY <1>2, <1>3
<1> QED
  BY <1>1, <1>4 DEF UdpInv

\* Over a network without faults, frames arrive whole and in order
\* (broadcast_frame and _udp_recv_loop).
THEOREM WholeWithoutFaultsHolds == U!Spec => []U!WholeWithoutFaults
<1>1. U!Init => UdpInv
  BY InitFlow
<1>2. UdpInv /\ [U!Next]_(U!vars) => UdpInv'
  BY StepFlow
<1>3. WholeInv => U!WholeWithoutFaults
  BY DEF WholeInv, U!WholeWithoutFaults, WholeOf, WholeIn, U!Whole, U!Number
<1>4. UdpInv => U!WholeWithoutFaults
  BY <1>3 DEF UdpInv
<1> QED
  BY <1>1, <1>2, <1>4, PTL DEF U!Spec
-----------------------------------------------------------------------------
(* What the UDP channel implements: FrameStream too, until a fault.  What   *)
(* the receiver hands on has a first fragment whatever the network does, so *)
(* that it has a number; without faults it is a whole frame, newer than     *)
(* those before it (WholeInv).                                              *)

\* A frame of the collector's is in it, as far as it goes.
Known(fs, ch) == \A k \in DOMAIN ch : ch[k].frame \in 1 .. Len(fs)

\* Pieces are of frames that were broadcast, so that a later one makes none whole.
KnownInv ==
    \A c \in UdpClients :
       /\ \A id \in U!Ids : cache[c][id] # U!Nothing => Known(frames, cache[c][id].chunks)
       /\ \A i \in DOMAIN udpDelivered[c] : Known(frames, udpDelivered[c][i])

LEMMA StoreKnown ==
  ASSUME NEW fs, IsFrames(fs), NEW d, IsOf(fs, d),
         NEW entry, entry # U!Nothing => Known(fs, entry.chunks)
  PROVE  U!Store(entry, d) # U!Nothing => Known(fs, U!Store(entry, d).chunks)
<1>1. U!Piece(d).frame \in 1 .. Len(fs)
  BY DEF IsOf, U!Piece
<1> DEFINE p == U!Piece(d)
<1>2. CASE ~d.short
  <2>1. DOMAIN U!OnlyPiece(d).chunks = {d.frag} /\ U!OnlyPiece(d).chunks[d.frag] = p
    BY DEF U!OnlyPiece
  <2> QED
    BY <1>1, <1>2, <2>1 DEF U!Store, Known
<1>3. CASE d.short /\ entry # U!Nothing
  <2> DEFINE e == U!AddPiece(entry, d)
  <2>1. /\ DOMAIN e.chunks = DOMAIN entry.chunks \cup {d.frag} /\ e.chunks[d.frag] = p
        /\ \A k \in DOMAIN entry.chunks \ {d.frag} : e.chunks[k] = entry.chunks[k]
    BY DEF U!AddPiece
  <2> HIDE DEF e
  <2>2. Known(fs, e.chunks)
    BY <1>1, <1>3, <2>1 DEF Known
  <2> QED
    BY <1>3, <2>2 DEF U!Store, e
<1>4. CASE d.short /\ entry = U!Nothing
  BY <1>4 DEF U!Store
<1> QED
  BY <1>2, <1>3, <1>4

\* A datagram that is read is of a frame that was broadcast.
LEMMA ReceiveKnown ==
  ASSUME Types, KnownInv, NEW c \in UdpClients, U!Receive(c) PROVE KnownInv'
<1> DEFINE d == Head(net[c])
           id == d.frame % Wrap
           entry == U!Store(cache[c][id], d)
<1>1. frames' = frames /\ U!Handle(c, d) /\ net[c] # <<>>
  BY DEF U!Receive, U!sendVars
<1>2. IsFrames(frames) /\ IsOf(frames, d)
  <2>1. IsSeq(net[c]) /\ \A i \in DOMAIN net[c] : IsOf(frames, net[c][i])
    BY DEF Types, NetTypes
  <2>2. 1 \in DOMAIN net[c] /\ Head(net[c]) = net[c][1]
    BY <1>1, <2>1, SeqTail
  <2> QED
    BY <2>1, <2>2 DEF Types, FrameTypes
<1>3. id \in U!Ids
  <2> HIDE DEF d
  <2>1. d.frame \in Nat /\ Wrap \in Nat \ {0}
    BY <1>2, DatagramFields, UdpBoundsAssumption
  <2> QED
    BY <2>1 DEF U!Ids
<1>4. entry # U!Nothing => Known(frames, entry.chunks)
  BY <1>2, <1>3, StoreKnown DEF KnownInv
<1> HIDE DEF d, id, entry
<1>5. CASE /\ U!Complete(entry)
           /\ udpDelivered' = [udpDelivered EXCEPT ![c] = Append(@, entry.chunks)]
           /\ cache' = [cache EXCEPT ![c][id] = U!Nothing]
  <2>1. /\ IsSeq(udpDelivered[c]) /\ udpDelivered'[c] = Append(udpDelivered[c], entry.chunks)
        /\ \A b \in UdpClients \ {c} : udpDelivered'[b] = udpDelivered[b]
    BY <1>5 DEF Types, CacheTypes
  <2>2. /\ cache'[c][id] = U!Nothing
        /\ \A b \in UdpClients \ {c} : cache'[b] = cache[b]
        /\ \A j \in U!Ids \ {id} : cache'[c][j] = cache[c][j]
    BY <1>3, <1>5 DEF Types, CacheTypes
  <2>3. ASSUME NEW i \in DOMAIN udpDelivered'[c]
        PROVE  Known(frames, udpDelivered'[c][i])
    <3>1. \/ i \in DOMAIN udpDelivered[c] /\ udpDelivered'[c][i] = udpDelivered[c][i]
          \/ udpDelivered'[c][i] = entry.chunks
      BY <2>1, <2>3, SeqAppend
    <3> QED
      BY <1>4, <1>5, <3>1 DEF KnownInv, U!Complete
  <2> QED
    BY <1>1, <2>1, <2>2, <2>3 DEF KnownInv
<1>6. CASE cache' = [cache EXCEPT ![c][id] = entry] /\ UNCHANGED udpDelivered
  <2>1. /\ cache'[c][id] = entry
        /\ \A b \in UdpClients \ {c} : cache'[b] = cache[b]
        /\ \A j \in U!Ids \ {id} : cache'[c][j] = cache[c][j]
    BY <1>3, <1>6 DEF Types, CacheTypes
  <2> QED
    BY <1>1, <1>4, <1>6, <2>1 DEF KnownInv
<1> QED
  BY <1>1, <1>5, <1>6 DEF U!Handle, entry, id

LEMMA KnownStep == ASSUME Types, KnownInv, [U!Next]_(U!vars) PROVE KnownInv'
<1> USE DEF U!serverVars, U!clientVars, U!sendVars, U!recvVars
<1>1. ASSUME UNCHANGED <<frames, cache, udpDelivered>> PROVE KnownInv'
  BY <1>1 DEF KnownInv
<1>2. ASSUME NEW size \in Sizes, U!Broadcast(size) PROVE KnownInv'
  <2>1. /\ IsFrames(frames) /\ Len(frames) < UdpFrames /\ frames' = Append(frames, size)
        /\ UNCHANGED <<cache, udpDelivered>>
    BY <1>2 DEF U!Broadcast, Types, FrameTypes, U!Number
  <2>2. Len(frames) \in Nat /\ Len(frames') = Len(frames) + 1
    BY <2>1, MoreFrames
  <2>3. \A ch : Known(frames, ch) => Known(frames', ch)
    BY <2>2 DEF Known
  <2> QED
    BY <2>1, <2>3 DEF KnownInv
<1>3. CASE U!Start \/ U!Bind \/ U!Stop \/ U!SendFragment
  BY <1>1, <1>3 DEF U!Start, U!Bind, U!Stop, U!SendFragment
<1>4. ASSUME NEW c \in UdpClients,
             U!Connect(c) \/ U!Disconnect(c) \/ U!Register(c) \/ U!RegistrationLost(c) \/ U!Fault(c)
      PROVE  KnownInv'
  BY <1>1, <1>4 DEF U!Connect, U!Disconnect, U!Register, U!RegistrationLost, U!Fault
<1>5. CASE UNCHANGED U!vars
  BY <1>1, <1>5 DEF U!vars
<1> QED
  BY <1>2, <1>3, <1>4, <1>5, ReceiveKnown DEF U!Next
-----------------------------------------------------------------------------
\* The numbers of the frames a receiver has handed on.
UdpNumbersOf(d) == [i \in DOMAIN d |-> UdpNumber(d[i])]

\* A number is that of a whole frame of those broadcast.
NumberIn(fs, ch) == IF WholeIn(fs, ch) THEN ch[1].frame ELSE 0

LEMMA UdpNumberIs ==
  /\ \A ch : UdpNumber(ch) = NumberIn(frames, ch)
  /\ UdpGot = [c \in UdpClients |-> [i \in DOMAIN udpDelivered[c] |-> NumberIn(frames, udpDelivered[c][i])]]
  /\ UdpGot' = [c \in UdpClients |-> [i \in DOMAIN udpDelivered'[c] |-> NumberIn(frames', udpDelivered'[c][i])]]
BY DEF UdpNumber, UdpGot, NumberIn, WholeIn, U!Whole, U!Number

\* A frame more makes none whole that was not.
LEMMA NumberStays ==
  ASSUME NEW fs, NEW gs, Len(fs) \in Nat, Len(gs) = Len(fs) + 1, \A f \in 1 .. Len(fs) : gs[f] = fs[f],
         NEW ch, IsUncut(ch), Known(fs, ch)
  PROVE  NumberIn(gs, ch) = NumberIn(fs, ch)
<1>1. ASSUME NEW f \in 1 .. Len(gs), U!FramesIn(ch) = {f}
      PROVE  f \in 1 .. Len(fs)
  BY <1>1 DEF IsUncut, Known, U!FramesIn
<1>2. \A f \in 1 .. Len(fs) : f \in 1 .. Len(gs)
  OBVIOUS
<1> QED
  BY <1>1, <1>2 DEF NumberIn, WholeIn

LEMMA UdpNumberIsNat ==
  ASSUME NEW ch, IsUncut(ch)
  PROVE  UdpNumber(ch) \in {0} \cup 1 .. UdpFrames
BY UdpNumberIs DEF IsUncut, U!IsChunks, U!Pieces, NumberIn

LEMMA UdpNumbersAppended ==
  ASSUME NEW d, IsSeq(d), \A i \in DOMAIN d : IsUncut(d[i]), NEW ch, IsUncut(ch)
  PROVE  UdpNumbersOf(Append(d, ch)) = Append(UdpNumbersOf(d), UdpNumber(ch))
<1> DEFINE g == Append(d, ch)
           m == UdpNumbersOf(d)
<1>1. /\ Len(d) \in Nat /\ g[Len(d) + 1] = ch /\ \A i \in 1 .. Len(d) : g[i] = d[i]
      /\ DOMAIN g = 1 .. Len(d) + 1 /\ DOMAIN d = 1 .. Len(d)
  BY SeqAppend
<1>2. /\ m = [i \in 1 .. Len(d) |-> UdpNumber(d[i])] /\ m \in Seq(Int) /\ Len(m) = Len(d)
      /\ UdpNumber(ch) \in Int
  <2>1. /\ \A i \in 1 .. Len(d) : UdpNumber(d[i]) \in Int
        /\ UdpNumber(ch) \in Int
    BY <1>1, UdpNumberIsNat, UdpBoundsAssumption
  <2>2. m = [i \in 1 .. Len(d) |-> UdpNumber(d[i])]
    BY <1>1 DEF UdpNumbersOf
  <2> QED
    BY <1>1, <2>1, <2>2
<1> HIDE DEF g, m
<1>3. Append(m, UdpNumber(ch)) =
        [i \in 1 .. Len(d) + 1 |-> IF i \in 1 .. Len(d) THEN m[i] ELSE UdpNumber(ch)]
  BY <1>2, AppendedNumber
<1>4. UdpNumbersOf(g) = [i \in 1 .. Len(d) + 1 |-> UdpNumber(g[i])]
  BY <1>1 DEF UdpNumbersOf
<1>5. ASSUME NEW i \in 1 .. Len(d) + 1
      PROVE  UdpNumber(g[i]) = IF i \in 1 .. Len(d) THEN m[i] ELSE UdpNumber(ch)
  <2>1. i \in 1 .. Len(d) \/ i = Len(d) + 1
    BY <1>1
  <2> QED
    BY <1>1, <1>2, <2>1
<1> QED
  BY <1>3, <1>4, <1>5 DEF g, m

\* What a receiver hands on is what the stream promises.
LEMMA UdpReceiveStreams ==
  ASSUME UdpInv, UdpInv', NEW c \in UdpClients, U!Receive(c)
  PROVE  UdpStream!Next \/ UNCHANGED UdpStream!vars
<1> DEFINE d == udpDelivered[c]
<1>1. UNCHANGED <<frames, faults>> /\ U!Number' = U!Number /\ faults \in [UdpClients -> 0 .. MaxFaults]
  BY DEF U!Receive, U!sendVars, U!Number, UdpInv, FlowTypes, Types, ServerTypes
<1>2. /\ DOMAIN udpDelivered = UdpClients /\ IsSeq(d) /\ \A i \in DOMAIN d : IsUncut(d[i])
      /\ \A i \in DOMAIN udpDelivered'[c] : IsUncut(udpDelivered'[c][i])
  BY DEF UdpInv, FlowTypes, Types, CacheTypes
<1>3. \/ UNCHANGED udpDelivered
      \/ \E ch : udpDelivered' = [udpDelivered EXCEPT ![c] = Append(@, ch)]
  BY DEF U!Receive, U!Handle
<1>4. CASE UNCHANGED udpDelivered
  BY <1>1, <1>4, UdpNumberIs DEF UdpStream!vars
<1>5. ASSUME NEW ch, udpDelivered' = [udpDelivered EXCEPT ![c] = Append(@, ch)]
      PROVE  UdpStream!Next
  <2> DEFINE f == UdpNumber(ch)
             g == Append(d, ch)
  <2>1. /\ udpDelivered'[c] = g
        /\ Len(d) \in Nat /\ DOMAIN d = 1 .. Len(d) /\ DOMAIN g = 1 .. Len(d) + 1
        /\ g[Len(d) + 1] = ch /\ \A i \in 1 .. Len(d) : g[i] = d[i]
    BY <1>2, <1>5, SeqAppend
  <2>2. IsUncut(ch)
    BY <1>2, <2>1
  <2>3. UdpGot' = [UdpGot EXCEPT ![c] = Append(@, f)]
    <3>1. UdpGot = [k \in UdpClients |-> UdpNumbersOf(udpDelivered[k])]
      BY DEF UdpGot, UdpNumbersOf
    <3>2. UdpGot' = [k \in UdpClients |-> UdpNumbersOf(udpDelivered'[k])]
      BY <1>1, UdpNumberIs DEF UdpNumbersOf
    <3>3. UdpNumbersOf(udpDelivered'[c]) = Append(UdpNumbersOf(d), f)
      BY <1>2, <2>1, <2>2, UdpNumbersAppended
    <3>4. \A k \in UdpClients : k # c => udpDelivered'[k] = udpDelivered[k]
      BY <1>2, <1>5
    <3> HIDE DEF f
    <3> QED
      BY <3>1, <3>2, <3>3, <3>4
  <2>4. ASSUME faults[c] = 0
        PROVE  f \in 1 .. U!Number /\ UdpStream!IsNewer(c, f)
    <3>1. WholeOf(frames, g)
      BY <1>1, <2>1, <2>4 DEF UdpInv, WholeInv
    <3> HIDE DEF d, g
    <3>2. ch[1].frame \in 1 .. Len(frames) /\ WholeIn(frames, ch)
      <4>1. WholeIn(frames, ch)
        BY <2>1, <3>1 DEF WholeOf
      <4>2. 1 \in DOMAIN ch
        BY <2>2 DEF IsUncut
      <4> QED
        BY <4>1, <4>2 DEF WholeIn, U!FramesIn
    <3>3. f = ch[1].frame /\ Len(frames) \in Nat
      <4>1. Len(frames) \in Nat
        BY LenProperties DEF UdpInv, FlowTypes, Types, FrameTypes, IsFrames
      <4>2. UdpNumber(ch) = NumberIn(frames, ch)
        BY UdpNumberIs
      <4> QED
        BY <3>2, <4>1, <4>2 DEF NumberIn
    <3>4. \A i \in 1 .. Len(d) : d[i][1].frame < ch[1].frame
      <4> SUFFICES ASSUME NEW i \in 1 .. Len(d) PROVE d[i][1].frame < ch[1].frame
        OBVIOUS
      <4>1. i \in DOMAIN g /\ Len(d) + 1 \in DOMAIN g /\ i < Len(d) + 1
        BY <2>1
      <4>2. g[i][1].frame < g[Len(d) + 1][1].frame
        BY <3>1, <4>1 DEF WholeOf
      <4> QED
        BY <2>1, <4>2
    <3>5. \A i \in DOMAIN d : UdpNumber(d[i]) < f
      <4> SUFFICES ASSUME NEW i \in 1 .. Len(d) PROVE UdpNumber(d[i]) < f
        BY <2>1
      <4>1. UdpNumber(d[i]) = 0 \/ UdpNumber(d[i]) = d[i][1].frame
        BY UdpNumberIs DEF NumberIn
      <4> HIDE DEF f
      <4> QED
        BY <3>2, <3>3, <3>4, <4>1
    <3>6. UdpGot[c] = [i \in DOMAIN d |-> UdpNumber(d[i])]
      BY DEF UdpGot, d
    <3> HIDE DEF f
    <3> QED
      BY <3>2, <3>3, <3>5, <3>6 DEF UdpStream!IsNewer, U!Number
  <2>5. f \in {UdpStream!Damaged} \cup 1 .. UdpFrames
    BY <2>2, UdpNumberIsNat DEF UdpStream!Damaged
  <2>6. c \in {k \in UdpClients : faults[k] > 0} \/ faults[c] = 0
    BY <1>1
  <2> HIDE DEF f
  <2>7. UdpStream!HandOver(c, f)
    BY <1>1, <2>3, <2>4, <2>6 DEF UdpStream!HandOver
  <2> QED
    BY <2>5, <2>7 DEF UdpStream!Next
<1> QED
  BY <1>3, <1>4, <1>5

\* A fault ends the promise to its receiver.
LEMMA UdpDisturbed ==
  ASSUME UdpInv, NEW c \in UdpClients, faults' = [faults EXCEPT ![c] = @ + 1],
         UNCHANGED <<frames, udpDelivered>>
  PROVE  UdpStream!Next
<1> DEFINE D == {k \in UdpClients : faults[k] > 0}
<1>1. faults \in [UdpClients -> 0 .. MaxFaults] /\ MaxFaults \in Nat
  BY UdpBoundsAssumption DEF UdpInv, FlowTypes, Types, ServerTypes
<1>2. {k \in UdpClients : faults'[k] > 0} = D \cup {c}
  BY <1>1
<1>3. UdpGot' = UdpGot /\ U!Number' = U!Number
  BY UdpNumberIs DEF U!Number
<1> QED
  BY <1>2, <1>3 DEF UdpStream!Next, UdpStream!Disturb

\* Each step is one of the stream, or none.
LEMMA UdpStep ==
  ASSUME UdpInv, UdpInv', KnownInv, [U!Next]_(U!vars)
  PROVE  [UdpStream!Next]_(UdpStream!vars)
<1> USE DEF U!serverVars, U!clientVars, U!sendVars, U!recvVars
<1>1. ASSUME UNCHANGED <<frames, udpDelivered, faults>> PROVE UNCHANGED UdpStream!vars
  BY <1>1, UdpNumberIs DEF UdpStream!vars, U!Number
<1>2. ASSUME NEW size \in Sizes, U!Broadcast(size)
      PROVE  UdpStream!Next
  <2>1. U!Number < UdpFrames /\ frames' = Append(frames, size) /\ UNCHANGED <<udpDelivered, faults>>
    BY <1>2 DEF U!Broadcast
  <2>2. /\ U!Number' = U!Number + 1 /\ Len(frames') = Len(frames) + 1 /\ Len(frames) \in Nat
        /\ \A f \in 1 .. Len(frames) : frames'[f] = frames[f]
    BY <2>1, MoreFrames DEF U!Number, UdpInv, FlowTypes, Types, FrameTypes
  <2>3. UdpGot' = UdpGot
    <3>1. ASSUME NEW c \in UdpClients, NEW i \in DOMAIN udpDelivered[c]
          PROVE  NumberIn(frames', udpDelivered[c][i]) = NumberIn(frames, udpDelivered[c][i])
      <4>1. IsUncut(udpDelivered[c][i]) /\ Known(frames, udpDelivered[c][i])
        BY <3>1 DEF KnownInv, UdpInv, FlowTypes, Types, CacheTypes
      <4> QED
        BY <2>2, <4>1, NumberStays
    <3> QED
      BY <2>1, <3>1, UdpNumberIs
  <2> QED
    BY <2>1, <2>2, <2>3 DEF UdpStream!Next, UdpStream!Broadcast
<1>3. CASE U!Start \/ U!Bind \/ U!Stop \/ U!SendFragment
  BY <1>1, <1>3 DEF U!Start, U!Bind, U!Stop, U!SendFragment
<1>4. ASSUME NEW c \in UdpClients, U!Connect(c) \/ U!Disconnect(c) \/ U!Register(c)
      PROVE  UNCHANGED UdpStream!vars
  BY <1>1, <1>4 DEF U!Connect, U!Disconnect, U!Register
<1>5. ASSUME NEW c \in UdpClients, U!RegistrationLost(c)
      PROVE  UdpStream!Next \/ UNCHANGED UdpStream!vars
  <2>1. UNCHANGED <<frames, udpDelivered>> /\ faults \in [UdpClients -> 0 .. MaxFaults]
    BY <1>5 DEF U!RegistrationLost, UdpInv, FlowTypes, Types, ServerTypes
  <2>2. CASE udpServer = "up"
    BY <1>5, <2>1, <2>2, UdpDisturbed DEF U!RegistrationLost
  <2>3. CASE udpServer # "up"
    <3>1. faults' = faults
      BY <1>5, <2>1, <2>3 DEF U!RegistrationLost
    <3> QED
      BY <1>1, <2>1, <3>1
  <2> QED
    BY <2>2, <2>3
<1>6. ASSUME NEW c \in UdpClients, U!Fault(c)
      PROVE  UdpStream!Next
  BY <1>6, UdpDisturbed DEF U!Fault
<1>7. CASE UNCHANGED U!vars
  BY <1>1, <1>7 DEF U!vars
<1> QED
  BY <1>2, <1>3, <1>4, <1>5, <1>6, <1>7, UdpReceiveStreams DEF U!Next

(* The UDP channel keeps the promise of FrameStream until a fault of the   *)
(* network: what a receiver hands on are frames that were broadcast, each  *)
(* of pieces of its own and newer than the ones before (broadcast_frame    *)
(* 359-438, _udp_recv_loop 190-248).                                       *)
THEOREM UdpIsStreamHolds == U!Spec => UdpIsStream
<1>1. U!Init => UdpStream!Init
  <2> SUFFICES ASSUME U!Init PROVE UdpStream!Init
    OBVIOUS
  <2>1. U!Number = 0
    BY EmptySeq DEF U!Init, U!Number
  <2>2. \A c \in UdpClients : UdpNumbersOf(udpDelivered[c]) = <<>>
    <3>1. DOMAIN <<>> = {}
      OBVIOUS
    <3> QED
      BY <3>1 DEF U!Init, UdpNumbersOf
  <2>3. UdpGot = [c \in UdpClients |-> <<>>]
    <3>1. UdpGot = [c \in UdpClients |-> UdpNumbersOf(udpDelivered[c])]
      BY DEF UdpGot, UdpNumbersOf
    <3> QED
      BY <2>2, <3>1
  <2>4. {c \in UdpClients : faults[c] > 0} = {}
    BY DEF U!Init
  <2> QED
    BY <2>1, <2>3, <2>4 DEF UdpStream!Init
<1>2. U!Init => UdpInv /\ KnownInv
  <2>1. U!Init => KnownInv
    BY DEF U!Init, KnownInv
  <2> QED
    BY <2>1, InitFlow
<1>3. UdpInv /\ [U!Next]_(U!vars) => UdpInv'
  BY StepFlow
<1>4. UdpInv /\ KnownInv /\ [U!Next]_(U!vars) => KnownInv'
  BY KnownStep DEF UdpInv, FlowTypes
<1>5. UdpInv /\ UdpInv' /\ KnownInv /\ [U!Next]_(U!vars) => [UdpStream!Next]_(UdpStream!vars)
  BY UdpStep
<1> QED
  BY <1>1, <1>2, <1>3, <1>4, <1>5, PTL DEF U!Spec, UdpIsStream, UdpStream!Spec
================================================================================
