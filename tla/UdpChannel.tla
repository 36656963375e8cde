------------------------------ MODULE UdpChannel ------------------------------
(***************************************************************************)
(* collector/tcp_data_server.py (UDPDataServer) and the UDP half of        *)
(* backend/collector_io_client.py: IQ frames cut into datagrams.           *)
(*                                                                         *)
(* A client registers with one datagram.  The acquisition thread cuts each *)
(* frame into fragments and sends every fragment to the clients registered *)
(* when it began.  The receiver cannot tell a first fragment from a later  *)
(* one except by its size: every fragment but a last one that carries less *)
(* than eight bytes is as long as a first header (36 bytes), and is read   *)
(* as a first fragment, eight bytes of its data taken for a frequency.     *)
(* Samples have eight bytes and a fragment 8156, so that only an even      *)
(* number of fragments can end in such a short one.                        *)
(***************************************************************************)
EXTENDS Integers, Sequences, FiniteSets, SequencesExt

CONSTANTS Clients,    \* receivers, one CollectorIOClient each
          Sizes,      \* what frames are cut into: [frags, short], short if the
                      \* last fragment is shorter than a first header, which
                      \* it is only of an even number of them
          MaxFrags,   \* _UDP_MAX_FRAGS, 650 in the code
          Wrap,       \* frame ids restart after this many, 200 in the code
          MaxFrames,  \* bound: frames broadcast
          MaxFaults   \* bound: datagrams lost, overtaken or duplicated, by client

VARIABLES server,     \* "off", "binding", "up", "failed" or "stopped"
          registered, \* _clients
          client,     \* each client: "new", "open" or "closed"
          asking,     \* clients whose registration is in flight
          frames,     \* history: the sizes of the frames broadcast
          next,       \* the fragment of the last frame to send next, 0 if none
          targets,    \* clients_snapshot
          addressed,  \* history: the frames sent to each client
          net,        \* datagrams in flight to each client
          cache,      \* fragments: by frame id, a record or Nothing
          delivered,  \* history: what was handed to _deliver_frame
          faults      \* history: faults of the network, by client

serverVars == <<server, registered>>
clientVars == <<client, asking>>
sendVars == <<frames, next, targets, addressed>>
recvVars == <<cache, delivered>>
vars == <<serverVars, clientVars, sendVars, net, recvVars, faults>>

Ids == 0 .. Wrap - 1
Nothing == <<>>   \* no cache entry

Init ==
    /\ server = "off" /\ registered = {}
    /\ client = [c \in Clients |-> "new"] /\ asking = {}
    /\ frames = <<>> /\ next = 0 /\ targets = {}
    /\ addressed = [c \in Clients |-> {}]
    /\ net = [c \in Clients |-> <<>>]
    /\ cache = [c \in Clients |-> [i \in Ids |-> Nothing]]
    /\ delivered = [c \in Clients |-> <<>>]
    /\ faults = [c \in Clients |-> 0]
-----------------------------------------------------------------------------
(* The server: start(), its thread, and stop(). *)

Start ==
    /\ server = "off"
    /\ server' = "binding"
    /\ UNCHANGED <<registered, clientVars, sendVars, net, recvVars, faults>>

Bind ==
    /\ server = "binding"
    /\ server' \in {"up", "failed"}
    /\ UNCHANGED <<registered, clientVars, sendVars, net, recvVars, faults>>

\* A registration arrives; a client already known is not added again.
Register(c) ==
    /\ server = "up" /\ c \in asking
    /\ asking' = asking \ {c}
    /\ registered' = registered \cup {c}
    /\ UNCHANGED <<server, client, sendVars, net, recvVars, faults>>

\* A datagram to a port nobody is bound to is gone; so is one the network loses.
RegistrationLost(c) ==
    /\ c \in asking
    /\ server = "up" => faults[c] < MaxFaults
    /\ asking' = asking \ {c}
    /\ faults' = [faults EXCEPT ![c] = IF server = "up" THEN @ + 1 ELSE @]
    /\ UNCHANGED <<serverVars, client, sendVars, net, recvVars>>

Stop ==
    /\ server \in {"binding", "up"}
    /\ server' = "stopped"
    /\ registered' = {}
    /\ UNCHANGED <<clientVars, sendVars, net, recvVars, faults>>
-----------------------------------------------------------------------------
(* The acquisition thread: broadcast_frame. *)

Number == Len(frames)   \* the frame being sent

Broadcast(size) ==
    /\ server \in {"binding", "up"} /\ next = 0 /\ Number < MaxFrames
    /\ frames' = Append(frames, size)
    /\ IF size.frags <= MaxFrags /\ registered # {}
         THEN /\ next' = 1
              /\ targets' = registered
              /\ addressed' = [c \in Clients |-> IF c \in registered
                                  THEN addressed[c] \cup {Number + 1} ELSE addressed[c]]
         ELSE UNCHANGED <<next, targets, addressed>>
    /\ UNCHANGED <<serverVars, clientVars, net, recvVars, faults>>

\* A datagram: frame, fragment and total of its header, and how long it is.
Datagram(f, k) ==
    [frame |-> f, frag |-> k, total |-> frames[f].frags,
     short |-> frames[f].short /\ k = frames[f].frags]

SendLastFirst ==   \* faulty: the fragments in reverse
    /\ next # 0
    /\ next' = IF next = frames[Number].frags THEN 0 ELSE next + 1
    /\ net' = [c \in Clients |-> IF c \in targets /\ server = "up" /\ client[c] = "open"
                  THEN Append(net[c], Datagram(Number, frames[Number].frags + 1 - next))
                  ELSE net[c]]
    /\ targets' = IF next' = 0 THEN {} ELSE targets
    /\ UNCHANGED <<serverVars, clientVars, frames, addressed, recvVars, faults>>

\* Send one fragment to all of the snapshot.  A stopped server has no socket:
\* the exception is swallowed and the loop goes on.
SendFragment ==
    /\ next # 0
    /\ next' = IF next = frames[Number].frags THEN 0 ELSE next + 1
    /\ net' = [c \in Clients |-> IF c \in targets /\ server = "up" /\ client[c] = "open"
                  THEN Append(net[c], Datagram(Number, next)) ELSE net[c]]
    /\ targets' = IF next' = 0 THEN {} ELSE targets
    /\ UNCHANGED <<serverVars, clientVars, frames, addressed, recvVars, faults>>
-----------------------------------------------------------------------------
(* The client: _connect_udp, disconnect, and the receiver thread. *)

Connect(c) ==
    /\ client[c] = "new"
    /\ client' = [client EXCEPT ![c] = "open"]
    /\ asking' = asking \cup {c}
    /\ UNCHANGED <<serverVars, sendVars, net, recvVars, faults>>

\* The server is not told.
Disconnect(c) ==
    /\ client[c] = "open"
    /\ client' = [client EXCEPT ![c] = "closed"]
    /\ net' = [net EXCEPT ![c] = <<>>]
    /\ UNCHANGED <<serverVars, asking, sendVars, recvVars, faults>>

Piece(d) == [frame |-> d.frame, frag |-> d.frag, cut |-> d.frag > 1 /\ ~d.short]

\* A cache entry begun with a datagram, and one that gets another.
OnlyPiece(d) == [total |-> d.total, chunks |-> [k \in {d.frag} |-> Piece(d)]]

AddPiece(entry, d) ==
    [total  |-> entry.total,
     chunks |-> [k \in DOMAIN entry.chunks \cup {d.frag} |->
                    IF k = d.frag THEN Piece(d) ELSE entry.chunks[k]]]

StoreIfNew(entry, d) ==   \* faulty: the entry is made by the first arrival only
    IF entry # Nothing THEN AddPiece(entry, d)
    ELSE IF d.short THEN Nothing
    ELSE OnlyPiece(d)

\* What a datagram makes of the cache entry of its frame id: one read as a
\* first fragment starts the entry anew, a short one needs an entry.
Store(entry, d) ==
    IF ~d.short THEN OnlyPiece(d)
    ELSE IF entry = Nothing THEN Nothing
    ELSE AddPiece(entry, d)

MoreThanAll(entry) ==   \* faulty: off by one
    entry # Nothing /\ Cardinality(DOMAIN entry.chunks) > entry.total

\* All the chunks are there, as far as their number tells.
Complete(entry) ==
    entry # Nothing /\ Cardinality(DOMAIN entry.chunks) = entry.total

Handle(c, d) ==
    LET id == d.frame % Wrap
        entry == Store(cache[c][id], d)
    IN  IF Complete(entry) /\ DOMAIN entry.chunks = 1 .. entry.total
          THEN /\ delivered' = [delivered EXCEPT ![c] = Append(@, entry.chunks)]
               /\ cache' = [cache EXCEPT ![c][id] = Nothing]
          ELSE \* incomplete, or the join raises a KeyError that is swallowed
               /\ cache' = [cache EXCEPT ![c][id] = entry]
               /\ UNCHANGED delivered

Receive(c) ==
    /\ client[c] = "open" /\ net[c] # <<>>
    /\ Handle(c, Head(net[c]))
    /\ net' = [net EXCEPT ![c] = Tail(@)]
    /\ UNCHANGED <<serverVars, clientVars, sendVars, faults>>
-----------------------------------------------------------------------------
(* The network loses, delays or duplicates a datagram. *)

Fault(c) ==
    /\ faults[c] < MaxFaults /\ net[c] # <<>>
    /\ faults' = [faults EXCEPT ![c] = @ + 1]
    /\ \E i \in DOMAIN net[c] :
          \/ net' = [net EXCEPT ![c] = RemoveAt(@, i)]
          \/ net' = [net EXCEPT ![c] = Append(RemoveAt(@, i), @[i])]
          \/ net' = [net EXCEPT ![c] = Append(@, @[i])]
    /\ UNCHANGED <<serverVars, clientVars, sendVars, recvVars>>
-----------------------------------------------------------------------------
Next ==
    \/ Start \/ Bind \/ Stop
    \/ \E s \in Sizes : Broadcast(s)
    \/ SendFragment
    \/ \E c \in Clients :
          \/ Connect(c) \/ Disconnect(c)
          \/ Register(c) \/ RegistrationLost(c)
          \/ Receive(c)
          \/ Fault(c)

Spec == Init /\ [][Next]_vars

\* broadcast_frame never waits, and both threads go round their loops.  Nobody
\* has to connect, to start the server or to broadcast.
Fairness ==
    /\ WF_vars(SendFragment)
    /\ \A c \in Clients : WF_vars(Register(c)) /\ WF_vars(Receive(c))

FairSpec == Spec /\ Fairness
-----------------------------------------------------------------------------
Pieces == [frame : 1 .. MaxFrames, frag : Nat \ {0}, cut : BOOLEAN]
IsChunks(ch) == \A k \in DOMAIN ch : k \in Nat \ {0} /\ ch[k] \in Pieces /\ ch[k].frag = k

(* Type invariant. *)
TypeOK ==
    /\ server \in {"off", "binding", "up", "failed", "stopped"}
    /\ registered \subseteq Clients /\ targets \subseteq Clients /\ asking \subseteq Clients
    /\ client \in [Clients -> {"new", "open", "closed"}]
    /\ frames \in Seq(Sizes) /\ Number <= MaxFrames
    /\ next \in Nat /\ (next # 0 => next <= frames[Number].frags)
    /\ addressed \in [Clients -> SUBSET (1 .. Number)]
    /\ \A c \in Clients :
          /\ \A i \in DOMAIN net[c] : net[c][i] = Datagram(net[c][i].frame, net[c][i].frag)
          /\ \A id \in Ids : cache[c][id] = Nothing \/ IsChunks(cache[c][id].chunks)
          /\ \A i \in DOMAIN delivered[c] : IsChunks(delivered[c][i])
    /\ faults \in [Clients -> 0 .. MaxFaults]

FramesIn(chunks) == {chunks[k].frame : k \in DOMAIN chunks}

(* Whatever the network does, data that lost eight bytes to a header it    *)
(* does not have is never handed to the framework, and neither is a frame  *)
(* without its first fragment, whose frequency it is labelled with         *)
(* (_udp_recv_loop 203-239).                                               *)
NothingIsCut ==
    /\ TypeOK
    /\ \A c \in Clients : \A i \in DOMAIN delivered[c] :
          /\ 1 \in DOMAIN delivered[c][i]
          /\ \A k \in DOMAIN delivered[c][i] : ~delivered[c][i][k].cut

Whole(chunks) ==
    \E f \in 1 .. Number :
        /\ FramesIn(chunks) = {f}
        /\ DOMAIN chunks = 1 .. frames[f].frags

(* Over a network without faults every frame delivered is one frame of the *)
(* collector, complete, and they arrive in order, although frame ids       *)
(* repeat and entries of frames that never completed stay in the cache.    *)
WholeWithoutFaults ==
    \A c \in Clients : faults[c] = 0 =>
        /\ \A i \in DOMAIN delivered[c] : Whole(delivered[c][i])
        /\ \A i, j \in DOMAIN delivered[c] : i < j =>
              delivered[c][i][1].frame < delivered[c][j][1].frame

IsDelivered(c, f) == \E i \in DOMAIN delivered[c] : FramesIn(delivered[c][i]) = {f}

(* The frames that can be put together at all.                             *)
Fits(size) == size.frags = 1 \/ (size.frags = 2 /\ size.short)

(* Over a network without faults a frame sent to a client that stays is    *)
(* delivered, if it is a single fragment, or two with a short second one,  *)
(* and the server is not stopped (broadcast_frame 359-438, the receiver    *)
(* 190-248).                                                               *)
SmallFramesArrive ==
    \A c \in Clients : \A f \in 1 .. MaxFrames :
        (f \in addressed[c]) ~>
            (\/ f <= Number /\ ~Fits(frames[f])
             \/ IsDelivered(c, f)
             \/ faults[c] > 0 \/ client[c] = "closed" \/ server = "stopped")
=============================================================================
