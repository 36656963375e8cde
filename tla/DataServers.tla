------------------------------ MODULE DataServers ------------------------------
(***************************************************************************)
(* collector/api.py (_start_socketio_once, the TCP and UDP emitters,       *)
(* _start_tcp_server_once) and the start of the data servers               *)
(* (collector/tcp_data_server.py): the lazy start of the two data channels *)
(* by the first start requests, each a thread of the threaded Flask server.*)
(*                                                                         *)
(* There is no lock: a request reads the flag, later sets it, and reads    *)
(* the attribute that holds the server again for each use.  An emitter     *)
(* looks its server up when it emits first and keeps it.  The Socket.IO    *)
(* server is a singleton of the process and is left out.                   *)
(***************************************************************************)
EXTENDS Integers, Sequences

CONSTANT Requests  \* POST collector/start requests

VARIABLES pc,        \* the statement each request executes next
          started,   \* _socketio_started
          servers,   \* every server made: its channel and its state
          current,   \* _tcp_server and _udp_server: an index in servers, 0 for None
          emitters,  \* Collector._callbacks: channel and server looked up, 0 for none
          clientsAt, \* the server new clients of a channel reach, 0 for none
          acquiring, \* an acquisition thread runs
          copies,    \* of the last frame: broadcasts by the server clients reach
          overlapped \* history: two requests were under way at once

vars == <<pc, started, servers, current, emitters, clientsAt, acquiring, copies,
          overlapped>>

Channels == {"tcp", "udp"}

Init ==
    /\ pc = [r \in Requests |-> "idle"]
    /\ started = FALSE
    /\ servers = <<>>
    /\ current = [ch \in Channels |-> 0]
    /\ emitters = <<>>
    /\ clientsAt = [ch \in Channels |-> 0]
    /\ acquiring = FALSE
    /\ copies = [ch \in Channels |-> 0]
    /\ overlapped = FALSE

\* The statements of a channel.
Emit == [tcp |-> "emit tcp", udp |-> "emit udp"]
New  == [tcp |-> "new tcp", udp |-> "new udp"]
Run  == [tcp |-> "run tcp", udp |-> "run udp"]

Goto(r, from, to) == pc[r] = from /\ pc' = [pc EXCEPT ![r] = to]
-----------------------------------------------------------------------------
(* A start request: _start_socketio_once, statement by statement. *)

Request(r) ==
    /\ Goto(r, "idle", "check")
    /\ overlapped' = (overlapped \/ \E q \in Requests : pc[q] \notin {"idle", "done"})
    /\ UNCHANGED <<started, servers, current, emitters, clientsAt, acquiring, copies>>

Check(r) ==
    /\ Goto(r, "check", IF started THEN "ensure" ELSE "flag")
    /\ UNCHANGED <<started, servers, current, emitters, clientsAt, acquiring, copies,
                   overlapped>>

ForgetFlag(r) ==   \* faulty: the flag is not set
    /\ Goto(r, "flag", "emit tcp")
    /\ UNCHANGED <<started, servers, current, emitters, clientsAt, acquiring, copies,
                   overlapped>>

SetFlag(r) ==
    /\ Goto(r, "flag", "emit tcp")
    /\ started' = TRUE
    /\ UNCHANGED <<servers, current, emitters, clientsAt, acquiring, copies,
                   overlapped>>

AddEmitter(r, ch) ==
    /\ Goto(r, Emit[ch], New[ch])
    /\ emitters' = Append(emitters, [channel |-> ch, server |-> 0])
    /\ UNCHANGED <<started, servers, current, clientsAt, acquiring, copies,
                   overlapped>>

NewServer(ch) ==
    /\ servers' = Append(servers, [channel |-> ch, state |-> "new"])
    /\ current' = [current EXCEPT ![ch] = Len(servers')]

\* start() of whatever the attribute holds by now, unless it runs already.
RunServer(ch) ==
    LET s == current[ch] IN
    servers' = IF servers[s].state \in {"new", "dead"}
               THEN [servers EXCEPT ![s].state = "running"] ELSE servers

MakeServer(r, ch) ==
    /\ Goto(r, New[ch], Run[ch])
    /\ NewServer(ch)
    /\ UNCHANGED <<started, emitters, clientsAt, acquiring, copies,
                   overlapped>>

StartServer(r, ch) ==
    /\ Goto(r, Run[ch], IF ch = "tcp" THEN "emit udp" ELSE "ensure")
    /\ RunServer(ch)
    /\ UNCHANGED <<started, current, emitters, clientsAt, acquiring, copies,
                   overlapped>>

\* _start_tcp_server_once, skipped when the request asks for "udp".
Ensure(r) ==
    /\ \/ Goto(r, "ensure", "start")
       \/ current["tcp"] = 0 /\ Goto(r, "ensure", "ensure new")
    /\ UNCHANGED <<started, servers, current, emitters, clientsAt, acquiring, copies,
                   overlapped>>

EnsureNew(r) ==
    /\ Goto(r, "ensure new", "ensure run")
    /\ NewServer("tcp")
    /\ UNCHANGED <<started, emitters, clientsAt, acquiring, copies,
                   overlapped>>

EnsureRun(r) ==
    /\ Goto(r, "ensure run", "start")
    /\ RunServer("tcp")
    /\ UNCHANGED <<started, current, emitters, clientsAt, acquiring, copies,
                   overlapped>>

\* Collector.start, which may also refuse.
StartAcquisition(r) ==
    /\ Goto(r, "start", "done")
    /\ acquiring' \in {acquiring, TRUE}
    /\ UNCHANGED <<started, servers, current, emitters, clientsAt, copies, overlapped>>

RequestStep(r) ==
    \/ Check(r) \/ SetFlag(r)
    \/ \E ch \in Channels : AddEmitter(r, ch) \/ MakeServer(r, ch) \/ StartServer(r, ch)
    \/ Ensure(r) \/ EnsureNew(r) \/ EnsureRun(r)
    \/ StartAcquisition(r)
-----------------------------------------------------------------------------
(* The servers' threads bind their port.  One TCP server at most listens   *)
(* on a port; of UDP sockets that share it the last one bound is reached.  *)
(* Any bind may fail: the port may be in use.                              *)

Bind(s) ==
    LET ch == servers[s].channel IN
    /\ servers[s].state = "running"
    /\ \/ /\ ch = "tcp" => clientsAt[ch] = 0
          /\ servers' = [servers EXCEPT ![s].state = "bound"]
          /\ clientsAt' = [clientsAt EXCEPT ![ch] = s]
       \/ /\ servers' = [servers EXCEPT ![s].state = "dead"]
          /\ UNCHANGED clientsAt
    /\ UNCHANGED <<pc, started, current, emitters, acquiring, copies, overlapped>>
-----------------------------------------------------------------------------
(* The acquisition thread hands a frame to every emitter; a server that    *)
(* does not run ignores it.                                                *)

LookedUp(e) == IF e.server = 0 THEN [e EXCEPT !.server = current[e.channel]] ELSE e

EmitFrame ==
    /\ acquiring
    /\ emitters' = [i \in DOMAIN emitters |-> LookedUp(emitters[i])]
    /\ copies' = [ch \in Channels |->
          LET reaching == {i \in DOMAIN emitters' : emitters'[i].channel = ch
                              /\ emitters'[i].server = clientsAt[ch]}
          IN  IF clientsAt[ch] = 0 THEN 0
              ELSE IF reaching = {} THEN -1   \* nobody broadcasts it
              ELSE IF \A i, j \in reaching : i = j THEN 1 ELSE 2]
    /\ UNCHANGED <<pc, started, servers, current, clientsAt, acquiring, overlapped>>
-----------------------------------------------------------------------------
Next ==
    \/ \E r \in Requests : Request(r) \/ RequestStep(r)
    \/ \E s \in DOMAIN servers : Bind(s)
    \/ EmitFrame

Spec == Init /\ [][Next]_vars
-----------------------------------------------------------------------------
Statements ==
    {"idle", "check", "flag", "ensure", "ensure new", "ensure run", "start", "done"}
        \cup UNION {{Emit[ch], New[ch], Run[ch]} : ch \in Channels}

(* Type invariant. *)
TypeOK ==
    /\ pc \in [Requests -> Statements]
    /\ started \in BOOLEAN /\ acquiring \in BOOLEAN
    /\ \A s \in DOMAIN servers :
          /\ servers[s].channel \in Channels
          /\ servers[s].state \in {"new", "running", "bound", "dead"}
    /\ current \in [Channels -> 0 .. Len(servers)]
    /\ clientsAt \in [Channels -> 0 .. Len(servers)]
    /\ \A i \in DOMAIN emitters :
          emitters[i].channel \in Channels /\ emitters[i].server \in 0 .. Len(servers)
    /\ copies \in [Channels -> -1 .. 2]
    /\ overlapped \in BOOLEAN

(* The servers are started once (api.py 88) as long as no two start        *)
(* requests were under way at once: while clients can reach a server of a  *)
(* channel, every frame is broadcast there, and only once.                 *)
StartedOnceInTurn == ~overlapped => \A ch \in Channels : copies[ch] \in {0, 1}

(* A request that was served leaves no channel without an emitter and a    *)
(* server that was started, and frames keep their channel: an emitter      *)
(* broadcasts on the channel it was made for (api.py 85-155).              *)
ChannelsAreWired ==
    /\ (\E r \in Requests : pc[r] = "done") /\ (\A r \in Requests : pc[r] \in {"idle", "done"})
          => \A ch \in Channels :
                /\ current[ch] # 0 /\ servers[current[ch]].state # "new"
                /\ \E i \in DOMAIN emitters : emitters[i].channel = ch
    /\ \A i \in DOMAIN emitters :
          emitters[i].server # 0 => servers[emitters[i].server].channel = emitters[i].channel

(* Together: what is acquired reaches the clients of both channels.        *)
FramesGoOut == TypeOK /\ StartedOnceInTurn /\ ChannelsAreWired
=============================================================================
