------------------------------ MODULE Collector ------------------------------
(***************************************************************************)
(* collector/collector.py behind collector/api.py: the acquisition state   *)
(* machine of the collector service.                                       *)
(*                                                                         *)
(* The REST server runs every request in a thread of its own and the       *)
(* Collector has no lock, so requests (Handlers) interleave with each      *)
(* other and with the acquisition threads (Loops) that start() creates.    *)
(* Steps are cut where a request waits (join, opening the device) or where *)
(* another thread can tell the order of its assignments.                   *)
(***************************************************************************)
EXTENDS Integers, FiniteSets

CONSTANTS Handlers,    \* request threads
          Loops,       \* acquisition threads that may be created
          Sessions,    \* session ids that uuid4 may return
          Devices,     \* device handles that connect_device may return
          None

ASSUME NoneAssumption == None \notin Loops \cup Sessions \cup Devices

VARIABLES state,       \* _state
          session,     \* _session_id
          device,      \* _device
          simulator,   \* _simulator: None, "empty" or "loaded"
          stopEvent,   \* _stop_event.is_set()
          thread,      \* _thread
          handle,      \* what became of each device handle
          usedIds,     \* session ids already handed out
          hpc,         \* where each request stands
          req,         \* its request: what it was asked, and by which start
          lpc,         \* where each acquisition thread stands
          captured,    \* what the thread copied when it began to run
          joinExpired, \* history: some join() gave up on a live thread
          crossed      \* history: a start met another start, a stop or a reset

sharedVars == <<state, session, device, simulator, stopEvent, thread, handle, usedIds>>
loopVars == <<lpc, captured>>
history == <<joinExpired, crossed>>
vars == <<state, session, device, simulator, stopEvent, thread, handle, usedIds,
          hpc, req, lpc, captured, joinExpired, crossed>>

NoRequest == [op |-> "none", arg |-> None, joining |-> None]
NoCapture == [session |-> None, device |-> None, simulator |-> None]

Init ==
    /\ state = "idle"
    /\ session = None
    /\ device = None
    /\ simulator = None
    /\ stopEvent = FALSE
    /\ thread = None
    /\ handle = [d \in Devices |-> "new"]
    /\ usedIds = {}
    /\ hpc = [r \in Handlers |-> "free"]
    /\ req = [r \in Handlers |-> NoRequest]
    /\ lpc = [l \in Loops |-> "unborn"]
    /\ captured = [l \in Loops |-> NoCapture]
    /\ joinExpired = FALSE /\ crossed = FALSE

Alive(l) == lpc[l] \notin {"unborn", "done"}

\* uuid4, Thread and connect return something new; which one is the same to
\* everybody, so any new element of a set will do.
NewSessions == Sessions \ usedIds
NewLoops == {l \in Loops : lpc[l] = "unborn"}
NewHandles == {d \in Devices : handle[d] = "new"}
AnyOf(S) == CHOOSE x \in S : TRUE

Goto(r, place) == hpc' = [hpc EXCEPT ![r] = place]
Answer(r) == Goto(r, "free") /\ req' = [req EXCEPT ![r] = NoRequest]

\* Two requests cross if one is a start and the other is for the session too.
Crossing(ops) == "start" \in ops /\ ops \subseteq {"start", "stop", "reset"}

Arrive(r, op, arg) ==
    /\ hpc[r] = "free"
    /\ req' = [req EXCEPT ![r] = [op |-> op, arg |-> arg, joining |-> None]]
    /\ crossed' = (crossed \/ \E q \in Handlers : Crossing({op, req[q].op}))
    /\ UNCHANGED <<sharedVars, loopVars, joinExpired>>
-----------------------------------------------------------------------------
(* POST /collector/start *)

\* start(): refuse (409) or force-reset while running, otherwise go on.
StartRequest(r, mode, force) ==
    /\ state = "running" => force
    /\ Arrive(r, "start", mode)
    /\ Goto(r, IF state = "running" THEN "signal" ELSE "begin")

\* A fresh session id, fresh counters, the stop event cleared, RUNNING.
BeginSession(r) ==
    /\ hpc[r] = "begin"
    /\ NewSessions # {}
    /\ session' = AnyOf(NewSessions)
    /\ usedIds' = usedIds \cup {session'}
    /\ stopEvent' = FALSE
    /\ state' = "running"
    /\ Goto(r, "open")
    /\ UNCHANGED <<device, simulator, thread, handle, req, loopVars, history>>

\* Simulator mode: the device reference is dropped.  The IQ file loads, or
\* none was named; the simulator is then empty.
OpenSimulator(r) ==
    /\ hpc[r] = "open" /\ req[r].arg = "simulator"
    /\ simulator' \in {"loaded", "empty"}
    /\ device' = None
    /\ Goto(r, "spawn")
    /\ UNCHANGED <<state, session, stopEvent, thread, handle, usedIds, req,
                   loopVars, history>>

\* Simulator mode: load() raises FileNotFoundError or ValueError, which the
\* route does not catch; the request ends with HTTP 500.
OpenSimulatorFails(r) ==
    /\ hpc[r] = "open" /\ req[r].arg = "simulator"
    /\ simulator' = "empty"
    /\ device' = None
    /\ Answer(r)
    /\ UNCHANGED <<state, session, stopEvent, thread, handle, usedIds,
                   loopVars, history>>

\* Pluto mode: connect unless a device is held.
LookForDevice(r) ==
    /\ hpc[r] = "open" /\ req[r].arg = "pluto"
    /\ Goto(r, IF device = None THEN "connect" ELSE "configure")
    /\ UNCHANGED <<sharedVars, req, loopVars, history>>

\* connect_device(uri) returns a new handle, or None for a file:// URI; a start
\* goes on to configure what is held.
DeviceOpens(r) ==
    /\ hpc[r] = "connect"
    /\ \/ /\ NewHandles # {}
          /\ device' = AnyOf(NewHandles)
          /\ handle' = [handle EXCEPT ![device'] = "open"]
       \/ device' = None /\ UNCHANGED handle
    /\ IF req[r].op = "start"
         THEN Goto(r, "configure") /\ UNCHANGED req
         ELSE Answer(r)
    /\ UNCHANGED <<state, session, simulator, stopEvent, thread, usedIds,
                   loopVars, history>>

\* connect_device(uri) raises: state ERROR if it was for a start.
DeviceOpenFails(r) ==
    /\ hpc[r] = "connect"
    /\ state' = IF req[r].op = "start" THEN "error" ELSE state
    /\ Answer(r)
    /\ UNCHANGED <<session, device, simulator, stopEvent, thread, handle, usedIds,
                   loopVars, history>>

\* _apply_config goes through on an open device.
Configure(r) ==
    /\ hpc[r] = "configure"
    /\ device # None /\ handle[device] = "open"
    /\ Goto(r, "spawn")
    /\ UNCHANGED <<sharedVars, req, loopVars, history>>

\* Configuring raises, as it must without an open device: state ERROR, HTTP
\* 409.  The device stays held.
ConfigureFails(r) ==
    /\ hpc[r] = "configure"
    /\ state' = "error"
    /\ Answer(r)
    /\ UNCHANGED <<session, device, simulator, stopEvent, thread, handle, usedIds,
                   loopVars, history>>

\* The acquisition thread is created and its id remembered.
Spawn(r) ==
    /\ hpc[r] = "spawn"
    /\ NewLoops # {}
    /\ thread' = AnyOf(NewLoops)
    /\ lpc' = [lpc EXCEPT ![thread'] = "born"]
    /\ Answer(r)
    /\ UNCHANGED <<state, session, device, simulator, stopEvent, handle, usedIds,
                   captured, history>>
-----------------------------------------------------------------------------
(* POST /collector/stop and /collector/reset *)

\* stop(): an unknown session id is refused (404).
StopRequest(r, s) ==
    /\ session = s
    /\ Arrive(r, "stop", s)
    /\ Goto(r, "signal")

ResetRequest(r) ==
    /\ Arrive(r, "reset", None)
    /\ Goto(r, "signal")

SignalWithoutJoin(r) ==   \* faulty: the thread is not waited for
    /\ hpc[r] = "signal"
    /\ stopEvent' = TRUE
    /\ Goto(r, "teardown")
    /\ UNCHANGED <<state, session, device, simulator, thread, handle, usedIds,
                   req, loopVars, history>>

\* stop() and force_reset(): set the stop event, look whether there is a thread.
Signal(r) ==
    /\ hpc[r] = "signal"
    /\ stopEvent' = TRUE
    /\ Goto(r, IF thread = None THEN "teardown" ELSE "look")
    /\ UNCHANGED <<state, session, device, simulator, thread, handle, usedIds,
                   req, loopVars, history>>

\* _thread is read again for the join.  Another stop or reset may have cleared
\* it since: AttributeError, HTTP 500.
CallJoin(r) ==
    /\ hpc[r] = "look"
    /\ IF thread = None THEN Answer(r)
       ELSE req' = [req EXCEPT ![r].joining = thread] /\ Goto(r, "join")
    /\ UNCHANGED <<sharedVars, loopVars, history>>

\* _thread.join(timeout=...) returns: 5 seconds in stop(), 3 in force_reset().
Join(r) ==
    /\ hpc[r] = "join"
    /\ joinExpired' = (joinExpired \/ Alive(req[r].joining))
    /\ thread' = None
    /\ Goto(r, "teardown")
    /\ UNCHANGED <<state, session, device, simulator, stopEvent, handle, usedIds,
                   req, loopVars, crossed>>

JoinNothing(r) ==   \* faulty: join() returns whether the thread has ended or not
    /\ hpc[r] = "join"
    /\ thread' = None
    /\ Goto(r, "teardown")
    /\ UNCHANGED <<state, session, device, simulator, stopEvent, handle, usedIds,
                   req, loopVars, history>>

JoinForEver(r) == FALSE   \* faulty: join() without a timeout

JoinDone(r) == Join(r) /\ ~Alive(req[r].joining)
JoinTimeout(r) == Join(r) /\ Alive(req[r].joining)

\* Disconnect, forget the session, IDLE.  force_reset() also clears the stop
\* event, and continues with start() when it was called from there.
TearDown(r) ==
    /\ hpc[r] = "teardown"
    /\ handle' = IF device = None THEN handle ELSE [handle EXCEPT ![device] = "closed"]
    /\ device' = None
    /\ simulator' = None
    /\ state' = "idle"
    /\ session' = None
    /\ IF req[r].op = "stop"
         THEN UNCHANGED stopEvent
         ELSE stopEvent' = FALSE
    /\ IF req[r].op = "start"
         THEN Goto(r, "begin") /\ UNCHANGED req
         ELSE Answer(r)
    /\ UNCHANGED <<thread, usedIds, loopVars, history>>
-----------------------------------------------------------------------------
(* POST /collector/connect and /collector/disconnect *)

\* With a device held, connect() answers at once.
ConnectRequest(r) ==
    /\ device = None
    /\ Arrive(r, "connect", None)
    /\ Goto(r, "connect")

Disconnect ==
    /\ handle' = [handle EXCEPT ![device] = "closed"]
    /\ device' = None

DisconnectRequest(r) ==
    /\ hpc[r] = "free"
    /\ device # None
    /\ Disconnect
    /\ UNCHANGED <<state, session, simulator, stopEvent, thread, usedIds,
                   hpc, req, loopVars, history>>
-----------------------------------------------------------------------------
(* The acquisition thread: _run_loop. *)

LoopGoto(l, place) == lpc' = [lpc EXCEPT ![l] = place]

\* The thread copies session, device and simulator when it begins to run.  A
\* simulator with no data ends it there and then.
LoopBegins(l) ==
    /\ lpc[l] = "born"
    /\ captured' = [captured EXCEPT ![l] =
                       [session |-> session, device |-> device, simulator |-> simulator]]
    /\ LoopGoto(l, IF simulator = "empty" THEN "done" ELSE "top")
    /\ UNCHANGED <<sharedVars, hpc, req, history>>

LoopForEver(l) ==   \* faulty: while True
    /\ lpc[l] = "top"
    /\ LoopGoto(l, "read")
    /\ UNCHANGED <<sharedVars, hpc, req, captured, history>>

\* while not self._stop_event.is_set()
LoopTop(l) ==
    /\ lpc[l] = "top"
    /\ LoopGoto(l, IF stopEvent THEN "done" ELSE "read")
    /\ UNCHANGED <<sharedVars, hpc, req, captured, history>>

\* A read from a device that was disconnected cannot succeed.
Readable(l) ==
    captured[l].simulator = None /\ captured[l].device # None =>
        handle[captured[l].device] = "open"

\* Samples arrive.  An odd number of floats is skipped, otherwise a frame is
\* built; without simulator and device the chunk is empty.
ReadSamples(l) ==
    /\ lpc[l] = "read"
    /\ Readable(l)
    /\ \E place \in {"top", "emit"} : LoopGoto(l, place)
    /\ UNCHANGED <<sharedVars, hpc, req, captured, history>>

\* The read raises: ERROR, whatever session is current by now.
ReadFails(l) ==
    /\ lpc[l] = "read"
    /\ captured[l].simulator = None /\ captured[l].device # None
    /\ state' = "error"
    /\ LoopGoto(l, "done")
    /\ UNCHANGED <<session, device, simulator, stopEvent, thread, handle, usedIds,
                   hpc, req, captured, history>>

\* The device never answers: the read blocks for ever.
ReadHangs(l) ==
    /\ lpc[l] = "read"
    /\ captured[l].simulator = None /\ captured[l].device # None
    /\ LoopGoto(l, "hung")
    /\ UNCHANGED <<sharedVars, hpc, req, captured, history>>

\* The file is empty and loop_play is off, or set_frequency raised while
\* hopping, outside any try: the thread ends and nobody is told.
LoopEndsSilently(l) ==
    /\ lpc[l] = "read"
    /\ LoopGoto(l, "done")
    /\ UNCHANGED <<sharedVars, hpc, req, captured, history>>

\* The callbacks run; the Socket.IO emitter addresses the frame to the
\* session id it finds in _session_id at this moment.
EmitFrame(l) ==
    /\ lpc[l] = "emit"
    /\ LoopGoto(l, "top")
    /\ UNCHANGED <<sharedVars, hpc, req, captured, history>>

RunLoop(l) ==
    \/ LoopBegins(l)
    \/ LoopTop(l)
    \/ ReadSamples(l)
    \/ ReadFails(l)
    \/ ReadHangs(l)
    \/ LoopEndsSilently(l)
    \/ EmitFrame(l)
-----------------------------------------------------------------------------
Request(r) ==
    \/ \E mode \in {"simulator", "pluto"}, force \in BOOLEAN :
          StartRequest(r, mode, force)
    \/ \E s \in Sessions : StopRequest(r, s)
    \/ ResetRequest(r)
    \/ ConnectRequest(r)
    \/ DisconnectRequest(r)

HandlerStep(r) ==
    \/ BeginSession(r)
    \/ OpenSimulator(r)
    \/ OpenSimulatorFails(r)
    \/ LookForDevice(r)
    \/ DeviceOpens(r)
    \/ DeviceOpenFails(r)
    \/ Configure(r)
    \/ ConfigureFails(r)
    \/ Spawn(r)
    \/ Signal(r)
    \/ CallJoin(r)
    \/ JoinDone(r)
    \/ JoinTimeout(r)
    \/ TearDown(r)

Next ==
    \/ \E r \in Handlers : Request(r) \/ HandlerStep(r)
    \/ \E l \in Loops : RunLoop(l)

Spec == Init /\ [][Next]_vars

\* A request that was accepted runs to its end (both joins time out, opening
\* a device succeeds or raises); an acquisition thread runs until it ends or a
\* read hangs.  No request ever has to arrive.
Fairness ==
    /\ \A r \in Handlers : WF_vars(HandlerStep(r))
    /\ \A l \in Loops : WF_vars(RunLoop(l))

FairSpec == Spec /\ Fairness
-----------------------------------------------------------------------------
(* Type invariant. *)
TypeOK ==
    /\ state \in {"idle", "running", "error"}
    /\ session \in Sessions \cup {None}
    /\ device \in Devices \cup {None}
    /\ simulator \in {None, "empty", "loaded"}
    /\ stopEvent \in BOOLEAN
    /\ thread \in Loops \cup {None}
    /\ handle \in [Devices -> {"new", "open", "closed"}]
    /\ device # None => handle[device] = "open"
    /\ usedIds \subseteq Sessions
    /\ hpc \in [Handlers -> {"free", "begin", "open", "connect", "configure", "spawn", "signal",
                         "look", "join", "teardown"}]
    /\ lpc \in [Loops -> {"unborn", "born", "top", "read", "emit", "hung", "done"}]
    /\ {joinExpired, crossed} \subseteq BOOLEAN

(* Two acquisition threads never run at once, however connects and         *)
(* disconnects overlap other requests, and stops and resets each other: a  *)
(* new thread is only started when the previous one was joined.  The       *)
(* excuses are a join that gave up, and a start that crossed a start, a    *)
(* stop or a reset (start 265-328, force_reset, stop).                     *)
SingleLoop ==
    ~joinExpired /\ ~crossed => \A l, m \in Loops : Alive(l) /\ Alive(m) => l = m

(* An acquisition thread acts for the current session only: its frames are *)
(* addressed to the session that acquired them, never to "unknown" (api.py *)
(* 119 reads _session_id when it emits), and the ERROR a failing read sets *)
(* (531) is not written over a later session.                              *)
LoopOwnsSession ==
    ~joinExpired /\ ~crossed =>
        \A l \in Loops : lpc[l] \in {"top", "read", "emit", "hung"} =>
            captured[l].session = session

(* Together: no two sessions ever meet in an acquisition thread.           *)
OneLoopPerSession == TypeOK /\ SingleLoop /\ LoopOwnsSession

(* When a stop or reset has made the collector idle and nothing was        *)
(* started since, no acquisition thread runs, and none is remembered to be *)
(* joined, even while other stops and resets are still on their way or     *)
(* have failed because the thread was gone (stop 349-377, force_reset      *)
(* 330-347).                                                               *)
IdleIsQuiescent ==
    ~joinExpired /\ ~crossed /\ state = "idle" =>
        /\ \A l \in Loops : ~Alive(l)
        /\ session = None /\ thread = None

(* stop() ends the session it was asked to end and no other one: "Raises   *)
(* ValueError if session_id does not match" (354).                         *)
StopEndsOnlyItsSession ==
    [][\A r \in Handlers :
          hpc[r] = "teardown" /\ hpc'[r] = "free" /\ req[r].op = "stop" =>
             session \in {req[r].arg, None}]_vars

(* A stop or reset request that was accepted is answered, even if a read   *)
(* never returns: both joins have a timeout (335, 362).                    *)
StopIsAnswered ==
    \A r \in Handlers : (req[r].op \in {"stop", "reset"}) ~> (hpc[r] = "free")

(* While the stop event stays set, every acquisition thread ends, unless   *)
(* its read hangs.                                                         *)
StoppedLoopsEnd ==
    \A l \in Loops :
        (Alive(l) /\ stopEvent) ~> (~Alive(l) \/ lpc[l] = "hung" \/ ~stopEvent)
=============================================================================
