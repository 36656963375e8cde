---------------------------- MODULE CollectorProofs ----------------------------
(***************************************************************************)
(* What holds of the collector for any number of requests, sessions,       *)
(* devices and acquisition threads, up to the first start that crosses     *)
(* another start, a stop or a reset; run collector_race shows what happens *)
(* then.                                                                   *)
(*                                                                         *)
(* The acquisition threads run beside the requests, so that the invariant  *)
(* says what they may be doing at every place where a request can stand:   *)
(* the live thread is the one remembered (AliveInv), which is what a       *)
(* request that joins waits for, and while a start is past its reset there *)
(* is none (RequestInv).  Stops and resets overlap each other freely: what *)
(* one of them has cleared stays cleared until a start, and a start is     *)
(* alone (ApartInv).                                                       *)
(***************************************************************************)
EXTENDS Collector, TLAPS

Requests == [op : {"none", "start", "stop", "reset", "connect"},
             arg : Sessions \cup {"simulator", "pluto", None},
             joining : Loops \cup {None}]

Captures == [session : Sessions \cup {None}, device : Devices \cup {None},
             simulator : {None, "empty", "loaded"}]

RequestTypes == req \in [Handlers -> Requests] /\ captured \in [Loops -> Captures]

ForSession == {"start", "stop", "reset"}

\* Where the requests of each kind can stand, and that a start is alone.
PlaceInv ==
    \A r \in Handlers :
        /\ hpc[r] \in {"begin", "open", "configure", "spawn"} => req[r].op = "start"
        /\ hpc[r] \in {"signal", "look", "join", "teardown"} => req[r].op \in ForSession
        /\ hpc[r] = "connect" => req[r].op \in {"start", "connect"}

ApartInv ==
    \A q, r \in Handlers :
        q # r /\ req[q].op = "start" => req[r].op \notin ForSession

\* The live thread is the one remembered, and it acts for a running session.
AliveInv ==
    \A l \in Loops : Alive(l) =>
        /\ thread = l /\ state = "running"
        /\ lpc[l] # "born" => captured[l].session = session

Starting(r) ==
    \/ hpc[r] \in {"begin", "open", "configure", "spawn"}
    \/ hpc[r] = "connect" /\ req[r].op = "start"

\* What a request that stands at its place may rely on.
RequestInv ==
    \A r \in Handlers :
        /\ hpc[r] = "join" => req[r].joining \in Loops /\ thread \in {req[r].joining, None}
        /\ hpc[r] = "teardown" => thread = None
        /\ hpc[r] = "teardown" \/ Starting(r) => \A l \in Loops : ~Alive(l)
        /\ Starting(r) /\ hpc[r] # "begin" => state = "running"

IdleInv == state = "idle" => session = None /\ thread = None

IInv ==
    /\ TypeOK
    /\ RequestTypes
    /\ PlaceInv
    /\ ~crossed => ApartInv
    /\ ~joinExpired /\ ~crossed => AliveInv /\ RequestInv /\ IdleInv
-----------------------------------------------------------------------------
LEMMA AnyOfIsMember == ASSUME NEW S, S # {} PROVE AnyOf(S) \in S
BY DEF AnyOf

LEMMA InitInv == Init => IInv
<1> SUFFICES ASSUME Init PROVE IInv
  OBVIOUS
<1>1. NoRequest \in Requests /\ NoCapture \in Captures
  BY DEF NoRequest, NoCapture, Requests, Captures
<1>2. TypeOK /\ RequestTypes
  BY <1>1 DEF Init, TypeOK, RequestTypes
<1>3. PlaceInv /\ ApartInv
  BY DEF Init, PlaceInv, ApartInv, ForSession, NoRequest
<1>4. AliveInv /\ RequestInv /\ IdleInv
  BY DEF Init, AliveInv, RequestInv, IdleInv, Alive, Starting
<1> QED
  BY <1>2, <1>3, <1>4 DEF IInv

LEMMA TypeStep == TypeOK /\ RequestTypes /\ [Next]_vars => TypeOK' /\ RequestTypes'
<1> SUFFICES ASSUME TypeOK, RequestTypes, [Next]_vars
             PROVE  TypeOK' /\ RequestTypes'
  OBVIOUS
<1> USE DEF TypeOK, RequestTypes, sharedVars, loopVars, history, Goto, Answer
<1>0. NoRequest \in Requests
  BY DEF NoRequest, Requests
<1>1. ASSUME NEW r \in Handlers, Request(r)
      PROVE  TypeOK' /\ RequestTypes'
  <2>1. \A op \in {"start", "stop", "reset", "connect"},
           arg \in Sessions \cup {"simulator", "pluto", None} :
              [op |-> op, arg |-> arg, joining |-> None] \in Requests
    BY DEF Requests
  <2> HIDE DEF Goto, Answer
  <2>2. CASE DisconnectRequest(r)
    BY <2>2 DEF DisconnectRequest, Disconnect
  <2>3. CASE ~DisconnectRequest(r)
    <3>1. PICK op \in {"start", "stop", "reset", "connect"},
               arg \in Sessions \cup {"simulator", "pluto", None},
               place \in {"begin", "signal", "connect"} :
             /\ Arrive(r, op, arg)
             /\ Goto(r, place)
      BY <1>1, <2>3 DEF Request, StartRequest, StopRequest, ResetRequest, ConnectRequest
    <3> QED
      BY <2>1, <3>1 DEF Goto, Arrive
  <2> QED
    BY <2>2, <2>3
<1>2. ASSUME NEW r \in Handlers, HandlerStep(r)
      PROVE  TypeOK' /\ RequestTypes'
  <2>1. CASE BeginSession(r)
    BY <2>1, AnyOfIsMember DEF BeginSession, NewSessions
  <2>2. CASE OpenSimulator(r) \/ OpenSimulatorFails(r) \/ LookForDevice(r)
    BY <1>0, <2>2 DEF OpenSimulator, OpenSimulatorFails, LookForDevice
  <2>3. CASE DeviceOpens(r)
    <3>1. /\ device' \in Devices \cup {None}
          /\ handle' \in [Devices -> {"new", "open", "closed"}]
          /\ device' # None => handle'[device'] = "open"
      <4>1. NewHandles # {} => AnyOf(NewHandles) \in Devices
        BY AnyOfIsMember DEF NewHandles
      <4> QED
        BY <2>3, <4>1 DEF DeviceOpens
    <3> QED
      BY <1>0, <2>3, <3>1 DEF DeviceOpens
  <2>4. CASE DeviceOpenFails(r) \/ Configure(r) \/ ConfigureFails(r)
    BY <1>0, <2>4 DEF DeviceOpenFails, Configure, ConfigureFails
  <2>5. CASE Spawn(r)
    <3>1. AnyOf(NewLoops) \in Loops
      BY <2>5, AnyOfIsMember DEF Spawn, NewLoops
    <3> QED
      BY <1>0, <2>5, <3>1 DEF Spawn
  <2>6. CASE Signal(r) \/ CallJoin(r)
    <3>1. req' \in [Handlers -> Requests]
      BY <1>0, <2>6 DEF Signal, CallJoin, Requests
    <3> QED
      BY <2>6, <3>1 DEF Signal, CallJoin
  <2>7. CASE JoinDone(r) \/ JoinTimeout(r)
    BY <2>7 DEF JoinDone, JoinTimeout, Join, Alive
  <2>8. CASE TearDown(r)
    BY <1>0, <2>8 DEF TearDown
  <2> QED
    BY <1>2, <2>1, <2>2, <2>3, <2>4, <2>5, <2>6, <2>7, <2>8 DEF HandlerStep
<1>3. ASSUME NEW l \in Loops, RunLoop(l)
      PROVE  TypeOK' /\ RequestTypes'
  <2> USE DEF LoopGoto
  <2>1. CASE LoopBegins(l)
    <3>1. captured' \in [Loops -> Captures]
      BY <2>1 DEF LoopBegins, Captures
    <3> QED
      BY <2>1, <3>1 DEF LoopBegins
  <2>2. CASE LoopTop(l) \/ ReadSamples(l) \/ ReadFails(l)
    BY <2>2 DEF LoopTop, ReadSamples, ReadFails
  <2>3. CASE ReadHangs(l) \/ LoopEndsSilently(l) \/ EmitFrame(l)
    BY <2>3 DEF ReadHangs, LoopEndsSilently, EmitFrame
  <2> QED
    BY <1>3, <2>1, <2>2, <2>3 DEF RunLoop
<1>4. CASE UNCHANGED vars
  BY <1>4 DEF vars
<1> QED
  BY <1>1, <1>2, <1>3, <1>4 DEF Next
-----------------------------------------------------------------------------
\* What a step of a request does to its own place, and to nobody else's.
OwnStep(r) ==
    /\ \A q \in Handlers \ {r} : hpc'[q] = hpc[q] /\ req'[q] = req[q]
    /\ crossed' = crossed
    /\ \/ hpc'[r] = "free" /\ req'[r] = NoRequest
       \/ hpc'[r] = hpc[r] /\ req'[r] = req[r]
       \/ /\ req'[r].op = req[r].op
          /\ \/ /\ hpc[r] \in {"signal", "look", "join"}
                /\ hpc'[r] \in {"look", "join", "teardown"}
             \/ req[r].op = "start" /\ hpc'[r] \in {"begin", "open", "connect", "configure", "spawn"}

LEMMA HandlerOwn ==
  ASSUME TypeOK, RequestTypes, PlaceInv, NEW r \in Handlers, HandlerStep(r)
  PROVE  OwnStep(r)
<1> USE DEF TypeOK, RequestTypes, PlaceInv, Goto, Answer, history, OwnStep
<1>1. CASE BeginSession(r) \/ OpenSimulator(r) \/ LookForDevice(r)
  BY <1>1 DEF BeginSession, OpenSimulator, LookForDevice
<1>2. CASE DeviceOpens(r)
  BY <1>2 DEF DeviceOpens
<1>3. CASE OpenSimulatorFails(r) \/ DeviceOpenFails(r) \/ ConfigureFails(r) \/ Spawn(r)
  BY <1>3 DEF OpenSimulatorFails, DeviceOpenFails, ConfigureFails, Spawn
<1>4. CASE Configure(r) \/ Signal(r)
  BY <1>4 DEF Configure, Signal
<1>5. CASE CallJoin(r)
  BY <1>5 DEF CallJoin, Requests
<1>6. CASE JoinDone(r) \/ JoinTimeout(r)
  BY <1>6 DEF JoinDone, JoinTimeout, Join
<1>7. CASE TearDown(r)
  BY <1>7 DEF TearDown
<1> QED
  BY <1>1, <1>2, <1>3, <1>4, <1>5, <1>6, <1>7 DEF HandlerStep

\* A request that arrives has crossed another, or a start stays alone.
LEMMA PlaceStep ==
  ASSUME TypeOK, RequestTypes, PlaceInv, ~crossed => ApartInv, [Next]_vars
  PROVE  PlaceInv' /\ (~crossed' => ApartInv' /\ ~crossed)
<1>1. ASSUME NEW r \in Handlers, Request(r)
      PROVE  PlaceInv' /\ (~crossed' => ApartInv' /\ ~crossed)
  <2>1. CASE DisconnectRequest(r)
    BY <2>1 DEF DisconnectRequest, history, PlaceInv, ApartInv
  <2>2. CASE ~DisconnectRequest(r)
    <3>1. PICK op, arg, place :
             /\ Arrive(r, op, arg) /\ Goto(r, place)
             /\ \/ op = "start" /\ place \in {"begin", "signal"}
                \/ op \in {"stop", "reset"} /\ place = "signal"
                \/ op = "connect" /\ place = "connect"
      BY <1>1, <2>2 DEF Request, StartRequest, StopRequest, ResetRequest, ConnectRequest
    <3>2. /\ hpc' = [hpc EXCEPT ![r] = place]
          /\ req' = [req EXCEPT ![r] = [op |-> op, arg |-> arg, joining |-> None]]
          /\ crossed' = (crossed \/ \E q \in Handlers : Crossing({op, req[q].op}))
      BY <3>1 DEF Arrive, Goto
    <3>3. hpc'[r] = place /\ req'[r].op = op
      BY <3>2 DEF TypeOK, RequestTypes
    <3>4. \A q \in Handlers \ {r} : hpc'[q] = hpc[q] /\ req'[q] = req[q]
      BY <3>2 DEF TypeOK, RequestTypes
    <3>5. PlaceInv'
      BY <3>1, <3>3, <3>4 DEF PlaceInv, ForSession
    <3>6. ASSUME ~crossed'
          PROVE  ApartInv' /\ ~crossed
      <4>1. ~crossed /\ \A q \in Handlers : ~Crossing({op, req[q].op})
        BY <3>2, <3>6
      <4>2. \A q \in Handlers :
               /\ op = "start" => req[q].op \notin ForSession
               /\ op \in ForSession => req[q].op # "start"
        BY <4>1 DEF Crossing, ForSession
      <4> QED
        BY <3>3, <3>4, <4>1, <4>2 DEF ApartInv
    <3> QED
      BY <3>5, <3>6
  <2> QED
    BY <2>1, <2>2
<1>2. ASSUME NEW r \in Handlers, HandlerStep(r)
      PROVE  PlaceInv' /\ (~crossed' => ApartInv' /\ ~crossed)
  <2>1. OwnStep(r)
    BY <1>2, HandlerOwn
  <2>2. PlaceInv'
    BY <2>1 DEF OwnStep, PlaceInv, ForSession, NoRequest
  <2>3. ~crossed' => ApartInv' /\ ~crossed
    <3>1. \A q \in Handlers : req'[q].op \in {req[q].op, "none"}
      BY <2>1 DEF OwnStep, NoRequest
    <3> QED
      BY <2>1, <3>1 DEF OwnStep, ApartInv, ForSession
  <2> QED
    BY <2>2, <2>3
<1>3. ASSUME NEW l \in Loops, RunLoop(l)
      PROVE  PlaceInv' /\ (~crossed' => ApartInv' /\ ~crossed)
  <2>1. UNCHANGED <<hpc, req, crossed>>
    BY <1>3 DEF RunLoop, LoopBegins, LoopTop, ReadSamples, ReadFails, ReadHangs,
       LoopEndsSilently, EmitFrame, history
  <2> QED
    BY <2>1 DEF PlaceInv, ApartInv
<1>4. CASE UNCHANGED vars
  BY <1>4 DEF vars, PlaceInv, ApartInv
<1> QED
  BY <1>1, <1>2, <1>3, <1>4 DEF Next
-----------------------------------------------------------------------------
LEMMA RequestKeeps ==
  ASSUME IInv, ~joinExpired, ~crossed, ~crossed', TypeOK', RequestTypes', PlaceInv', ApartInv',
         NEW r \in Handlers, Request(r)
  PROVE  AliveInv' /\ RequestInv' /\ IdleInv'
<1> USE DEF IInv, AliveInv, RequestInv, IdleInv, Alive
<1>1. CASE DisconnectRequest(r)
  BY <1>1 DEF DisconnectRequest, Disconnect, Starting, sharedVars, loopVars
<1>2. CASE ~DisconnectRequest(r)
  <2>1. PICK op, arg, place :
           /\ Arrive(r, op, arg) /\ Goto(r, place)
           /\ place \in {"begin", "signal", "connect"}
           /\ place = "begin" => state # "running"
           /\ place = "connect" => op = "connect"
    BY <1>2 DEF Request, StartRequest, StopRequest, ResetRequest, ConnectRequest
  <2>2. UNCHANGED <<state, session, thread, lpc, captured>>
    BY <2>1 DEF Arrive, sharedVars, loopVars
  <2>3. hpc'[r] = place /\ (place = "connect" => req'[r].op = "connect")
    BY <2>1 DEF Arrive, Goto, TypeOK, RequestTypes
  <2>4. \A q \in Handlers \ {r} : hpc'[q] = hpc[q] /\ req'[q] = req[q]
    BY <2>1 DEF Arrive, Goto, TypeOK, RequestTypes
  <2>5. AliveInv' /\ IdleInv'
    BY <2>2
  <2>6. RequestInv'
    BY <2>1, <2>2, <2>3, <2>4 DEF Starting
  <2> QED
    BY <2>5, <2>6
<1> QED
  BY <1>1, <1>2

LEMMA HandlerKeeps ==
  ASSUME IInv, ~joinExpired, ~joinExpired', ~crossed, TypeOK', RequestTypes', PlaceInv', ApartInv',
         NEW r \in Handlers, HandlerStep(r)
  PROVE  AliveInv' /\ RequestInv' /\ IdleInv'
<1>0. /\ \A q \in Handlers \ {r} : hpc'[q] = hpc[q] /\ req'[q] = req[q]
      /\ crossed' = crossed
  BY HandlerOwn DEF IInv, OwnStep
<1>a. /\ AliveInv /\ RequestInv /\ IdleInv /\ PlaceInv /\ ApartInv
      /\ hpc \in [Handlers -> {"free", "begin", "open", "connect", "configure", "spawn",
                             "signal", "look", "join", "teardown"}]
      /\ req \in [Handlers -> Requests]
      /\ thread \in Loops \cup {None}
  BY DEF IInv, TypeOK, RequestTypes
\* A start that is past its reset is the only request for the session.
<1>b. Starting(r) \/ hpc[r] = "teardown" => \A l \in Loops : ~Alive(l)
  BY <1>a DEF RequestInv
<1>c. Starting(r) => \A q \in Handlers \ {r} : hpc[q] \in {"free", "connect"} /\ ~Starting(q)
  <2> SUFFICES ASSUME Starting(r), NEW q \in Handlers \ {r}
               PROVE  hpc[q] \in {"free", "connect"} /\ ~Starting(q)
    OBVIOUS
  <2>1. req[r].op = "start"
    BY <1>a DEF Starting, PlaceInv
  <2>2. req[q].op \notin ForSession
    BY <1>a, <2>1 DEF ApartInv
  <2> QED
    BY <1>a, <2>2 DEF PlaceInv, Starting, ForSession
<1> USE DEF Goto, Answer, NoRequest, sharedVars, loopVars, history
<1>1. CASE BeginSession(r)
  <2>1. Starting(r)
    BY <1>1 DEF BeginSession, Starting
  <2>2. /\ state' = "running" /\ hpc'[r] = "open" /\ UNCHANGED <<thread, lpc, req>>
    BY <1>1, <1>a DEF BeginSession
  <2> QED
    BY <1>0, <1>a, <1>b, <1>c, <2>1, <2>2 DEF AliveInv, RequestInv, IdleInv, Alive, Starting
<1>2. CASE OpenSimulator(r) \/ LookForDevice(r) \/ Configure(r)
  <2>1. Starting(r)
    BY <1>2 DEF OpenSimulator, LookForDevice, Configure, Starting
  <2>2. /\ hpc'[r] \in {"spawn", "connect", "configure"}
        /\ UNCHANGED <<state, session, thread, lpc, req>>
    BY <1>2, <1>a DEF OpenSimulator, LookForDevice, Configure
  <2>3. hpc[r] # "begin"
    BY <1>2 DEF OpenSimulator, LookForDevice, Configure
  <2> QED
    BY <1>0, <1>a, <1>b, <1>c, <2>1, <2>2, <2>3 DEF AliveInv, RequestInv, IdleInv, Alive, Starting
<1>3. CASE OpenSimulatorFails(r) \/ ConfigureFails(r)
  <2>1. Starting(r)
    BY <1>3 DEF OpenSimulatorFails, ConfigureFails, Starting
  <2>2. /\ hpc'[r] = "free" /\ state' \in {state, "error"}
        /\ UNCHANGED <<session, thread, lpc>>
    BY <1>3, <1>a DEF OpenSimulatorFails, ConfigureFails
  <2> QED
    BY <1>0, <1>a, <1>b, <1>c, <2>1, <2>2 DEF AliveInv, RequestInv, IdleInv, Alive, Starting
<1>4. CASE DeviceOpens(r)
  <2>1. /\ UNCHANGED <<state, session, thread, lpc, captured>>
        /\ \/ hpc'[r] = "configure" /\ req[r].op = "start" /\ req' = req
           \/ hpc'[r] = "free"
        /\ hpc[r] = "connect"
    BY <1>4, <1>a DEF DeviceOpens
  <2> QED
    BY <1>0, <1>a, <2>1 DEF AliveInv, RequestInv, IdleInv, Alive, Starting
<1>5. CASE DeviceOpenFails(r)
  <2>1. /\ UNCHANGED <<session, thread, lpc, captured>>
        /\ state' = IF req[r].op = "start" THEN "error" ELSE state
        /\ hpc'[r] = "free" /\ hpc[r] = "connect"
    BY <1>5, <1>a DEF DeviceOpenFails
  <2>2. CASE req[r].op = "start"
    <3>1. Starting(r) /\ state' = "error"
      BY <2>1, <2>2 DEF Starting
    <3> QED
      BY <1>0, <1>a, <1>b, <1>c, <2>1, <3>1 DEF AliveInv, RequestInv, IdleInv, Alive, Starting
  <2>3. CASE req[r].op # "start"
    BY <1>0, <1>a, <2>1, <2>3 DEF AliveInv, RequestInv, IdleInv, Alive, Starting
  <2> QED
    BY <2>2, <2>3
<1>6. CASE Spawn(r)
  <2>1. Starting(r) /\ state = "running"
    BY <1>6, <1>a DEF Spawn, Starting, RequestInv
  <2>2. AnyOf(NewLoops) \in Loops
    BY <1>6, AnyOfIsMember DEF Spawn, NewLoops
  <2>3. /\ thread' \in Loops /\ \A l \in Loops : l # thread' => lpc'[l] = lpc[l]
        /\ lpc'[thread'] = "born"
        /\ UNCHANGED <<state, session, captured>> /\ hpc'[r] = "free"
    BY <1>6, <1>a, <2>2 DEF Spawn, IInv, TypeOK
  <2> QED
    BY <1>0, <1>a, <1>b, <1>c, <2>1, <2>3 DEF AliveInv, RequestInv, IdleInv, Alive, Starting
<1>7. CASE Signal(r)
  <2>1. /\ UNCHANGED <<state, session, thread, lpc, captured, req>>
        /\ hpc'[r] = IF thread = None THEN "teardown" ELSE "look"
    BY <1>7, <1>a DEF Signal
  <2> QED
    BY <1>0, <1>a, <2>1, NoneAssumption DEF AliveInv, RequestInv, IdleInv, Alive, Starting
<1>8. CASE CallJoin(r)
  <2>1. /\ UNCHANGED <<state, session, thread, lpc, captured>>
        /\ \/ hpc'[r] = "free"
           \/ hpc'[r] = "join" /\ thread # None /\ req'[r].joining = thread
    BY <1>8, <1>a DEF CallJoin, Requests
  <2> QED
    BY <1>0, <1>a, <2>1 DEF AliveInv, RequestInv, IdleInv, Alive, Starting
<1>9. CASE JoinDone(r) \/ JoinTimeout(r)
  \* The join has not given up, so that the thread it waited for has ended.
  <2>1. /\ hpc[r] = "join" /\ ~Alive(req[r].joining) /\ thread' = None
        /\ UNCHANGED <<state, session, lpc, captured, req>> /\ hpc'[r] = "teardown"
    BY <1>9, <1>a DEF JoinDone, JoinTimeout, Join
  <2>2. \A l \in Loops : ~Alive(l)
    BY <1>a, <2>1, NoneAssumption DEF AliveInv, RequestInv
  <2> QED
    BY <1>0, <1>a, <2>1, <2>2 DEF AliveInv, RequestInv, IdleInv, Alive, Starting
<1>10. CASE TearDown(r)
  <2>1. /\ hpc[r] = "teardown" /\ session' = None /\ state' = "idle"
        /\ UNCHANGED <<thread, lpc>>
        /\ \/ hpc'[r] = "begin" /\ req' = req /\ req[r].op = "start"
           \/ hpc'[r] = "free"
    BY <1>10, <1>a DEF TearDown
  <2>2. thread = None /\ \A l \in Loops : ~Alive(l)
    BY <1>a, <2>1 DEF RequestInv
  <2>3. \A q \in Handlers \ {r} : Starting(q) => req[q].op = "start"
    BY <1>a DEF PlaceInv, Starting
  <2>4. req[r].op \in ForSession
    BY <1>a, <2>1 DEF PlaceInv
  <2>5. \A q \in Handlers \ {r} : ~Starting(q)
    BY <1>a, <2>3, <2>4 DEF ApartInv
  <2> QED
    BY <1>0, <1>a, <2>1, <2>2, <2>5 DEF AliveInv, RequestInv, IdleInv, Alive, Starting
<1> QED
  BY <1>1, <1>2, <1>3, <1>4, <1>5, <1>6, <1>7, <1>8, <1>9, <1>10 DEF HandlerStep

\* A thread that lives is the only one, and no request relies on its absence.
LEMMA LoopKeeps ==
  ASSUME IInv, ~joinExpired, ~crossed, TypeOK', RequestTypes', NEW l \in Loops, RunLoop(l)
  PROVE  AliveInv' /\ RequestInv' /\ IdleInv'
<1> USE DEF IInv, TypeOK, RequestTypes, sharedVars, history, LoopGoto, AliveInv, RequestInv,
            IdleInv, Alive, Starting
<1>1. CASE LoopBegins(l)
  BY <1>1 DEF LoopBegins
<1>2. CASE ReadFails(l)
  BY <1>2 DEF ReadFails
<1>3. CASE LoopTop(l) \/ ReadSamples(l) \/ ReadHangs(l) \/ LoopEndsSilently(l) \/ EmitFrame(l)
  <2>1. PICK place \in {"top", "read", "emit", "hung", "done"} :
           /\ lpc' = [lpc EXCEPT ![l] = place]
           /\ lpc[l] \in {"top", "read", "emit"}
           /\ UNCHANGED <<sharedVars, hpc, req, captured, history>>
    BY <1>3 DEF LoopTop, ReadSamples, ReadHangs, LoopEndsSilently, EmitFrame
  <2> QED
    BY <2>1
<1> QED
  BY <1>1, <1>2, <1>3 DEF RunLoop

LEMMA NextInv == IInv /\ [Next]_vars => IInv'
<1> SUFFICES ASSUME IInv, [Next]_vars
             PROVE  IInv'
  OBVIOUS
<1>1. TypeOK' /\ RequestTypes'
  BY TypeStep DEF IInv
<1>2. PlaceInv' /\ (~crossed' => ApartInv' /\ ~crossed)
  BY PlaceStep DEF IInv
<1>3. ASSUME ~joinExpired', ~crossed'
      PROVE  AliveInv' /\ RequestInv' /\ IdleInv'
  <2>1. ~joinExpired
    BY <1>3 DEF Next, Request, Arrive, StartRequest, StopRequest, ResetRequest, ConnectRequest,
       DisconnectRequest, HandlerStep, BeginSession, OpenSimulator, OpenSimulatorFails,
       LookForDevice, DeviceOpens, DeviceOpenFails, Configure, ConfigureFails, Spawn,
       Signal, CallJoin, JoinDone, JoinTimeout, Join, TearDown, RunLoop, LoopBegins, LoopTop,
       ReadSamples, ReadFails, ReadHangs, LoopEndsSilently, EmitFrame, vars, history
  <2>2. CASE UNCHANGED vars
    BY <1>2, <1>3, <2>1, <2>2 DEF vars, IInv, AliveInv, RequestInv, IdleInv, Alive, Starting
  <2>3. CASE Next
    BY <1>1, <1>2, <1>3, <2>1, <2>3, RequestKeeps, HandlerKeeps, LoopKeeps DEF Next
  <2> QED
    BY <2>2, <2>3
<1> QED
  BY <1>1, <1>2, <1>3 DEF IInv
-----------------------------------------------------------------------------
(* However requests overlap, until a start crosses another start, a stop   *)
(* or a reset: at most one acquisition thread runs, and it acts for the    *)
(* current session, unless a join gave up (start 265-328, stop 349-377,    *)
(* _run_loop 457-531).                                                     *)
THEOREM OneLoopHolds == Spec => []OneLoopPerSession
<1>1. IInv => OneLoopPerSession
  BY DEF IInv, AliveInv, OneLoopPerSession, SingleLoop, LoopOwnsSession, Alive
<1> QED
  BY InitInv, NextInv, <1>1, PTL DEF Spec

(* However stops and resets overlap: an idle collector has no session, no  *)
(* thread to join and no thread that runs, unless a join gave up or a      *)
(* start has crossed another request (stop 349-377, force_reset 330-347).  *)
THEOREM IdleIsQuiescentHolds == Spec => []IdleIsQuiescent
<1>1. IInv => IdleIsQuiescent
  BY DEF IInv, AliveInv, IdleInv, IdleIsQuiescent
<1> QED
  BY InitInv, NextInv, <1>1, PTL DEF Spec
=============================================================================
