# rf-drone-platform in TLA+

This directory specifies the RF drone detection platform of this repository:
TLA+ modules translated from its Python and JavaScript source, TLC models that
check them on small instances, and proofs that TLAPS checks for every instance.
Paths in this file are relative to `src/`.

    tlc -workers 2 -config MCFrameQueue.cfg MCFrameQueue      # any MC module and one of its cfgs
    tlapm FrameQueueProofs.tla                                # the proofs of a module

`PROJECT.json` names, for every definition that models code, the lines it
models; for every run, what it shows; for every property, a fault in the code
that violates it (the definitions marked `\* faulty:` in the modules).

## 1. The system

Two services and a browser page. The **collector** owns the radio (or plays an
IQ file) and acquires frames of samples. The **Platform** serves the frontend,
asks the collector to acquire, receives the frames and runs an inference
component on them.

    frontend --REST--> Platform (backend/main.py) --REST--> collector (collector/api.py)
     (polling)            |  one InferenceFramework per session        | Collector
                          |    FrameQueue, inference thread            |   acquisition thread
                          |    component (components/...)              |     PlutoDevice or IQSimulator
                          |<-- CollectorIOClient <== TCP or UDP == TCPDataServer, UDPDataServer

### Components, their state and their operations

| Component | State | Operations | What makes it correct |
|---|---|---|---|
| Frame queue, `backend/inference/frame_queue.py` | bounded deque, counters, `_running`, one Condition | put, get (with timeout), get_nowait, stats, reset, stop | no frame lost uncounted; the newest frames survive; no consumer sleeps beside a frame |
| Inference framework, `backend/inference/framework.py` | `_component`, `_running`, `_thread`, `_lock`, the queue | load_component, unload_component, start, stop, put_frame, `_run_loop` | one thread, no result after stop, no component released in use or leaked |
| RF-UAV component, `components/rfuav-two-stage/` | providers, models, log files, `_log_lock`, counters | initialize, infer, release | a usable provider; full frames give results; the summary counts the log; its files are closed |
| Collector, `collector/collector.py` behind `collector/api.py` | `_state`, `_session_id`, `_device`, `_simulator`, `_stop_event`, `_thread`; no lock | start (force), stop, force_reset, connect, disconnect, `_run_loop` | one acquisition, which belongs to the current session |
| Acquisition loop and file player, `_run_loop`, `collector/simulator.py` | read position, hop index, frame and burst number | read_chunk, hop, label, emit | the file without gaps, frames ordered and truly labelled |
| Device drivers, `collector/devices.py` | hardware handle, copies of the settings | connect, disconnect, the five setters, read | a running radio has its configuration, but for what it ignores, as it does the sample rate; so far the copies are true; one writer |
| Start of the data servers, `collector/api.py` | `_socketio_started`, the servers, the emitters | `_start_socketio_once`, the lazy lookups | each server started once, frames reach both channels |
| Platform sessions, `backend/main.py`, `backend/api/session.py` | `_sessions`, `_frameworks`, `_collector_io_client`, stats tasks | start_session, stop_session, shutdown, `_collector_start`, `_collector_stop` | the tables agree, and agree with the collector |
| Results, `backend/main.py`, `backend/api/session.py` | `_inference_history` | `_on_result`, inference_stats, latest_result, get_history | the newest results; nothing counted twice |
| Configuration, `backend/config_manager.py` and its use in `main.py` | cached capabilities, a session's current config and warnings | merge, discovery, start, PATCH | hardware limits hold, changes are reported |
| Device list, `backend/main.py`, `backend/api/devices.py` | `_devices` | startup scan, refresh | what the last scan found is listed |
| TCP data channel, `collector/tcp_data_server.py`, `backend/collector_io_client.py` | send queue, client list and its lock, per connection buffers | broadcast_frame, `_send_loop`, accept, stop; `_tcp_recv_loop`, disconnect | frames arrive whole and in order; none vanishes but at a full queue |
| UDP data channel (same files) | registered clients, fragments being put together | start, register, broadcast_frame, stop; `_udp_recv_loop`, disconnect | no cut data; whole frames in order; small ones arrive |
| Frontend, `frontend/app.js` | session id, flags, two buttons, timers, results | start, stop, load, connect, polls | its variables agree; no session lost; a button comes back |
| REST proxy (`backend/api/collector_proxy.py`), component list | | forwarding | its answer to a connect is part of the frontend's model |
| Socket.IO servers | rooms | emit | not modelled (library) |
| Simulated component | | random results | not modelled |
| `main.py`, `api.py`, `collector.py` at the top of `src/`, `backend/session.py`, `backend/server.py` | | | earlier copies that nothing starts; not modelled |

### Where the difficulty is

* **Threads**: acquisition, sender, accept, receiver and inference threads; the
  collector's REST handlers, one thread each, on a Collector without a lock; an
  inference thread that appends to a list which the event loop goes through.
* **Coroutines**: the Platform's requests interleave at every await that really
  suspends (HTTP calls, the pause between two connection attempts); so do the
  page's handlers and polls.
* **Waits that give up**: `join(timeout=...)` in three places, Condition.wait,
  socket timeouts in the middle of a frame, HTTP timeouts whose call may still
  be performed.
* **Limits**: the queue of inference frames (drops the oldest), the send queue
  (drops the newest), a slow receiver, frame numbers that wrap every 200, the
  number of fragments of a datagram frame.
* **Partial failure**: opening a device or file after the state says RUNNING,
  five settings written one after the other, a 409 with reset and retry,
  `infer()` raising, three log files of which only the first can be opened,
  clients that vanish.

`PROJECT.json` lists these as hazards, each at its line, with the properties
that watch it.

## 2. The modules

| Module | Models | Grain of a step |
|---|---|---|
| `RetentionLog` | what a frame queue promises: a log of the accepted frames and a cursor | abstract |
| `FrameStream` | what a data channel promises its receivers: numbers of frames, each newer than the last | abstract |
| `FrameQueue` | `frame_queue.py` | a method is a step, for its body holds the lock; `get()` is cut where it waits |
| `InferenceFramework` | `framework.py`, composed with `FrameQueue` (`Q == INSTANCE FrameQueue`) | cut at the lock, the join, the queue and `infer()` |
| `RfuavComponent` | `components/rfuav-two-stage/component.py` | cut at `_log_lock` and where `release()` can come between |
| `Collector` | `collector.py` with its routes | a request is cut where it waits or where another thread sees the order of its assignments |
| `AcquisitionLoop` | one pass of `_run_loop`, with `IQSimulator.read_chunk` | hop; read, label and emit |
| `Devices` | `PlutoDevice` under starts, hops, stops and faults | one setting written |
| `DataServers` | the lazy start in `collector/api.py` | a statement |
| `PlatformSessions` | session life cycle of `main.py` | from one suspension to the next |
| `ResultHistory` | `_on_result` and the readers of its list | append, cut; one element read |
| `SessionConfig` | `config_manager.py` and the start and PATCH that use it | one request |
| `DeviceList` | the device list, its refresh and the collector's scan | from one suspension to the next |
| `TcpChannel` | both ends of the TCP channel | one unit of a packet |
| `UdpChannel` | both ends of the UDP channel and the network between | one datagram |
| `FrontendPage` | session, buttons and polling of `app.js`, with the calls it makes | from one await to the next |
| `...Proofs` | theorems: `FrameQueueProofs`, `CollectorProofs`, `PlatformSessionsProofs` and `FrontendPageProofs` about one module each; `InferenceProofs`, `CollectorPartsProofs`, `PlatformPartsProofs` and `ChannelProofs` about the modules of an MC module | |
| `MC...` | the instance TLC checks; `MCCollectorParts` and `MCPlatformParts` hold three modules each, `MCInferenceParts` and `MCDataChannels` two | |

How state and actions correspond to the code:

* **FrameQueue.** `queue`, `received`, `dropped`, `running` are the fields;
  `wait` says where each consumer stands inside `Condition.wait`. Python's
  Condition keeps a waiter registered until its thread re-acquires the lock, so
  a notify can be spent on a thread whose timeout has already fired: states
  `expired` and `ignored`. `accepted`, `taken`, `out` are history.
* **InferenceFramework.** The controller (`ctl`) is the Platform's event loop in
  load_component, start and stop; `pc` the inference threads. `infer()` runs
  without `_lock` and returns, raises or hangs (`InferHangs`). The frame queue's
  `_running` is `open`; all four ways out of `get()` are steps of the loop.
* **RfuavComponent.** `ctl` is the event loop in initialize and release, `pc` the
  inference thread in `infer()`, which `release()` may meet because the join
  before it gives up. What the networks answer is any outcome (`seen`). `lines`
  is what the log holds, `stats` the counters that are kept without the lock.
  `handles` has the log's three files, which are opened one after the other; when
  one is refused, those before it stay open (`OpenFiles`).
* **Collector.** `Handlers` are request threads. `hpc` and `req` are a request's
  place and arguments, `lpc` and `captured` an acquisition thread's place and the
  copies it made of session, device and simulator. A read returns, raises or hangs
  (`ReadHangs`). A stop reads `_thread` twice, and finds it cleared if another stop
  came between (`CallJoin`). `crossed` remembers that a start met another start, a
  stop or a reset; other overlaps are harmless. One step is larger than in the
  code: `Spawn` creates the thread and starts it.
* **AcquisitionLoop.** A sample of a file is its position, so the frames
  themselves show gaps. A chunk is shorter than a file that goes round, so that
  `read_chunk`'s loop runs at most twice, and is written out. `at` records the
  frequency the device was tuned to.
* **Devices.** `radio` is the hardware, `handle[h].noted` the copies a
  `PlutoDevice` keeps of what it wrote. The buffer length is not the radio's but an
  attribute of the driver's object (`buffer`). A setting in `Ignored` is written and
  noted without the radio changing: the sample rate is one (`devices.py` 95, 192,
  308); the theorems hold for any others too. A radio pulled out breaks its handles.
  `stray` remembers that a thread stopped long ago wrote ERROR over a later
  session (`collector.py` 531): a start then goes ahead beside a live thread.
* **DataServers.** A request reads the flag, and later sets it; an emitter looks
  its server up when it emits first, and keeps it.
* **PlatformSessions.** The collector appears as `owner`, the session it
  acquires for. A call is answered, or given up; a call given up may still take
  effect (`late`). `raced` remembers sessions stopped while connecting.
* **ResultHistory.** A result is its number. The event loop holds an index into
  the list while the inference thread appends to it and cuts it.
* **SessionConfig.** Dictionaries are functions with varying domain; the clamp,
  the truthiness of empty capabilities and the order of `{**merged, **config}`
  are the code's.
* **DeviceList.** A refresh empties the list, waits, and adds what was found.
* **TcpChannel.** A packet is `Header` then `Body` units that remember frame and
  place, so frames made of pieces can be told from whole ones. `Window` is what a
  connection can hold; `send()` blocks when it is full.
* **UdpChannel.** A datagram remembers frame and fragment. The receiver tells a
  first fragment from a later one by its size alone, so that a later one that is
  long is taken for a first one and loses eight bytes (`cut`); only last
  fragments with less than eight bytes of data are `short`.
* **FrameStream.** `MCDataChannels` maps both channels to it: what a receiver
  handed on becomes the number of its frame (0 if it is not a whole frame), and
  `disturbed` are the connections with a timeout inside a frame (TCP) or a fault of
  the network (UDP). It says nothing of frames that do not arrive, because either
  channel may drop any. `DeliveredInOrder` (TCP) and `WholeWithoutFaults` (UDP) say as
  invariants of the histories what it says of each step; the runs check the
  refinements, the proofs have both.
* **FrontendPage.** `calls`, `polls` and `stats` are the requests in flight, which
  the Platform serves and the page handles in any order; a call may fail after it
  was performed. A poll has two requests whose answers are used together.

## 3. The runs

| Run (cfg) | Instance | Distinct states | Shows |
|---|---|---|---|
| frame_queue (`MCFrameQueue`) | 2 frames, 2 consumers, capacity 2, 4 puts between resets | 6 800 | books balance; newest frames kept; no lost wake-up; stop releases waiters; implements `RetentionLog` |
| inference_parts (`MCInferenceParts`) | 2 components, 2 threads, capacity 2, 3 puts; 3 accelerators, 4 device names, 3 sets of providers, 3 calls of `infer()` | 587 000 | no component leaked or released in use; one thread while running, none after; stop returns and threads end; frames are consumed; providers usable; full frames give results; the summary counts the log; `release()` ends |
| collector (`MCCollector`) | 2 handlers, 2 loops, 2 sessions, 2 device handles; as long as no start has met another start, a stop or a reset | 4 216 000 | one acquisition at a time, of the current session; idle means idle |
| collector_stop (`MCCollectorStop`) | 2 handlers, 1 loop, 1 session, 1 device handle; every overlap | 160 000 | stopped loops end; stop answered |
| collector_race (`MCCollectorRace`) | 2 handlers, 2 loops, 2 sessions, 1 device handle; every overlap | violated | divergence 1 |
| collector_parts (`MCCollectorParts`) | files 0..5, chunks 1..6, bursts of 3, 3 frequencies, 5 frames; 1 radio that ignores the sample rate, 2 handles, 2 threads, 2 configurations, 2 faults; 2 start requests | 745 000 | continuous playback, ordered and truly labelled frames; one writer of the radio, true settings; both data channels started, once by requests in turn |
| platform (`MCPlatformSessions`) | 2 sessions, 2 stop requests, shutdown | 45 700 | tables agree, no orphan acquisition, shutdown releases, every request ends |
| platform_overtake | 2 sessions, 1 stop request | violated | divergence 2 |
| platform_parts (`MCPlatformParts`) | 2 tunable and 1 fixed parameter, values below, in and above the range; a history of 2 and 5 results; 2 radios, 3 refreshes, 2 changes | 422 000 | clamping, reporting, PATCH legality, nothing missing; newest results, counted once; the last scan is listed |
| tcp (`MCTcpChannel`, of `MCDataChannels`) | 2 connections, packets of 2+1 units, window 2, queue 1, 2 frames | 565 000 | delivered whole and in order, sender progresses; implements `FrameStream` |
| udp (`MCUdpChannel`, of `MCDataChannels`) | 1 client, 2 frames of 1, 2, 4 or 5 fragments under one id, 2 faults; TCP: 1 connection, queue 2, 4 frames | 300 000 | no cut data; whole and in order without faults; small frames arrive; implements `FrameStream`; TCP frames accounted for, in order within the queue and before it |
| page (`MCFrontendPage`) | 2 sessions, 2 calls and 1 poll in flight, 1 result per session, 3 handled, 2 shown | 165 000 | the page's variables agree, no session lost, a button comes back |

The modules of an MC module that holds several share a run. They have no variable in
common, so that a behaviour of all is one of each, interleaved; a property of one can
be checked on the behaviours in which only its part moves, and the run has the sum of
the state spaces to go through instead of their product. `MCCollectorParts` and
`MCPlatformParts` check invariants only. `MCInferenceParts` checks liveness too, under
the fairness of both parts: of the part that does not move no fair action is enabled,
so that a part's property rests on its own fairness. Run udp is fair to the UDP
channel only, and of the TCP channel it checks an invariant; the other properties of
the TCP channel have a run of their own, with two connections and a shorter queue.

### Bounds, and why they are enough

* `MaxPuts`, `MaxFrames`, `MaxInfers`, `MaxCount` bound what would otherwise grow
  for ever; they exceed the capacity, the burst length, the file length and the
  number of results shown, so that dropping, wrapping and the seam occur, and are
  met again after them. `reset()` starts `MaxPuts` anew.
* Two of each identity (components, threads, sessions, handles, connections) is
  what it takes for an old and a new one to be confused. A third session was
  checked for the safety properties of `PlatformSessions` (870 000 states up to
  symmetry) and added nothing.
* collector leaves out the behaviours after a crossing (`UncrossedSpec`), of which
  its invariants say nothing; collector_stop and collector_race have them. One
  session, one thread and one handle are enough for collector_stop, whose properties
  are about one thread and one request each; the second handler disturbs them.
* Two consumers: with one, a notify cannot be spent on the wrong thread. The
  proofs cover any number. Three refreshes: two overlap, one comes after them.
* TCP: `Window` is smaller than a packet, so that `send()` blocks in its middle, and
  `Header` is 2, so that a header arrives in pieces. The queue of
  two in run udp, with four frames, overflows and has gaps between its frames; with
  two connections beside it there are too many states.
* UDP: clients do not meet (the receiver is a process of its own, and the server
  sends to a copy of its list), so that one is enough, which comes and goes. `Wrap` is
  1, so that two frames have one id, as frames 200 apart have. A frame of five
  fragments is one too many for `MaxFrags`.
* `FramesPerBurst` is 200 in the code and 3 here: a burst must end twice.
* Two faults in `Devices`: a radio is pulled out and plugged in again.
* `SYMMETRY` is declared for handles and threads in collector_parts, which
  checks invariants only, and nowhere else.

### Fairness, and why the code justifies it

* FrameQueue: a thread that was woken re-acquires the lock and runs on, because
  critical sections are short. No timeout has to fire, no frame has to come.
* InferenceFramework: stop() runs to its end (its join has a timeout),
  initialize() returns or raises, an inference thread runs until it ends **or
  hangs in infer()**. Liveness properties name the hung thread as their excuse
  where they need one; `StopReturns` does not.
* RfuavComponent: both threads run on. An `infer()` on this component computes, and
  waits for nothing but `_log_lock`.
* Collector: an accepted request goes on; an acquisition thread runs until it
  ends **or its read hangs**. `StopIsAnswered` holds with a hung read.
* PlatformSessions: every HTTP call is answered or times out; the pauses end.
* TcpChannel: the sender runs, and receivers read what has arrived. With a
  receiver that stops reading `SenderProgress` does not hold (divergence 17).
* UdpChannel: the acquisition thread sends the fragments of a frame it has begun,
  the server reads registrations, the receiver reads datagrams. The network has
  to do nothing; a loss is a fault and excuses the frame.
* FrontendPage: start and stop calls are served or fail, and their answers are
  handled. No user has to click, no poll has to be answered.
* AcquisitionLoop, Devices, DataServers, SessionConfig, ResultHistory,
  DeviceList: safety only.
* Nowhere does a request, a frame, a client or a timeout have to come.

Deadlock is checked for the frame queue. The other instances may stop for a
reason their cfg names: a bounded supply of ids, threads or frames is used up,
a process has ended, or the framework has locked itself out (divergence 3).

## 4. What is proved

Every invariant and every refinement the passing runs check is a theorem, for
every value of the constants that satisfies the assumptions (which TLC evaluates in
its run), as `Spec => []...`. What is an instance in an MC module (`F`, `D`, `S`,
`H`, `C`, `U`) has its theorem stated of its own specification, `D!Spec => []...`;
the specification of the run is for TLC.

| Module | Theorems | The strengthening, and why it is needed |
|---|---|---|
| `FrameQueueProofs` | `TypeCorrect`, `ConservationHolds`, `FreshestHolds`, `WakeupHolds`, `Refinement` | the invariants together, see below |
| `InferenceProofs`, framework | `LoopsMatchStateHolds`, `NoComponentLeakHolds`, `NoReleaseHolds` | the live thread is the one remembered, and there is none once it was joined (`QuiescenceInv`); the component in use is the one loaded (`UsingInv`): it is the join, not the lock, that keeps it from being released |
| `InferenceProofs`, component | `InferWorksHolds`, `SummaryIsTrueHolds` | while `infer()` has not met `release()` the models are there (`ApartInv`), the files of an active log are open, and others only after a refused log (`LogInv`), and the counters are those of the lines written but for the one counted next (`CountInv`) |
| `CollectorProofs` | `OneLoopHolds`, `IdleIsQuiescentHolds` | what the acquisition thread may be doing at each place where a request can stand (`AliveInv`, `RequestInv`), where requests of each kind stand (`PlaceInv`), and that a start is alone until one crosses another request (`ApartInv`) |
| `CollectorPartsProofs`, acquisition | `HeadersAreTrueHolds`, `PlaybackIsTrueHolds` | the next frame's number is beyond all others (`NextIsBeyond`), and the device is tuned to what the loop believes (`TunedAsIndexed`); the read position is where the last frame ended (`PlayInv`) |
| `CollectorPartsProofs`, drivers | `OneWriterHolds`, `SettingsAreTrueHolds` | while the settings are written one by one, each is still to be written or is right (`ApplyInv`); no other thread can undo one (`OnlyWriter`), because a thread lives only while the collector runs and no start is under way (`LifeInv`); a handle's radio is the one it opened (`PresentInv`) |
| `CollectorPartsProofs`, servers | `FramesGoOutHolds` | what a channel lacks some request is still to make, however many run (`WiredInv`); with one at a time, what was made follows from the statement it is at (`Due`, `TurnInv`) |
| `PlatformSessionsProofs` | `TablesAgreeHolds`, `NoOrphanHolds`, `ShutdownReleasesHolds` | what the tables hold while a start is under way (`StartInv`), which calls account for the collector's acquisition (`OwnerInv`), what shutdown has still to stop (`StoredInv`, `ShutdownInv`) |
| `PlatformPartsProofs` | `ListIsTrueHolds` | a refresh alone waits with an empty list (`AloneInv`); what the last scan found stays listed (`LastInv`) |
| | `HistoryIsNewestHolds`, `ReadersAreTrueHolds` | each result a reader has gone past is no newer than the one its place in the list holds now (`IteratorInv`): so the next is newer than all |
| | `StartIsLegalHolds`, `PatchedIsLegalHolds` | a session not patched has what start worked out (`StartedInv`); the rest are lemmas about `Merge`, `Combined` and `Overlaid` |
| `ChannelProofs`, TCP | `FramesAccountedHolds`, `DeliveredInOrderHolds`, `TcpIsStreamHolds` | no frame queued or under way is newer than the last one broadcast (`NewestIsLast`), so that a new one belongs at the end; what the receiver has read and what is on the wire are one stream without a gap (`Gapless`, `EndInv`, `OrderInv`) |
| `ChannelProofs`, UDP | `NothingIsCutHolds`, `WholeWithoutFaultsHolds`, `UdpIsStreamHolds` | an entry of the cache with a cut piece has no first fragment (`IsEntry`); the datagrams under way and the one sent next follow each other, the cache holds the one before the first, and what was delivered is of older frames (`FlowOf`); no piece is of a frame not yet broadcast (`KnownInv`), so that a broadcast makes none whole |
| `FrontendPageProofs` | `PageAgreesHolds`, `NoOrphanSessionHolds` | what calls in flight carry (`CallInv`), sessions are owed to clicks (`PendingInv`), and the order of clicks and answers when they take turns (`TurnInv`) |

The argument is the same each time: the inductive invariant is the conjunction of
the property and its strengthening; it holds initially, and each action keeps each
conjunct it can disturb (a lemma per group of actions); it implies the property.

* **The frame queue.** `Refinement` is `Spec => ImplementsLog`: the queue implements
  `RetentionLog` with the log mapped to `accepted`, the cursor to `dropped + taken`
  and the lost count to `dropped`. None of `FreshestRetained`, `Conservation` and
  the refinement is inductive by itself: a put at capacity keeps the newest frames
  only if the number of frames ahead of the queue is `dropped + taken`
  (`Conservation`), and the counts agree with the contents only if the queue is a
  suffix of the log (`FreshestRetained`). `NoLostWakeup` needs the states of
  `WaitStates` (`TypeOK`): a notify spent on an `expired` waiter wakes nobody. That
  waiter returns without another look at the queue (`frame_queue.py` 72-73); the
  property holds because it is not asleep, so that not all consumers are.
* **The collector.** The theorems hold for any number of request threads. That
  a start meets no other start, stop or reset is not an assumption but an excuse
  (`crossed`), because the code does not ensure it: run collector_race shows what
  happens then. Stops and resets may overlap each other, and connects and
  disconnects may overlap anything: what one stop has cleared stays cleared until a
  start (`IdleInv`), and a stop that finds the thread gone has nothing to wait for.
* **The file player.** That a frame begins where the last one ended is arithmetic
  modulo the file's length, with three cases: the chunk ends before the file does,
  at its end, or past it (where the second turn of the loop begins the file anew). A
  file not longer than a chunk is played from its start each time.
* **The TCP channel.** A delivered frame says nothing of the packets behind it, so
  the invariant is about the header, the body begun and the wire taken together
  (`Stream`): it begins with a packet's first unit, two units of it are as far apart
  as their numbers say, and it ends where the sender stands. A read leaves the
  stream as it is, or takes its first packet off; a send adds the next unit.
  Connections with a timeout inside a frame are exempt: there the receiver may take
  payload for a header.
* **The UDP channel.** `NothingIsCut` needs no word about the network: a long later
  fragment is taken for a first one, so it starts an entry that never gets a first
  fragment and is never complete. `WholeWithoutFaults` does need one. Ids repeat, so
  an entry may be left over from another frame; that it never mixes with the next
  one is because the first fragment of that one overwrites it before anything else
  looks at it, which holds only of datagrams in order.
* **The two refinements of `FrameStream`.** Broadcast, a timeout and a fault of the
  network map to the actions of their names; a read that completes a frame is
  `HandOver`, and its guard, that the frame was broadcast and is newer than all
  before, is what the invariants above say of the state after the step; every other
  step is a stutter.
* **The page.** That each session is owed to a click counts the starts in flight
  with `Cardinality`; so the type invariant holds for any number of calls.

What the theorems assume of the constants: sizes, limits and bounds are numbers
(positive where the code divides or waits for them); `None`, `Missing` and `File`
are not among the values they stand beside; no parameter is both tunable and fixed,
and a range is not empty; configurations name at least one frequency; the
radio ignores the sample rate, but neither the frequency nor the buffer length, which
is not its own; "auto" is not
the name of a provider; a last fragment with less than eight bytes of data ends an
even number of fragments, as sizes of samples and fragments make it. There is no bound
on the number of threads, components, clients, handles, radios, requests or
refreshes.

Only model-checked: all liveness (`StopReleasesWaiters`, `ReleaseReturns`,
`StopEnds`, `FramesAreServed`, `StoppedLoopsEnd`, `StopIsAnswered`,
`EveryRequestEnds`, `SenderProgress`, `SmallFramesArrive`, `ButtonsComeBack`), for
temporal proofs under fairness, and ENABLED, are out of the prover's reach.

## 5. Where the code and its documents disagree

With a run:

1. collector_race: a `stop` that joins tears down the session a concurrent
   start has begun (`collector/collector.py` 356-377).
2. platform_overtake: a stop overtakes a start that is connecting; the stopped
   session gets a framework and a stats task (`backend/main.py` 360-372).

Met while modelling, of a kind a sentence shows as well as a run:

3. `load_component` calls `unload_component` with the plain Lock held
   (`backend/inference/framework.py` 84-86, 103) and blocks itself.
4. `dropped_rate` reads two counters without the lock and can exceed 1
   (`frame_queue.py` 117-123; the class says it is thread-safe, 30).
5. A component whose `infer()` raised is used again as it is (`framework.py`
   176-179; 44 promises crash recovery).
6. `force_reset` clears the stop event although its join may have given up; the
   thread then goes on for ever (`collector.py` 335-346).
7. A start whose IQ file does not load leaves state RUNNING with no thread
   (`collector.py` 279, 287); later unforced starts are refused.
8. When the collector refuses a start, the session's framework keeps running
   and no table refers to it (`main.py` 331-334).
9. `GET /collector/stats` answers for the oldest active session (`main.py`
   950-954; 947 says the most recent); `GET /session/status` also lists stopped
   sessions (457; `interfaces/platform-frontend.yaml` 116 says active ones).
10. A file not longer than a chunk gives short frames (`simulator.py` 115-118;
    109 says every frame is complete); `FramesAreComplete` covers longer files.
11. With `loop_play` off a file with samples is still repeated for ever
    (`collector.py` 541-544): the empty chunk it waits for never comes.
12. `frame_id` starts over every 200 frames (`collector.py` 571-573;
    `ARCHITECTURE.md` 145 says it increases); `FramesAreOrdered` is the order
    that does hold.
13. The user's input is written over the merged configuration, so values outside
    the capabilities reach the collector (`main.py` 332; `ARCHITECTURE.md`
    100-102). Defaults are filled in without a warning (`config_manager.py`
    137-139; `tests/unit/test_config_manager.py` 96 expects one).
14. A PATCH is answered with "configuration updated" but only logged by the
    collector (`collector/api.py` 351-352).
15. After a timeout inside a frame the TCP receiver loses the framing of the
    stream (`backend/collector_io_client.py` 157-160, 177-181): what is left of
    the frame is read as a header.
16. Over UDP a later fragment with eight bytes of data or more is taken for a
    first one (`collector_io_client.py` 203), which throws away what had arrived;
    with no faults of the network only frames of one fragment, or of two with a very
    short second one, are delivered.
17. The sender's `select()` waits for some room, then `send()` blocks for the
    whole packet with `_clients_lock` held (`tcp_data_server.py` 203, 217): a
    receiver that stops reading stops all. Sent frames are counted once per
    client and once more (225, 247; 245 says once).
18. Two start requests that both find `_socketio_started` unset each start the data
    servers and add emitters (`collector/api.py` 91-106; 88 says once).
19. A device handle that was disconnected still says it is connected
    (`devices.py` 288-293). A start in simulator mode forgets a connected device
    without `disconnect()` (`collector.py` 284): when the radio is let go is left
    to the garbage collector.
20. `read_samples` of a `PlutoDevice` takes a number of samples and ignores it
    (`devices.py` 316-321).
21. The proxy answers a failed connect with status 200 and a code in the body
    (`backend/api/collector_proxy.py` 34); the page takes it for a success
    (`frontend/app.js` 714-715).
22. A start that fails enables the start button also when the page is collecting
    (`app.js` 503). A poll that was answered late is shown after its session was
    stopped, in the table that was emptied (69). The number labelled as the
    number of inferences counts the answers of polls (97; `index.html` 269).
23. The statistics said to be of the last five seconds (`backend/api/session.py`
    138) count the whole history, their length and their elements are read while
    the inference thread writes, and every result counts as model "unknown" (175),
    because components put the model in their detections.
24. A history request with limit 0 is answered with all results (`main.py` 850),
    and its `total` is the number returned (`backend/socketio/server.py` 58-59).
25. A frame with fewer samples than required is said to be used with less
    accuracy (`components/rfuav-two-stage/component.py` 343) and is then refused
    (`stft.py` 37).
26. An `infer()` that outlived `stop()`'s join may open the log after `release()`
    has closed it (`component.py` 335). The directory of a log is named by the
    second (105-107), so two sessions that begin in one second share it.
27. Refreshes of the device list that overlap clear and fill the same list
    (`main.py` 571-582): one may return what another has found.
28. Pluto always samples at 60 MHz and ignores what it is given (`devices.py` 95,
    192, 308; its capabilities are fixed, 45), but the collector logs the rate that
    was asked for as the device's (`collector.py` 506; `devices.py` 310) and labels
    every frame with the configuration's (566).
29. A log of which the first file or two can be opened and the next not
    (`component.py` 109-112) leaves them open: `_logging_active` stays False, so
    `release()` does not close them (155), and the next attempt overwrites the
    handles. When they are closed is left to the garbage collector.
30. A stop that overlaps another stop or a reset may find `_thread` cleared between
    its test and its join (`collector.py` 361-362) and is answered with an internal
    error.
31. A framework that is started again after `stop()` has a queue that stays stopped
    (`framework.py` 136, 144; `frame_queue.py` 110): no frame is served, and its
    thread spins.

The properties that hold are stated beside these: `StopIsQuiescent` and
`NoReleaseDuringInfer` except a join that gave up, `OneLoopPerSession` and
`IdleIsQuiescent` also except a start that crossed another start, a stop or a reset,
`NoOrphanAcquisition` except a lost call, `TablesAgree` except for the raced
sessions, `TcpIsStream` except for connections with a timeout inside a frame,
`SettingsAreTrue` except after a stray ERROR and for what the radio ignores,
`SummaryIsTrue` except files of a refused log, `StartedOnceInTurn` except for
overlapping requests, `NoOrphanSession` except for overlapping clicks and failed
calls. The excuses are history variables or parts of the state, so it is visible what
the guarantee depends on.

## 6. Not modelled, and why

* Socket.IO: delivery is the library's, and the frontend polls instead.
* The simulated component: random results, no state that two steps share.
* Signal processing and neural networks: numeric code; only their results and
  exceptions matter here. `MockPlutoDevice` is a test double.
* Read-only routes (status, listings), and the proxy routes that forward a body
  and its answer: they change nothing the session life cycle reads.
* The frontend's rendering, parameter forms, device scans and cached configuration.
* `POST simulator/load`, which loads a simulator no acquisition reads.
* Process start and kill scripts; superseded copies of the services.
* Sessions composed with the data channel: the send queue outlives a session, and
  the frames left in it are the first that the next session's client receives
  (`tcp_data_server.py` 88). `TcpChannel` has one acquisition.

* A JSON null among a session's wishes or in the user's input (`main.py` 292-296,
  342): in `SessionConfig` a parameter has a value or is missing.

Five hazards in `PROJECT.json` have no property, with the reason beside each: the
code gives no guarantee there that a property could state (the self-blocking
reload, the framework left behind by a refused start, late polls, log
directories), or the composition is missing (the send queue across sessions). Of
some others a property covers a part only, and a note says what it leaves out: the
restart with a stopped queue, the event cleared under a late thread, data servers
started twice by overlapping requests.

## 7. The order of the work

The most important behaviour first: the frame queue with its abstract
specification and proofs; the framework that composes it; the collector's state
machine; the Platform's sessions; what an acquisition thread produces; the
configuration; the TCP channel. Then the parts around them: the UDP channel, the
page, the device drivers, the start of the data servers, the results, the device
list, the component. Then the proofs of the invariants of all modules, and last
the abstract stream that both channels implement.

What could come next: sessions composed with the channel, that is a stream of frames
per session, which the send queue that outlives a session breaks.
