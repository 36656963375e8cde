-------------------------------- MODULE Devices --------------------------------
(***************************************************************************)
(* collector/devices.py (PlutoDevice) under the collector's requests and   *)
(* its acquisition threads: what a radio is really set to.                 *)
(*                                                                         *)
(* A handle keeps copies of the settings written through it; every setter  *)
(* writes first and may raise.  Not every setting is the radio's: the      *)
(* buffer length is the driver's, and the radio ignores the sample rate.   *)
(* A start writes five settings one after the other.  Stopping disconnects *)
(* the handle, but the thread that uses it may live on when the join gives *)
(* up, and hop once more.                                                  *)
(* Requests come one at a time here; module Collector has them overlap.    *)
(***************************************************************************)
EXTENDS Naturals, Sequences

CONSTANTS Uris,       \* radios
          Configs,    \* [frequencies, rest]: a sequence, and the other settings
          Handles,    \* PlutoDevice instances, each made once
          Threads,    \* acquisition threads, each started once
          None,
          Default,    \* settings of a radio just plugged in; __init__'s copies
          Ignored,    \* settings the radio ignores, as it does the sample rate
          MaxFaults   \* bound: radios pulled out or plugged in

Rest == {"gain", "buffer_size", "sample_rate", "rf_bandwidth"}
Settings == Rest \cup {"frequency"}
OnRadio == Settings \ {"buffer_size"}   \* the others: kept by the radio itself

VARIABLES plugged,   \* the radios that are there
          radio,     \* what each radio is really set to
          handle,    \* each instance, or None before it is made
          device,    \* _device
          state,     \* _state: "idle", "running" or "error"
          config,    \* _config
          pending,   \* settings _apply_config has still to write
          thread,    \* _thread, None for a simulator's
          loop,      \* each thread's handle, config, hop and life, or None
          stray,     \* history: a thread stopped long ago set the state to ERROR
          faults     \* history: number of faults

collector == <<device, state, config, pending>>
vars == <<plugged, radio, handle, collector, thread, loop, stray, faults>>

Init ==
    /\ plugged \in SUBSET Uris
    /\ radio = [u \in Uris |-> [s \in OnRadio |-> Default]]
    /\ handle = [h \in Handles |-> None]
    /\ device = None /\ state = "idle" /\ config = None /\ pending = <<>>
    /\ thread = None /\ loop = [t \in Threads |-> None]
    /\ stray = FALSE /\ faults = 0

\* A radio is pulled out, which breaks its handles for good, or plugged in.
Pull(u) ==
    /\ u \in plugged /\ faults < MaxFaults
    /\ plugged' = plugged \ {u} /\ faults' = faults + 1
    /\ handle' = [h \in Handles |-> IF handle[h] # None /\ handle[h].uri = u
                     THEN [handle[h] EXCEPT !.broken = TRUE] ELSE handle[h]]
    /\ UNCHANGED <<radio, collector, thread, loop, stray>>

Plug(u) ==
    /\ u \notin plugged /\ faults < MaxFaults
    /\ plugged' = plugged \cup {u} /\ faults' = faults + 1
    /\ radio' = [radio EXCEPT ![u] = [s \in OnRadio |-> Default]]
    /\ UNCHANGED <<handle, collector, thread, loop, stray>>
-----------------------------------------------------------------------------
(* devices.py *)

\* __init__ and connect.  noted: the copies that a setter has made; the others
\* are constants, whatever the radio is set to.  buffer: _sdr.rx_buffer_size.
NewHandle(u) ==
    [uri |-> u, sdr |-> TRUE, broken |-> FALSE, noted |-> {}, buffer |-> Default]

Usable(h) == handle[h].sdr /\ ~handle[h].broken

Noted(h, s, v) == {c \in handle[h].noted : c[1] # s} \cup {<<s, v>>}

\* Every setting is noted, an ignored one too.
TakeOver(h, s, v) ==
    /\ handle' = [handle EXCEPT ![h].noted = Noted(h, s, v),
                     ![h].buffer = IF s = "buffer_size" THEN v ELSE handle[h].buffer]
    /\ radio' = IF s \in OnRadio \ Ignored
                  THEN [radio EXCEPT ![handle[h].uri][s] = v] ELSE radio

WriteIfChanged(h, s, v, raises) ==   \* faulty: nothing is written if the copy has it
    IF raises \/ (v = Default /\ \A c \in handle[h].noted : c[1] # s)
      THEN UNCHANGED <<handle, radio>>
      ELSE TakeOver(h, s, v)

\* A setter that raises has no effect.
Write(h, s, v, raises) ==
    IF raises THEN UNCHANGED <<handle, radio>> ELSE TakeOver(h, s, v)

\* After disconnect() a setter must raise.  The buffer length is an attribute
\* of the driver's object; the others must raise if the radio is gone, but for
\* what it ignores anyway.
Raises(h, s) ==
    IF ~handle[h].sdr THEN {TRUE}
    ELSE IF s = "buffer_size" THEN {FALSE}
    ELSE IF handle[h].broken /\ s \notin Ignored THEN {TRUE}
    ELSE BOOLEAN

KeepRadio(h) == UNCHANGED handle   \* faulty: the radio's object lives on

\* disconnect(): the radio's object is deleted, the flag is not reset.
Drop(h) == handle' = [handle EXCEPT ![h].sdr = FALSE]
-----------------------------------------------------------------------------
(* The collector's requests. *)

Ready == pending = <<>>   \* no start is under way

Open(u) ==
    \E h \in Handles :
        /\ handle[h] = None /\ u \in plugged
        /\ handle' = [handle EXCEPT ![h] = NewHandle(u)]
        /\ device' = h

\* connect_device: with a device in hand it only answers.
Connect(u) ==
    /\ Ready /\ device = None
    /\ Open(u)
    /\ UNCHANGED <<plugged, radio, state, config, pending, thread, loop, stray, faults>>

Disconnect ==
    /\ Ready /\ device # None
    /\ Drop(device) /\ device' = None
    /\ UNCHANGED <<plugged, radio, state, config, pending, thread, loop, stray, faults>>

\* start(mode="pluto"): connects first if it has to, then configures.
Start(u, c) ==
    /\ Ready /\ state # "running" /\ (\E t \in Threads : loop[t] = None)
    /\ config' = c /\ state' = "running"
    /\ pending' = <<"frequency", "gain", "buffer_size", "sample_rate", "rf_bandwidth">>
    /\ IF device = None THEN Open(u) ELSE UNCHANGED <<device, handle>>
    /\ UNCHANGED <<plugged, radio, thread, loop, stray, faults>>

\* No radio can be opened, or the URI names a file.
StartFails(c) ==
    /\ Ready /\ state # "running" /\ device = None
    /\ config' = c /\ state' = "error"
    /\ UNCHANGED <<plugged, radio, handle, device, pending, thread, loop, stray, faults>>

Wanted(s) == IF s = "frequency" THEN Head(config.frequencies) ELSE config.rest[s]

\* One line of _apply_config.
Apply ==
    /\ ~Ready
    /\ FALSE \in Raises(device, Head(pending))
    /\ Write(device, Head(pending), Wanted(Head(pending)), FALSE)
    /\ pending' = Tail(pending)
    /\ IF pending' # <<>> THEN UNCHANGED <<thread, loop>>
       ELSE \E t \in Threads :
               /\ loop[t] = None /\ thread' = t
               /\ loop' = [loop EXCEPT ![t] =
                     [handle |-> device, config |-> config, hop |-> 1, alive |-> TRUE, told |-> FALSE]]
    /\ UNCHANGED <<plugged, device, state, config, stray, faults>>

\* An exception leaves the settings before it written and the device in hand.
ApplyFails ==
    /\ ~Ready
    /\ TRUE \in Raises(device, Head(pending))
    /\ Write(device, Head(pending), Wanted(Head(pending)), TRUE)
    /\ state' = "error" /\ pending' = <<>>
    /\ UNCHANGED <<plugged, device, config, thread, loop, stray, faults>>

\* start(mode="simulator"): the device is forgotten, not disconnected.
StartSimulator(c) ==
    /\ Ready /\ state # "running"
    /\ state' = "running" /\ config' = c /\ device' = None /\ thread' = None
    /\ UNCHANGED <<plugged, radio, handle, pending, loop, stray, faults>>

\* stop() and force_reset(): the thread has ended when the join returns, or the
\* join gave up on it.
Stop ==
    /\ Ready
    /\ state' = "idle" /\ device' = None /\ thread' = None
    /\ IF device = None THEN UNCHANGED handle ELSE Drop(device)
    /\ IF thread = None THEN UNCHANGED loop
       ELSE \E ended \in BOOLEAN : loop' = [loop EXCEPT
               ![thread].told = TRUE, ![thread].alive = loop[thread].alive /\ ~ended]
    /\ UNCHANGED <<plugged, radio, config, pending, stray, faults>>
-----------------------------------------------------------------------------
(* The acquisition threads. *)

Lives(t) == loop[t] # None /\ loop[t].alive

Ends(t) ==
    /\ Lives(t) /\ loop[t].told
    /\ loop' = [loop EXCEPT ![t].alive = FALSE]
    /\ UNCHANGED <<plugged, radio, handle, collector, thread, stray, faults>>

\* The next frequency.  If it cannot be set the thread ends and tells nobody.
Hop(t) ==
    /\ Lives(t) /\ Len(loop[t].config.frequencies) > 1
    /\ LET k == (loop[t].hop % Len(loop[t].config.frequencies)) + 1
       IN  \E raises \in Raises(loop[t].handle, "frequency") :
              /\ Write(loop[t].handle, "frequency", loop[t].config.frequencies[k], raises)
              /\ loop' = [loop EXCEPT ![t].hop = k, ![t].alive = ~raises]
    /\ UNCHANGED <<plugged, collector, thread, stray, faults>>

\* A read raises: state ERROR, whoever's it is by now, and the thread ends.
ReadFails(t) ==
    /\ Lives(t)
    /\ loop' = [loop EXCEPT ![t].alive = FALSE]
    /\ state' = "error" /\ stray' = (stray \/ t # thread)
    /\ UNCHANGED <<plugged, radio, handle, device, config, pending, thread, faults>>
-----------------------------------------------------------------------------
Next ==
    \/ \E u \in Uris : Pull(u) \/ Plug(u) \/ Connect(u)
    \/ Disconnect \/ Apply \/ ApplyFails \/ Stop
    \/ \E c \in Configs : StartSimulator(c) \/ StartFails(c) \/ (\E u \in Uris : Start(u, c))
    \/ \E t \in Threads : Ends(t) \/ Hop(t) \/ ReadFails(t)

Spec == Init /\ [][Next]_vars
-----------------------------------------------------------------------------
(* Type invariant. *)
TypeOK ==
    /\ plugged \subseteq Uris /\ DOMAIN radio = Uris
    /\ \A u \in Uris : DOMAIN radio[u] = OnRadio
    /\ \A h \in Handles : handle[h] # None =>
          handle[h].uri \in Uris /\ (\A c \in handle[h].noted : c[1] \in Settings)
    /\ device # None => handle[device] # None /\ handle[device].sdr
    /\ state \in {"idle", "running", "error"} /\ config \in Configs \cup {None}
    /\ ~Ready => device # None /\ config # None
    /\ thread \in Threads \cup {None} /\ (thread # None => loop[thread] # None)
    /\ stray \in BOOLEAN /\ faults \in 0 .. MaxFaults

(* A thread that can still set a radio is the collector's own thread on    *)
(* its own device: one that outlives its session is harmless, because      *)
(* disconnect() takes the radio from it (288-290).  The exception is a     *)
(* collector started over an ERROR that a late thread caused.              *)
OneWriter ==
    /\ TypeOK
    /\ ~stray => \A t \in Threads :
          Lives(t) /\ Usable(loop[t].handle) => t = thread /\ loop[t].handle = device

\* What a handle reads with: its buffer, and what its radio is set to.
Actual(h, s) == IF s = "buffer_size" THEN handle[h].buffer ELSE radio[handle[h].uri][s]

(* While an acquisition runs, its buffer has the length, and its radio all *)
(* settings it does not ignore, of its configuration, and hops between its *)
(* frequencies, whatever earlier starts that failed half-way, other        *)
(* handles and late threads have written (_apply_config 232-238).  The     *)
(* sample rate is not among them: the radio keeps its own (devices.py 95,  *)
(* 308), whatever the configuration says.                                  *)
RunningIsConfigured ==
    ~stray /\ state = "running" /\ thread # None =>
        LET h == loop[thread].handle
        IN  loop[thread].alive /\ Usable(h) =>
                /\ \A s \in Rest \ Ignored : Actual(h, s) = config.rest[s]
                /\ \E k \in DOMAIN config.frequencies :
                      Actual(h, "frequency") = config.frequencies[k]

(* The copies of the device in hand, which the log reports as the radio's  *)
(* settings (collector.py 505-511), are the radio's settings, but for what *)
(* it ignores: the copy of the sample rate is what was asked for.          *)
CopiesAreTrue ==
    ~stray /\ device # None /\ ~handle[device].broken =>
        \A c \in handle[device].noted : c[1] \notin Ignored => Actual(device, c[1]) = c[2]

(* Together: what was asked for, what the radio does and what is reported  *)
(* of it are the same, as far as the radio takes it.                       *)
SettingsAreTrue == RunningIsConfigured /\ CopiesAreTrue
=============================================================================
