--------------------------- MODULE MCCollectorParts ---------------------------
(* Three parts of the collector on small instances: what its acquisition    *)
(* thread plays (AcquisitionLoop: short files, bursts of three frames,      *)
(* three frequencies), what its radio is set to (Devices: one radio, one    *)
(* configuration that hops and one that does not), and how its data servers *)
(* start (DataServers: two requests).                                       *)
(*                                                                          *)
(* The modules share no variable.  A behaviour is therefore one of each,    *)
(* interleaved, and an invariant of one of them can be checked on the       *)
(* behaviours in which only that part moves: "part" says which.             *)
EXTENDS AcquisitionLoop, TLC

CONSTANTS Uris, Configs, Handles, Threads, None, Default, Ignored, MaxFaults, Requests

VARIABLES plugged, radio, handle, device, state, config, pending, thread, loop,
          stray, faults,
          pc, started, servers, current, emitters, clientsAt, acquiring, copies,
          overlapped,
          part

deviceVars == <<plugged, radio, handle, device, state, config, pending, thread,
                loop, stray, faults>>
serverVars == <<pc, started, servers, current, emitters, clientsAt, acquiring,
                copies, overlapped>>

D == INSTANCE Devices
S == INSTANCE DataServers

\* A configuration, an instance of a driver and what a thread works with.
ConfigType == [frequencies : Seq(Int) \ {<<>>}, rest : [D!Rest -> Int]]
HandleType == [uri : Uris, sdr : BOOLEAN, broken : BOOLEAN, noted : SUBSET (D!Settings \X Int),
               buffer : Int]
LoopType   == [handle : Handles, config : Configs, hop : Nat, alive : BOOLEAN, told : BOOLEAN]

ASSUME ConfigsAssumption ==
    Configs \subseteq ConfigType /\ Default \in Int /\ MaxFaults \in Nat
ASSUME IgnoredAssumption ==
    "sample_rate" \in Ignored /\ Ignored \subseteq D!Rest \ {"buffer_size"}
ASSUME NoneAssumption ==
    None \notin Handles \cup Threads \cup Configs \cup HandleType \cup LoopType

MCFrequencies == <<10, 20, 30>>

MCConfig(freqs, v) ==
    [frequencies |-> freqs,
     rest |-> [gain |-> v, buffer_size |-> v, sample_rate |-> v, rf_bandwidth |-> v]]
MCConfigs == {MCConfig(<<1, 2>>, 1), MCConfig(<<3>>, 2)}

MCSymmetry == Permutations(Handles) \cup Permutations(Threads)

\* A part that does not move starts in one state.
MCInit ==
    /\ part \in {"loop", "devices", "servers"}
    /\ Init /\ D!Init /\ S!Init
    /\ part # "loop" => source = "device" /\ total = 0 /\ chunk = 1 /\ ~loopPlay
    /\ part # "devices" => plugged = Uris

LoopMoves    == part = "loop" /\ Next /\ UNCHANGED <<deviceVars, serverVars, part>>
DevicesMove  == part = "devices" /\ D!Next /\ UNCHANGED <<vars, serverVars, part>>
ServersStart == part = "servers" /\ S!Next /\ UNCHANGED <<vars, deviceVars, part>>

MCNext == LoopMoves \/ DevicesMove \/ ServersStart

MCSpec == MCInit /\ [][MCNext]_<<vars, deviceVars, serverVars, part>>

(* Only the collector's own thread can set a radio (Devices).               *)
OneWriter == D!OneWriter

(* A running radio has its configuration, as far as it takes it, and so     *)
(* far the copies are true (Devices).                                       *)
SettingsAreTrue == D!SettingsAreTrue

(* Requests that do not overlap start each server once, and frames reach    *)
(* the clients of both channels once (DataServers).                         *)
FramesGoOut == S!FramesGoOut
=============================================================================
