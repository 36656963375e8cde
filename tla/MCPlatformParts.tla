---------------------------- MODULE MCPlatformParts ----------------------------
(* Three parts of the Platform on small instances: the list of devices      *)
(* (DeviceList: two radios, three refreshes), the configuration of a        *)
(* session (SessionConfig: a value below, inside and above the range 2..5   *)
(* for two tunable parameters and a fixed one), and its results             *)
(* (ResultHistory: a list of two).                                          *)
(*                                                                          *)
(* The modules share no variable.  A behaviour is therefore one of each,    *)
(* interleaved, and an invariant of one of them can be checked on the       *)
(* behaviours in which only that part moves: "part" says which.             *)
EXTENDS DeviceList, Integers

CONSTANTS Tunable, FixedKeys, Values, Lo, Hi, Default, FixedValue, Missing,
          Limit, MaxResults

VARIABLES cached, wishes, input, stage, current, warnings, patched,
          made, first, kept, history, reading, index, count, visited, latest, answer,
          part

configVars == <<cached, wishes, input, stage, current, warnings, patched>>
historyVars == <<made, first, kept, history, reading, index, count, visited,
                 latest, answer>>

C == INSTANCE SessionConfig
H == INSTANCE ResultHistory

ASSUME EntriesAssumption == File \notin Radios /\ None \notin Refreshes
ASSUME RangeAssumption ==
    /\ {Lo, Hi, Default, FixedValue} \subseteq Int /\ Values \subseteq Int
    /\ Lo <= Default /\ Default <= Hi
    /\ Missing \notin Int
ASSUME KeyAssumption == Tunable \cap FixedKeys = {}
ASSUME LimitAssumption == Limit \in Nat \ {0} /\ MaxResults \in Nat

MCTunable == {"frequency", "gain"}
MCFixedKeys == {"sample_rate"}

\* A part that does not move starts in one state.
MCInit ==
    /\ part \in {"devices", "config", "history"}
    /\ Init /\ C!Init /\ H!Init
    /\ part # "devices" => attached = Radios
    /\ part # "config" => wishes = C!NoCapabilities /\ input = C!NoCapabilities

ListMoves    == part = "devices" /\ Next /\ UNCHANGED <<configVars, historyVars, part>>
ConfigMoves  == part = "config" /\ C!Next /\ UNCHANGED <<vars, historyVars, part>>
HistoryMoves == part = "history" /\ H!Next /\ UNCHANGED <<vars, configVars, part>>

MCNext == ListMoves \/ ConfigMoves \/ HistoryMoves

MCSpec == MCInit /\ [][MCNext]_<<vars, configVars, historyVars, part>>

(* A session starts with its component's wishes, clamped to what the        *)
(* hardware allows, and with no value missing (SessionConfig).              *)
StartIsLegal == C!StartIsLegal

(* A PATCH leaves only values the hardware allows (SessionConfig).          *)
PatchedIsLegal == C!PatchedIsLegal

(* The list is the newest results without a gap (ResultHistory).            *)
HistoryIsNewest == H!HistoryIsNewest

(* Whoever reads the list while it changes counts no result twice and gets  *)
(* results that follow one another (ResultHistory).                         *)
ReadersAreTrue == H!ReadersAreTrue
=============================================================================
