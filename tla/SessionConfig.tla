---------------------------- MODULE SessionConfig ----------------------------
(***************************************************************************)
(* backend/config_manager.py, and what start_session and                   *)
(* update_session_config of backend/main.py do with it: how a component's  *)
(* wishes, the user's input and the collector's capabilities become the    *)
(* configuration of one session.                                           *)
(*                                                                         *)
(* A dictionary is a function whose domain is its keys.                    *)
(***************************************************************************)
EXTENDS Integers

CONSTANTS Tunable,    \* "frequency", "buffer_size", "gain"
          FixedKeys,  \* "sample_rate", "rf_bandwidth"
          Values,     \* values a component or a user may give
          Lo, Hi, Default, FixedValue,  \* the collector's capabilities
          Missing     \* Python's None

VARIABLES cached,      \* ConfigManager._collector_capabilities
          wishes,      \* the component's collector_requirements
          input,       \* the user's config
          stage,       \* "discovering", "idle", "refused" or "running"
          current,     \* _sessions[...]["current_config"]
          warnings,    \* _sessions[...]["warnings"], as a set
          patched      \* history: a PATCH was applied

vars == <<cached, wishes, input, stage, current, warnings, patched>>

Keys == Tunable \cup FixedKeys

\* Dictionaries over some of the keys K.
Dicts(K) == UNION {[D -> Values] : D \in SUBSET K}

\* A capability is a range with a default, a fixed value, or a bare value.
Ranged(d) == [kind |-> "range", lo |-> Lo, hi |-> Hi, default |-> d]
Fixed(v)  == [kind |-> "fixed", value |-> v]
Bare(v)   == [kind |-> "bare", value |-> v]

DefaultCapabilities ==
    [k \in Keys |-> IF k \in Tunable THEN Ranged(Default) ELSE Fixed(FixedValue)]

NoCapabilities == [k \in {} |-> Missing]

\* The dictionary d with e written over it.
Overlaid(d, e) ==
    [k \in DOMAIN d \cup DOMAIN e |-> IF k \in DOMAIN e THEN e[k] ELSE d[k]]

Init ==
    /\ cached = NoCapabilities
    /\ wishes \in Dicts(Tunable)
    /\ input \in Dicts(Keys)
    /\ stage = "discovering"
    /\ current = NoCapabilities
    /\ warnings = {}
    /\ patched = FALSE
-----------------------------------------------------------------------------
(* ConfigManager.merge *)

ClampBelow(v, cap) == IF v < cap.lo THEN cap.lo ELSE v   \* faulty: no upper bound

\* A wish outside the range is degraded to the bound it exceeds.
Clamp(v, cap) == IF v < cap.lo THEN cap.lo ELSE IF v > cap.hi THEN cap.hi ELSE v

\* The value _merge_param returns for a wish and a capability.
MergedValue(k, reqs, caps) ==
    LET wish == reqs[k]
        cap  == caps[k]
    IN  CASE k \in DOMAIN reqs /\ k \in DOMAIN caps /\ cap.kind = "range" ->
                 Clamp(wish, cap)
          [] k \in DOMAIN reqs /\ ~(k \in DOMAIN caps /\ cap.kind = "range") -> wish
          [] k \notin DOMAIN reqs /\ k \in DOMAIN caps ->
                 (IF cap.kind = "range" THEN cap.default ELSE cap.value)
          [] OTHER -> Missing

\* The warnings it appends.
MergeWarnings(k, reqs, caps) ==
    LET ranged == k \in DOMAIN caps /\ caps[k].kind = "range"
    IN  {w \in {"low", "high", "missing"} :
            \/ w = "low"     /\ k \in DOMAIN reqs /\ ranged /\ reqs[k] < caps[k].lo
            \/ w = "high"    /\ k \in DOMAIN reqs /\ ranged /\ reqs[k] > caps[k].hi
            \/ w = "missing" /\ k \notin DOMAIN reqs /\ k \notin DOMAIN caps}

EffectiveAsGiven(caps) == caps   \* faulty: no fallback to the built-in ones

\* Empty capabilities count as none, and then the built-in ones are used.
Effective(caps) ==
    IF DOMAIN caps # {} THEN caps
    ELSE IF DOMAIN cached # {} THEN cached
    ELSE DefaultCapabilities

Merge(reqs, caps) ==
    LET c == Effective(caps)
    IN  [k \in Tunable \cup (FixedKeys \cap DOMAIN c) |->
            IF k \in Tunable THEN MergedValue(k, reqs, c) ELSE c[k].value]

Warnings(reqs, caps) ==
    {w \in Tunable \X {"low", "high", "missing"} :
        w[2] \in MergeWarnings(w[1], reqs, Effective(caps))}
-----------------------------------------------------------------------------
(* _load_collector_capabilities: the collector answers, answers without a  *)
(* capabilities entry, or does not answer, and the defaults are assumed.   *)
Discover ==
    /\ stage = "discovering"
    /\ cached' \in {DefaultCapabilities, NoCapabilities}
    /\ stage' = "idle"
    /\ UNCHANGED <<wishes, input, current, warnings, patched>>

\* start_session: the user's value takes the place of a capability's default,
\* or is a capability of its own if the collector named none.  The default
\* of a fixed capability is never looked at.
Combined ==
    [k \in DOMAIN cached \cup DOMAIN input |->
        IF k \notin DOMAIN input THEN cached[k]
        ELSE IF k \notin DOMAIN cached THEN Bare(input[k])
        ELSE IF cached[k].kind = "range" THEN Ranged(input[k])
        ELSE cached[k]]

\* {**merged_config, **config}: the user's input has the last word.
StartSession ==
    /\ stage = "idle"
    /\ LET merged == Merge(wishes, Combined)
           warned == Warnings(wishes, Combined)
       IN  IF \E w \in warned : w[2] = "missing"
             THEN /\ stage' = "refused"
                  /\ UNCHANGED <<current, warnings>>
             ELSE /\ stage' = "running"
                  /\ current' = Overlaid(merged, input)
                  /\ warnings' = warned
    /\ UNCHANGED <<cached, wishes, input, patched>>

\* PATCH config: merged like a component's wishes, so that merge() does not
\* even look at what it says of fixed parameters; then written over the
\* current configuration; the collector answers that it is updated and keeps
\* acquiring as before.
UpdateSessionConfig(config) ==
    /\ stage = "running"
    /\ current' = Overlaid(current, Merge(config, cached))
    /\ warnings' = warnings \cup Warnings(config, cached)
    /\ patched' = TRUE
    /\ UNCHANGED <<cached, wishes, input, stage>>

Next ==
    \/ Discover
    \/ StartSession
    \/ \E config \in Dicts(Tunable) : UpdateSessionConfig(config)

Spec == Init /\ [][Next]_vars
-----------------------------------------------------------------------------
(* Type invariant. *)
TypeOK ==
    /\ cached \in {NoCapabilities, DefaultCapabilities}
    /\ wishes \in Dicts(Tunable)
    /\ input \in Dicts(Keys)
    /\ stage \in {"discovering", "idle", "refused", "running"}
    /\ DOMAIN current \subseteq Keys /\ (stage # "running" => current = NoCapabilities)
    /\ warnings \subseteq Tunable \X {"low", "high", "missing"}
    /\ patched \in BOOLEAN

\* The value of Lo..Hi closest to v.
Nearest(v) ==
    LET Distance(w) == IF w < v THEN v - w ELSE w - v
    IN  CHOOSE w \in Lo .. Hi : \A x \in Lo .. Hi : Distance(w) <= Distance(x)

(* With known capabilities, a component's wish reaches the session as the  *)
(* nearest value the hardware allows, unless the user gave the parameter;  *)
(* and it is reported exactly if it had to be changed (merge 59-154).      *)
WishesAreClamped ==
    stage = "running" /\ ~patched /\ DOMAIN cached # {} =>
        \A k \in Tunable \cap DOMAIN wishes :
            /\ k \notin DOMAIN input => current[k] = Nearest(wishes[k])
            /\ wishes[k] # Nearest(wishes[k]) <=> (<<k, "low">> \in warnings \/ <<k, "high">> \in warnings)

(* A PATCH leaves the session with values the hardware allows, even if it  *)
(* was started with others, and even if discovery had found no             *)
(* capabilities (update_session_config 508-529).                           *)
PatchedIsLegal ==
    stage = "running" /\ patched =>
        /\ \A k \in Tunable : current[k] \in Lo .. Hi
        /\ \A k \in FixedKeys : current[k] = FixedValue

(* A session never runs with a parameter that has no value; it is refused  *)
(* only if the user's input hid the built-in capabilities (302-307).       *)
NothingIsMissing ==
    /\ stage = "running" => \A k \in Tunable : k \in DOMAIN current /\ current[k] # Missing
    /\ stage = "refused" => DOMAIN cached = {} /\ DOMAIN input # {}

(* Together: what a session is started with.                               *)
StartIsLegal == TypeOK /\ WishesAreClamped /\ NothingIsMissing
=============================================================================
