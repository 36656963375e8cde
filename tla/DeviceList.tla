------------------------------ MODULE DeviceList ------------------------------
(***************************************************************************)
(* The Platform's list of devices (main.py, backend/api/devices.py) and    *)
(* the collector's scan behind it (Collector.get_devices, devices.py).     *)
(*                                                                         *)
(* The list is filled once before requests are served; each refresh clears *)
(* it, waits for the collector in a worker thread and adds what it found.  *)
(* Refreshes overlap at that wait, and radios come and go.                 *)
(***************************************************************************)
EXTENDS Naturals

CONSTANTS Radios,      \* devices that may be attached
          File,        \* the IQ file entry, which every scan ends with
          Refreshes,   \* POST /devices/refresh requests
          None,
          MaxChanges   \* bound: radios attached or detached

VARIABLES attached,  \* the radios that are there
          changes,   \* how often that changed
          devices,   \* _devices, by id
          starting,  \* startup() has not scanned yet
          pc,        \* each request: "new", "asking", "answered" or "done"
          found,     \* what its scan answered, nothing if it failed
          result,    \* what it returned
          alone,     \* history: no other refresh ran at the same time
          last       \* history: the refresh that began last

vars == <<attached, changes, devices, starting, pc, found, result, alone, last>>

Init ==
    /\ attached \in SUBSET Radios /\ changes = 0
    /\ devices = {} /\ starting = TRUE
    /\ pc = [r \in Refreshes |-> "new"]
    /\ found = [r \in Refreshes |-> {}] /\ result = [r \in Refreshes |-> {}]
    /\ alone = [r \in Refreshes |-> TRUE] /\ last = None

\* A radio is plugged in or pulled out.
Change(d) ==
    /\ changes < MaxChanges
    /\ changes' = changes + 1
    /\ attached' = IF d \in attached THEN attached \ {d} ELSE attached \cup {d}
    /\ UNCHANGED <<devices, starting, pc, found, result, alone, last>>

\* get_devices: the radios that can be opened, none if the scan raises, and
\* the file always.
Scans == {radios \cup {File} : radios \in SUBSET attached}

\* _discover_devices: the collector may not answer yet.
Startup ==
    /\ starting /\ starting' = FALSE
    /\ devices' \in Scans \cup {{}}
    /\ UNCHANGED <<attached, changes, pc, found, result, alone, last>>
-----------------------------------------------------------------------------
(* refresh_devices *)

Underway == {r \in Refreshes : pc[r] \in {"asking", "answered"}}

Clear == devices' = {}

Refresh(r) ==
    /\ ~starting /\ pc[r] = "new"
    /\ Clear
    /\ pc' = [pc EXCEPT ![r] = "asking"]
    /\ alone' = [q \in Refreshes |->
                    alone[q] /\ (q \in Underway \cup {r} => Underway = {})]
    /\ last' = r
    /\ UNCHANGED <<attached, changes, starting, found, result>>

\* The collector answers, or the request fails or times out.
Answer(r) ==
    /\ pc[r] = "asking"
    /\ \E s \in Scans \cup {{}} : found' = [found EXCEPT ![r] = s]
    /\ pc' = [pc EXCEPT ![r] = "answered"]
    /\ UNCHANGED <<attached, changes, devices, starting, result, alone, last>>

FillIfEmpty(r) ==   \* faulty: a list that another refresh filled is left alone
    IF devices = {} THEN found[r] ELSE devices

Filled(r) == devices \cup found[r]

Fill(r) ==
    /\ pc[r] = "answered"
    /\ devices' = Filled(r)
    /\ result' = [result EXCEPT ![r] = devices']
    /\ pc' = [pc EXCEPT ![r] = "done"]
    /\ UNCHANGED <<attached, changes, starting, found, alone, last>>
-----------------------------------------------------------------------------
Next ==
    \/ Startup
    \/ \E d \in Radios : Change(d)
    \/ \E r \in Refreshes : Refresh(r) \/ Answer(r) \/ Fill(r)

Spec == Init /\ [][Next]_vars
-----------------------------------------------------------------------------
Ids == Radios \cup {File}

(* Type invariant.                                                         *)
TypeOK ==
    /\ attached \subseteq Radios /\ changes \in Nat
    /\ devices \subseteq Ids /\ starting \in BOOLEAN
    /\ pc \in [Refreshes -> {"new", "asking", "answered", "done"}]
    /\ found \in [Refreshes -> SUBSET Ids] /\ result \in [Refreshes -> SUBSET Ids]
    /\ \A r \in Refreshes : pc[r] \in {"new", "asking"} => found[r] = {} /\ result[r] = {}
    /\ alone \in [Refreshes -> BOOLEAN] /\ last \in Refreshes \cup {None}

(* A refresh that met no other one returns what its scan found, however    *)
(* the list came about; a radio pulled out before is not listed any more.  *)
RefreshIsTrue ==
    \A r \in Refreshes : pc[r] = "done" /\ alone[r] => result[r] = found[r]

(* However refreshes overlap and in whatever order the collector answers,  *)
(* once all have returned the list holds everything that the one which     *)
(* began last has found (569-585: cleared before the wait, added to after).*)
LastScanIsListed ==
    Underway = {} /\ last # None => found[last] \subseteq devices

(* Together: what a refresh returns, and what it leaves.                   *)
ListIsTrue == TypeOK /\ RefreshIsTrue /\ LastScanIsListed
=============================================================================
