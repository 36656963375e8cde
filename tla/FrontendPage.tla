----------------------------- MODULE FrontendPage -----------------------------
(***************************************************************************)
(* frontend/app.js: the page's session, its two buttons and its polling,   *)
(* with the Platform it talks to (backend/api/session.py,                  *)
(* backend/api/collector_proxy.py).                                        *)
(*                                                                         *)
(* A handler runs without interruption up to its next await.  Calls in     *)
(* flight are served and answered in any order, and what the page reads    *)
(* after an await may have changed since it sent the call.  A poll asks    *)
(* for the latest result and for the statistics, and uses the one only if  *)
(* the other was answered too.  Rendering, device scans and the cached     *)
(* configuration are left out.                                             *)
(***************************************************************************)
EXTENDS Integers, Sequences, FiniteSets

CONSTANTS MaxShown,   \* results kept for display, 10 in the code
          MaxStarts,  \* bound: clicks on the start button
          MaxCalls,   \* bound: start and stop calls in flight
          MaxPolls,   \* bound: polls in flight
          MaxResults, \* bound: results of a session
          MaxCount    \* bound: results handled

ASSUME BoundsAssumption ==
    {MaxShown, MaxStarts, MaxCalls, MaxPolls, MaxResults, MaxCount} \subseteq Nat \ {0}

VARIABLES session,    \* S.session_id, 0 for null
          collecting, \* S.collecting
          loaded,     \* S.component_loaded
          connected,  \* S.collector_connected
          btnS, btnX, \* whether the start and the stop button are enabled
          polling,    \* _pollT and _pollCollectorT are set
          results,    \* S.results: labelled session, result and its session
          infCount,   \* S.inf_count
          calls,      \* start and stop calls in flight
          polls,      \* result polls in flight
          stats,      \* collector polls in flight
          live,       \* the Platform's sessions that are collecting
          made,       \* history: sessions the Platform has made
          latest,     \* the newest result of each session, 0 for none
          clicks,     \* history: clicks on the start button
          overlapped, \* history: a button was clicked while a call was in flight
          failed      \* history: a start or stop call failed

buttons == <<btnS, btnX>>
shown == <<results, infCount>>
inFlight == <<calls, polls, stats>>
platform == <<live, made, latest>>
history == <<clicks, overlapped, failed>>
vars == <<session, collecting, loaded, connected, buttons, polling, shown, inFlight,
          platform, history>>

Sessions == 1 .. MaxStarts
NoCall == [kind |-> "none", id |-> 0, state |-> "sent"]
NoPoll == [id |-> 0, result |-> -1, stats |-> "unknown"]

Init ==
    /\ session = 0 /\ collecting = FALSE /\ loaded = FALSE /\ connected = FALSE
    /\ btnS = FALSE /\ btnX = FALSE
    /\ polling = TRUE   \* init() starts it
    /\ results = <<>> /\ infCount = 0
    /\ calls = [k \in 1 .. MaxCalls |-> NoCall]
    /\ polls = [k \in 1 .. MaxPolls |-> NoPoll]
    /\ stats = 0
    /\ live = {} /\ made = 0
    /\ latest = [s \in Sessions |-> 0]
    /\ clicks = 0 /\ overlapped = FALSE /\ failed = FALSE

\* From the values the calling handler leaves.
UpdateButtonStates ==
    /\ btnS' = (~collecting' /\ loaded' /\ connected')
    /\ btnX' = collecting'
-----------------------------------------------------------------------------
(* Loading a component's schema and connecting the collector; nothing that *)
(* happens between their call and its answer makes a difference.           *)

LoadComponentSchema ==
    /\ loaded' = TRUE
    /\ UNCHANGED <<session, collecting, connected>>
    /\ UpdateButtonStates
    /\ UNCHANGED <<polling, shown, inFlight, platform, history>>

\* The proxy answers 200 whether or not the collector could connect.
ConnectCollector ==
    /\ connected' = TRUE
    /\ UNCHANGED <<session, collecting, loaded>>
    /\ UpdateButtonStates
    /\ UNCHANGED <<polling, shown, inFlight, platform, history>>
-----------------------------------------------------------------------------
(* The buttons. *)

Free == {k \in 1 .. MaxCalls : calls[k] = NoCall}

Send(call) ==
    /\ Free # {}
    /\ calls' = [calls EXCEPT ![CHOOSE k \in Free : TRUE] = call]
    /\ overlapped' = (overlapped \/ \E k \in 1 .. MaxCalls : calls[k] # NoCall)

StartSession ==
    /\ btnS /\ clicks < MaxStarts
    /\ btnS' = FALSE
    /\ Send([kind |-> "start", id |-> 0, state |-> "sent"])
    /\ clicks' = clicks + 1
    /\ UNCHANGED <<session, collecting, loaded, connected, btnX, polling, shown,
                   polls, stats, platform, failed>>

StopNull ==   \* faulty: the id is sent after the page dropped it
    /\ btnX /\ session # 0
    /\ btnX' = FALSE
    /\ Send([kind |-> "stop", id |-> 0, state |-> "sent"])
    /\ UNCHANGED <<session, collecting, loaded, connected, btnS, polling, shown,
                   polls, stats, platform, clicks, failed>>

StopSession ==
    /\ btnX /\ session # 0
    /\ btnX' = FALSE
    /\ Send([kind |-> "stop", id |-> session, state |-> "sent"])
    /\ UNCHANGED <<session, collecting, loaded, connected, btnS, polling, shown,
                   polls, stats, platform, clicks, failed>>

Answered(k, kind, state) ==
    /\ calls[k].kind = kind /\ calls[k].state = state
    /\ calls' = [calls EXCEPT ![k] = NoCall]

StartedUnpolled(k) ==   \* faulty: relies on the polling of init()
    /\ Answered(k, "start", "ok")
    /\ session' = calls[k].id
    /\ collecting' = TRUE
    /\ UNCHANGED <<loaded, connected, polling>>
    /\ UpdateButtonStates
    /\ UNCHANGED <<shown, polls, stats, platform, history>>

Started(k) ==
    /\ Answered(k, "start", "ok")
    /\ session' = calls[k].id
    /\ collecting' = TRUE
    /\ polling' = TRUE
    /\ UNCHANGED <<loaded, connected>>
    /\ UpdateButtonStates
    /\ UNCHANGED <<shown, polls, stats, platform, history>>

StartFailedQuietly(k) ==   \* faulty: the button stays disabled
    /\ Answered(k, "start", "failed")
    /\ UNCHANGED <<session, collecting, loaded, connected, buttons, polling, shown,
                   polls, stats, platform, history>>

StartFailed(k) ==
    /\ Answered(k, "start", "failed")
    /\ btnS' = TRUE
    /\ UNCHANGED <<session, collecting, loaded, connected, btnX, polling, shown,
                   polls, stats, platform, history>>

\* The page drops the session it has by now, also when the call failed.
Stopped(k) ==
    /\ \E state \in {"ok", "failed"} : Answered(k, "stop", state)
    /\ session' = 0 /\ collecting' = FALSE
    /\ results' = <<>> /\ infCount' = 0
    /\ polling' = FALSE
    /\ UNCHANGED <<loaded, connected>>
    /\ UpdateButtonStates
    /\ UNCHANGED <<polls, stats, platform, history>>
-----------------------------------------------------------------------------
(* Polling. *)

\* The timer fires; ticks without a session do nothing.
Poll ==
    /\ polling /\ session # 0 /\ collecting /\ infCount < MaxCount
    /\ \E k \in 1 .. MaxPolls :
          /\ polls[k] = NoPoll
          /\ polls' = [polls EXCEPT ![k].id = session]
    /\ UNCHANGED <<session, collecting, loaded, connected, buttons, polling, shown,
                   calls, stats, platform, history>>

\* Beyond MaxShown the oldest is popped.
Newest(s) == IF Len(s) > MaxShown THEN SubSeq(s, 1, MaxShown) ELSE s

\* Both answers are there: show the result, labelled with the present session.
HandleInferenceResult(k) ==
    /\ polls[k].result # -1 /\ polls[k].stats # "unknown"
    /\ polls' = [polls EXCEPT ![k] = NoPoll]
    /\ IF polls[k].result > 0 /\ polls[k].stats = "ok"
         THEN /\ infCount' = infCount + 1
              /\ results' = Newest(<<[label |-> session, of |-> polls[k].id,
                                       number |-> polls[k].result]>> \o results)
         ELSE UNCHANGED shown
    /\ UNCHANGED <<session, collecting, loaded, connected, buttons, polling,
                   calls, stats, platform, history>>

PollCollector ==
    /\ polling /\ stats < MaxPolls
    /\ stats' = stats + 1
    /\ UNCHANGED <<session, collecting, loaded, connected, buttons, polling, shown,
                   calls, polls, platform, history>>

HandleCollectorStats ==
    /\ stats > 0
    /\ stats' = stats - 1
    /\ UNCHANGED <<session, collecting, loaded, connected>>
    /\ UpdateButtonStates
    /\ UNCHANGED <<polling, shown, calls, polls, platform, history>>
-----------------------------------------------------------------------------
(* The Platform serves calls in any order.  A start or stop may fail, or   *)
(* be performed and its answer lost.                                       *)

Serve(k, kind, newLive) ==
    /\ calls[k].kind = kind /\ calls[k].state = "sent"
    /\ \/ /\ live' = newLive
          /\ made' = IF kind = "start" THEN made + 1 ELSE made
          /\ calls' = [calls EXCEPT ![k].state = "ok", ![k].id = IF @ = 0 THEN made' ELSE @]
          /\ UNCHANGED failed
       \/ /\ \/ live' = newLive /\ made' = IF kind = "start" THEN made + 1 ELSE made
             \/ UNCHANGED <<live, made>>
          /\ calls' = [calls EXCEPT ![k].state = "failed"]
          /\ failed' = TRUE
    /\ UNCHANGED <<session, collecting, loaded, connected, buttons, polling, shown,
                   polls, stats, latest, clicks, overlapped>>

ServeStart(k) == Serve(k, "start", live \cup {made + 1})

ServeStop(k) == Serve(k, "stop", live \ {calls[k].id})

\* latest_result keeps answering for a stopped session.
ServeLatestResult(k) ==
    /\ polls[k].id # 0 /\ polls[k].result = -1
    /\ polls' = [polls EXCEPT ![k].result = latest[polls[k].id]]
    /\ UNCHANGED <<session, collecting, loaded, connected, buttons, polling, shown,
                   calls, stats, platform, history>>

\* inference_stats does not: the framework is gone.
ServeInferenceStats(k) ==
    /\ polls[k].id # 0 /\ polls[k].stats = "unknown"
    /\ polls' = [polls EXCEPT ![k].stats = IF polls[k].id \in live THEN "ok" ELSE "error"]
    /\ UNCHANGED <<session, collecting, loaded, connected, buttons, polling, shown,
                   calls, stats, platform, history>>

NewResult(s) ==
    /\ s \in live /\ latest[s] < MaxResults
    /\ latest' = [latest EXCEPT ![s] = @ + 1]
    /\ UNCHANGED <<session, collecting, loaded, connected, buttons, polling, shown,
                   inFlight, live, made, history>>
-----------------------------------------------------------------------------
User == LoadComponentSchema \/ ConnectCollector \/ StartSession \/ StopSession

CallStep(k) ==
    \/ ServeStart(k) \/ ServeStop(k)
    \/ Started(k) \/ StartFailed(k) \/ Stopped(k)

PollStep(k) == ServeLatestResult(k) \/ ServeInferenceStats(k) \/ HandleInferenceResult(k)

Next ==
    \/ User
    \/ \E k \in 1 .. MaxCalls : CallStep(k)
    \/ Poll \/ PollCollector \/ HandleCollectorStats
    \/ \E k \in 1 .. MaxPolls : PollStep(k)
    \/ \E s \in Sessions : NewResult(s)

Spec == Init /\ [][Next]_vars

\* Every start and stop call is served, if only by an error, and its answer is
\* handled.  Polls need not be answered, and the user need not do anything.
FairSpec == Spec /\ \A k \in 1 .. MaxCalls : WF_vars(CallStep(k))
-----------------------------------------------------------------------------
Calls == [kind : {"none", "start", "stop"}, id : 0 .. MaxStarts,
          state : {"sent", "ok", "failed"}]
Shown == [label : 0 .. MaxStarts, of : Sessions, number : 1 .. MaxResults]
Polls == [id : 0 .. MaxStarts, result : -1 .. MaxResults,
          stats : {"unknown", "ok", "error"}]

(* Type invariant. *)
TypeOK ==
    /\ session \in 0 .. MaxStarts /\ made \in 0 .. clicks /\ clicks \in 0 .. MaxStarts
    /\ {collecting, loaded, connected, btnS, btnX, polling, overlapped, failed}
          \subseteq BOOLEAN
    /\ results \in Seq(Shown) /\ infCount \in Nat
    /\ calls \in [1 .. MaxCalls -> Calls] /\ polls \in [1 .. MaxPolls -> Polls]
    /\ stats \in 0 .. MaxPolls
    /\ live \subseteq 1 .. made
    /\ latest \in [Sessions -> 0 .. MaxResults]

(* However answers are ordered, the page collects exactly when it has a    *)
(* session, and then it polls: the continuations of starts and stops that  *)
(* overlap set all of it or nothing (startSession 431-508, stopSession     *)
(* 523-553, startPolling 54-87).  And its table has a row for each result  *)
(* counted, up to ten (handleInferenceResult 96-102).                      *)
PageAgrees ==
    /\ TypeOK
    /\ collecting <=> session # 0
    /\ collecting => polling
    /\ Len(results) = IF infCount < MaxShown THEN infCount ELSE MaxShown

IsOurs(s) ==
    \/ s = session
    \/ \E k \in 1 .. MaxCalls : calls[k].id = s

(* As long as the user clicks no button while a call is in flight and no   *)
(* call fails, the page knows every session the Platform collects for, so  *)
(* that it can be stopped.                                                 *)
NoOrphanSession == ~overlapped /\ ~failed => \A s \in live : IsOurs(s)

(* Once a component is loaded and the collector connected, the user can    *)
(* again and again start or stop: no order of calls, failures and polls    *)
(* leaves both buttons disabled for ever (updateButtonStates 155-167 and   *)
(* the handlers that disable a button).                                    *)
ButtonsComeBack == []<>(loaded /\ connected => btnS \/ btnX)
=============================================================================
