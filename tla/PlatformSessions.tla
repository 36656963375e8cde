--------------------------- MODULE PlatformSessions ---------------------------
(***************************************************************************)
(* backend/main.py: the session life cycle of the Platform, and the calls  *)
(* it makes to the collector service.                                      *)
(*                                                                         *)
(* The Platform is one asyncio event loop: a coroutine runs undisturbed    *)
(* from one await that really suspends to the next, and there any other    *)
(* coroutine may run.  start_session suspends in its HTTP calls and in the *)
(* pause between two TCP connection attempts, stop_session only in its     *)
(* HTTP call.  Every HTTP call has a timeout on the Platform's side only:  *)
(* the collector may still perform a call the Platform has given up.       *)
(*                                                                         *)
(* The collector is seen from here as the session it acquires for; its own *)
(* concurrency is the subject of module Collector, the framework's of      *)
(* InferenceFramework.                                                     *)
(***************************************************************************)
EXTENDS Integers, Sequences, FiniteSets, SequencesExt

CONSTANTS Sids,      \* session ids, one for every start request
          Requests,  \* concurrent stop requests
          Server,    \* the shutdown coroutine
          None

ASSUME ServerAssumption == Server \notin Requests
ASSUME NoneAssumption == None \notin Sids

VARIABLES pc,         \* where start_session stands for each id
          reply,      \* the answer to its outstanding HTTP call
          status,     \* _sessions: status, or "absent"
          order,      \* _sessions: its keys in insertion order
          framework,  \* the framework object made for each id
          frameworks, \* keys of _frameworks
          clients,    \* keys of _collector_io_client
          tasks,      \* stats tasks that are alive
          stopping,   \* per stop coroutine: the id it is stopping
          owner,      \* the id the collector acquires for
          late,       \* calls the Platform gave up that may still happen
          phase,      \* "up", "stopping" or "down"
          todo,       \* ids shutdown() has still to stop
          lost,       \* history: some HTTP call went without an answer
          raced       \* history: ids stopped while start_session was connecting

startVars == <<pc, reply>>
storeVars == <<status, order, framework, frameworks, clients, tasks>>
stopVars  == <<stopping, phase, todo, raced>>
vars == <<pc, reply, status, order, framework, frameworks, clients, tasks,
          stopping, owner, late, phase, todo, lost, raced>>

Coroutines == Requests \cup {Server}

Init ==
    /\ pc = [s \in Sids |-> "none"]
    /\ reply = [s \in Sids |-> "none"]
    /\ status = [s \in Sids |-> "absent"]
    /\ order = <<>>
    /\ framework = [s \in Sids |-> "none"]
    /\ frameworks = {}
    /\ clients = {}
    /\ tasks = {}
    /\ stopping = [k \in Coroutines |-> None]
    /\ owner = None
    /\ late = {}
    /\ phase = "up"
    /\ todo = <<>>
    /\ lost = FALSE
    /\ raced = {}
-----------------------------------------------------------------------------
(* start_session *)

\* The component is loaded, the inference thread started, and the first
\* start call posted.
StartSession(s) ==
    /\ phase = "up" /\ pc[s] = "none"
    /\ framework' = [framework EXCEPT ![s] = "running"]
    /\ pc' = [pc EXCEPT ![s] = "post"]
    /\ reply' = [reply EXCEPT ![s] = "awaited"]
    /\ UNCHANGED <<status, order, frameworks, clients, tasks, owner, late, lost, stopVars>>

\* The last part of start_session, from connect() returning: without a
\* connection the session is registered all the same.
Install(s, connected) ==
    /\ clients' = IF connected THEN clients \cup {s} ELSE clients
    /\ frameworks' = frameworks \cup {s}
    /\ tasks' = tasks \cup {s}
    /\ pc' = [pc EXCEPT ![s] = "done"]

\* The collector accepted: the session is stored.  The first TCP connection
\* attempt succeeds at once, or start_session pauses before the next one.
StartAccepted(s) ==
    /\ pc[s] \in {"post", "repost"} /\ reply[s] = "success"
    /\ status' = [status EXCEPT ![s] = "running"]
    /\ order' = Append(order, s)
    /\ reply' = [reply EXCEPT ![s] = "none"]
    /\ \/ Install(s, TRUE)
       \/ /\ pc' = [pc EXCEPT ![s] = "connect"]
          /\ UNCHANGED <<clients, frameworks, tasks>>
    /\ UNCHANGED <<framework, owner, late, lost, stopVars>>

\* A later attempt succeeds, or the third one fails.
Connected(s) ==
    /\ pc[s] = "connect"
    /\ \E connected \in BOOLEAN : Install(s, connected)
    /\ UNCHANGED <<reply, status, order, framework, owner, late, lost, stopVars>>

StartConflictsAgain(s) ==   \* faulty: every 409 is answered by a reset
    /\ pc[s] \in {"post", "repost"} /\ reply[s] = "conflict"
    /\ pc' = [pc EXCEPT ![s] = "reset"]
    /\ reply' = [reply EXCEPT ![s] = "awaited"]
    /\ UNCHANGED <<storeVars, owner, late, lost, stopVars>>

\* HTTP 409 to the first post: reset the collector and post once more.
StartConflicts(s) ==
    /\ pc[s] = "post" /\ reply[s] = "conflict"
    /\ pc' = [pc EXCEPT ![s] = "reset"]
    /\ reply' = [reply EXCEPT ![s] = "awaited"]
    /\ UNCHANGED <<storeVars, owner, late, lost, stopVars>>

ResetReturns(s) ==
    /\ pc[s] = "reset" /\ reply[s] = "success"
    /\ pc' = [pc EXCEPT ![s] = "repost"]
    /\ reply' = [reply EXCEPT ![s] = "awaited"]
    /\ UNCHANGED <<storeVars, owner, late, lost, stopVars>>

\* Any other answer, or a second 409: start_session returns an error.
StartRefused(s) ==
    /\ \/ pc[s] \in {"post", "repost"} /\ reply[s] = "refused"
       \/ pc[s] = "repost" /\ reply[s] = "conflict"
    /\ pc' = [pc EXCEPT ![s] = "failed"]
    /\ reply' = [reply EXCEPT ![s] = "none"]
    /\ UNCHANGED <<storeVars, owner, late, lost, stopVars>>
-----------------------------------------------------------------------------
(* stop_session and shutdown *)

StopBodyKeepsFramework(k, s) ==   \* faulty: _frameworks keeps its entry
    /\ status[s] # "absent"
    /\ tasks' = tasks \ {s}
    /\ framework' = IF s \in frameworks
                    THEN [framework EXCEPT ![s] = "stopped"] ELSE framework
    /\ clients' = clients \ {s}
    /\ status' = [status EXCEPT ![s] = "stopped"]
    /\ stopping' = [stopping EXCEPT ![k] = s]
    /\ raced' = IF pc[s] = "connect" THEN raced \cup {s} ELSE raced
    /\ UNCHANGED <<startVars, order, frameworks, owner, late, phase, lost>>

\* stop_session up to its HTTP call, which is the first suspension: tear the
\* session down, then post the stop.  Stopping a stopped session is allowed.
StopBody(k, s) ==
    /\ status[s] # "absent"
    /\ tasks' = tasks \ {s}
    /\ framework' = IF s \in frameworks
                    THEN [framework EXCEPT ![s] = "stopped"] ELSE framework
    /\ frameworks' = frameworks \ {s}
    /\ clients' = clients \ {s}
    /\ status' = [status EXCEPT ![s] = "stopped"]
    /\ stopping' = [stopping EXCEPT ![k] = s]
    /\ raced' = IF pc[s] = "connect" THEN raced \cup {s} ELSE raced
    /\ UNCHANGED <<startVars, order, owner, late, phase, lost>>

StopSession(k, s) ==
    /\ phase = "up" /\ stopping[k] = None
    /\ StopBody(k, s)
    /\ UNCHANGED todo

ShutdownOfRunning ==   \* faulty: only sessions marked running are stopped
    /\ phase = "up"
    /\ \A s \in Sids : pc[s] \in {"none", "done", "failed"}
    /\ \A k \in Requests : stopping[k] = None
    /\ phase' = "stopping"
    /\ todo' = SelectSeq(order, LAMBDA s : status[s] = "running")
    /\ UNCHANGED <<startVars, storeVars, stopping, owner, late, lost, raced>>

\* The server lets requests finish before it runs shutdown(), which stops
\* the sessions it finds one after the other.
BeginShutdown ==
    /\ phase = "up"
    /\ \A s \in Sids : pc[s] \in {"none", "done", "failed"}
    /\ \A k \in Requests : stopping[k] = None
    /\ phase' = "stopping"
    /\ todo' = order
    /\ UNCHANGED <<startVars, storeVars, stopping, owner, late, lost, raced>>

ShutdownStops ==
    /\ phase = "stopping" /\ stopping[Server] = None /\ todo # <<>>
    /\ StopBody(Server, Head(todo))
    /\ todo' = Tail(todo)

EndShutdown ==
    /\ phase = "stopping" /\ stopping[Server] = None /\ todo = <<>>
    /\ phase' = "down"
    /\ UNCHANGED <<startVars, storeVars, stopping, owner, late, lost, todo, raced>>
-----------------------------------------------------------------------------
(* The collector performs a call, and the Platform gets its answer or not. *)

\* A start (force=True) replaces whatever is acquired; 409 means the device
\* could not be opened after that; other refusals come before or after it.
StartEffect(s, answer) ==
    CASE answer = "success"  -> owner' = s
      [] answer = "conflict" -> owner' = None
      [] answer = "refused"  -> owner' \in {owner, None}

Answers == {"success", "conflict", "refused"}

StopUnknown(s) == UNCHANGED owner   \* faulty: the Platform's own id is sent

\* A stop names the id the collector assigned; any other one is refused (404).
StopEffect(s) == owner' = IF owner = s THEN None ELSE owner

CollectorStarts(s) ==
    /\ pc[s] \in {"post", "repost"} /\ reply[s] = "awaited"
    /\ \E answer \in Answers :
          /\ StartEffect(s, answer)
          /\ reply' = [reply EXCEPT ![s] = answer]
    /\ UNCHANGED <<pc, storeVars, late, lost, stopVars>>

CollectorResets(s) ==
    /\ pc[s] = "reset" /\ reply[s] = "awaited"
    /\ owner' = None
    /\ reply' = [reply EXCEPT ![s] = "success"]
    /\ UNCHANGED <<pc, storeVars, late, lost, stopVars>>

\* The collector answers and stop_session returns.
CollectorStops(k) ==
    /\ stopping[k] # None
    /\ StopEffect(stopping[k])
    /\ stopping' = [stopping EXCEPT ![k] = None]
    /\ UNCHANGED <<startVars, storeVars, late, lost, phase, todo, raced>>

\* The call times out, is refused, or its answer is lost: it may happen
\* later, or never, or has happened.
GiveUp(op, s) ==
    /\ lost' = TRUE
    /\ late' \in {late, late \cup {[op |-> op, sid |-> s]}}

\* A failed start call fails the session; a failed reset call is ignored.
StartCallFails(s) ==
    /\ reply[s] # "none"
    /\ IF pc[s] = "reset"
         THEN /\ GiveUp("reset", s)
              /\ pc' = [pc EXCEPT ![s] = "repost"]
              /\ reply' = [reply EXCEPT ![s] = "awaited"]
         ELSE /\ GiveUp("start", s)
              /\ pc' = [pc EXCEPT ![s] = "failed"]
              /\ reply' = [reply EXCEPT ![s] = "none"]
    /\ UNCHANGED <<storeVars, owner, stopVars>>

\* A failed stop call is only logged.
StopCallFails(k) ==
    /\ stopping[k] # None
    /\ GiveUp("stop", stopping[k])
    /\ stopping' = [stopping EXCEPT ![k] = None]
    /\ UNCHANGED <<startVars, storeVars, owner, phase, todo, raced>>

\* The collector gets round to a call that was given up.
LateCall ==
    /\ \E c \in late :
          /\ late' = late \ {c}
          /\ CASE c.op = "start" -> \E answer \in Answers : StartEffect(c.sid, answer)
               [] c.op = "stop"  -> StopEffect(c.sid)
               [] c.op = "reset" -> owner' = None
    /\ UNCHANGED <<startVars, storeVars, lost, stopVars>>
-----------------------------------------------------------------------------
StartStep(s) ==
    \/ CollectorStarts(s)
    \/ CollectorResets(s)
    \/ StartCallFails(s)
    \/ StartAccepted(s)
    \/ StartConflicts(s)
    \/ ResetReturns(s)
    \/ StartRefused(s)
    \/ Connected(s)

StopStep(k) == CollectorStops(k) \/ StopCallFails(k)

Next ==
    \/ \E s \in Sids : StartSession(s) \/ StartStep(s)
    \/ \E k \in Requests, s \in Sids : StopSession(k, s)
    \/ \E k \in Coroutines : StopStep(k)
    \/ BeginShutdown
    \/ ShutdownStops
    \/ EndShutdown
    \/ LateCall

Spec == Init /\ [][Next]_vars

\* A request that was begun goes on: each HTTP call is answered or times out
\* and each pause between connection attempts ends.  No request has to come.
Fairness ==
    /\ \A s \in Sids : WF_vars(StartStep(s))
    /\ \A k \in Coroutines : WF_vars(StopStep(k))
    /\ WF_vars(ShutdownStops) /\ WF_vars(EndShutdown)

FairSpec == Spec /\ Fairness
-----------------------------------------------------------------------------
(* Type invariant. *)
TypeOK ==
    /\ pc \in [Sids -> {"none", "post", "reset", "repost", "connect", "done", "failed"}]
    /\ reply \in [Sids -> {"none", "awaited"} \cup Answers]
    /\ status \in [Sids -> {"absent", "running", "stopped"}]
    /\ order \in Seq(Sids)
    /\ framework \in [Sids -> {"none", "running", "stopped"}]
    /\ frameworks \subseteq Sids /\ clients \subseteq Sids /\ tasks \subseteq Sids
    /\ stopping \in [Coroutines -> Sids \cup {None}]
    /\ owner \in Sids \cup {None}
    /\ late \subseteq [op : {"start", "stop", "reset"}, sid : Sids]
    /\ phase \in {"up", "stopping", "down"}
    /\ todo \in Seq(Sids)
    /\ lost \in BOOLEAN
    /\ raced \subseteq Sids

Quiet ==
    /\ \A s \in Sids : pc[s] \in {"none", "connect", "done", "failed"}
    /\ \A k \in Coroutines : stopping[k] = None

(* The collector never acquires for a session the Platform does not hold:  *)
(* when no HTTP call is under way and none was lost, the session it        *)
(* acquires for is stored and running, whatever starts, resets and stops   *)
(* of other sessions overlapped (start_session 329-347, _collector_start   *)
(* 663-717, _collector_stop 719-726).                                      *)
NoOrphanAcquisition ==
    Quiet /\ ~lost => owner = None \/ status[owner] = "running"

(* The four tables tell the same story: outside the connecting phase a     *)
(* session is running exactly if its framework is registered, alive and    *)
(* reporting, and only such a session has a data client.  The exception,   *)
(* a stop that overtakes the connecting start, is run platform_overtake.   *)
TablesAgree ==
    /\ TypeOK
    /\ \A s \in Sids \ raced : pc[s] # "connect" =>
          /\ s \in frameworks <=> status[s] = "running"
          /\ s \in tasks <=> s \in frameworks
          /\ s \in clients => s \in frameworks
          /\ s \in frameworks => framework[s] = "running"

(* shutdown() leaves nothing behind, even of a session whose stop had      *)
(* overtaken its start, and the collector idle unless a call was lost      *)
(* (shutdown 102-109).                                                     *)
ShutdownReleases ==
    phase = "down" =>
        /\ frameworks = {} /\ clients = {} /\ tasks = {}
        /\ lost \/ owner = None

(* Every start, stop and shutdown is answered, with the collector          *)
(* unresponsive or not: calls have timeouts and a conflict is retried once.*)
EveryRequestEnds ==
    /\ \A s \in Sids : (pc[s] # "none") ~> (pc[s] \in {"done", "failed"})
    /\ \A k \in Coroutines : (stopping[k] # None) ~> (stopping[k] = None)
    /\ (phase = "stopping") ~> (phase = "down")

(* stop_session ends the periodic statistics push (410): once start and    *)
(* stop of a session are through, a stopped session has no stats task.     *)
StoppedIsSilent ==
    \A s \in Sids : status[s] = "stopped" /\ pc[s] = "done" => s \notin tasks
=============================================================================
