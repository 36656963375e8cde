------------------------- MODULE InferenceFramework -------------------------
(***************************************************************************)
(* backend/inference/framework.py: one inference framework, its component  *)
(* and its inference threads, composed with the frame queue they read.     *)
(*                                                                         *)
(* Three kinds of threads take part: the platform's event loop calls       *)
(* load_component, start and stop (the controller, ctl); the receiver      *)
(* thread calls put_frame; every start() creates an inference thread.      *)
(* _lock is a plain, non-reentrant Lock.  Inference threads hold it only   *)
(* for one comparison, so only the controller's hold lasts over a step.    *)
(***************************************************************************)
EXTENDS Integers, Sequences, FiniteSets

CONSTANTS Components,  \* component instances that may be loaded
          Threads,     \* inference threads that start() may create
          None,        \* Python's None, none of these
          Frames, Capacity, MaxPuts  \* of the frame queue

VARIABLES component,   \* _component
          life,        \* what became of each component instance
          lock,        \* _lock: "free" or "controller"
          running,     \* _running
          thread,      \* _thread
          ctl,         \* where the controller's current call stands
          loading,     \* load_component's argument, None outside a call
          pc,          \* where each inference thread stands
          using,       \* the instance an inference thread is calling infer on
          inferred,    \* _inference_count
          errors,      \* history: error callbacks from inference threads
          discarded,   \* history: frames thrown away with no component loaded
          joinExpired, \* history: some join(timeout=5.0) gave up
          queue, received, dropped, open, wait, accepted, taken, out
                       \* of the frame queue; open is its _running flag

fwVars == <<component, life, lock, running, thread, ctl, loading>>
runVars == <<pc, using, inferred, errors, discarded>>
queueVars == <<queue, received, dropped, open, wait, accepted, taken, out>>
vars == <<component, life, lock, running, thread, ctl, loading, pc, using,
          inferred, errors, discarded, joinExpired,
          queue, received, dropped, open, wait, accepted, taken, out>>

\* The queue's get() callers are the inference threads.
Q == INSTANCE FrameQueue WITH Consumers <- Threads, running <- open

Init ==
    /\ component = None
    /\ life = [c \in Components |-> "new"]
    /\ lock = "free"
    /\ running = FALSE
    /\ thread = None
    /\ ctl = "idle"
    /\ loading = None
    /\ pc = [t \in Threads |-> "unborn"]
    /\ using = [t \in Threads |-> None]
    /\ inferred = 0
    /\ errors = 0
    /\ discarded = 0
    /\ joinExpired = FALSE
    /\ Q!Init
-----------------------------------------------------------------------------
(* The controller: load_component, start and stop.  update_config changes  *)
(* nothing in the code, so it has no action.                              *)

\* load_component() takes _lock.  With a component loaded it calls
\* unload_component(), which asks for the same lock again.
LoadEnter(c) ==
    /\ ctl = "idle" /\ lock = "free"
    /\ life[c] = "new"
    /\ lock' = "controller"
    /\ loading' = c
    /\ ctl' = IF component = None THEN "initialize" ELSE "reload"
    /\ UNCHANGED <<component, life, running, thread, joinExpired, runVars, queueVars>>

\* component_instance.initialize() returns, and the counters start again.
LoadOk ==
    /\ ctl = "initialize"
    /\ component' = loading
    /\ life' = [life EXCEPT ![loading] = "ready"]
    /\ inferred' = 0
    /\ lock' = "free" /\ ctl' = "idle" /\ loading' = None
    /\ UNCHANGED <<running, thread, joinExpired, pc, using, errors, discarded,
                   queueVars>>

\* component_instance.initialize() raises: error callback, return False.
LoadFails ==
    /\ ctl = "initialize"
    /\ life' = [life EXCEPT ![loading] = "failed"]
    /\ lock' = "free" /\ ctl' = "idle" /\ loading' = None
    /\ UNCHANGED <<component, running, thread, joinExpired, runVars, queueVars>>

\* start(): a second call while running returns at once.
Start ==
    /\ ctl = "idle"
    /\ ~running
    /\ \E t \in Threads :
          /\ pc[t] = "unborn"
          /\ thread' = t
          /\ pc' = [pc EXCEPT ![t] = "top"]
    /\ running' = TRUE
    /\ UNCHANGED <<component, life, lock, ctl, loading, joinExpired, using,
                   inferred, errors, discarded, queueVars>>

StopWithoutJoin ==   \* faulty: the component goes before the thread has ended
    /\ ctl = "idle"
    /\ running' = FALSE
    /\ Q!Stop
    /\ ctl' = "unload"
    /\ UNCHANGED <<component, life, lock, thread, loading, joinExpired, runVars>>

\* stop(): clear _running, stop the queue, then join if there is a thread.
StopEnter ==
    /\ ctl = "idle"
    /\ running' = FALSE
    /\ Q!Stop
    /\ ctl' = IF thread = None THEN "unload" ELSE "join"
    /\ UNCHANGED <<component, life, lock, thread, loading, joinExpired, runVars>>

JoinNothing ==   \* faulty: join() returns whether the thread has ended or not
    /\ ctl = "join"
    /\ thread' = None
    /\ ctl' = "unload"
    /\ UNCHANGED <<component, life, lock, running, loading, joinExpired, runVars, queueVars>>

\* stop(): _thread.join(timeout=5.0) returns because the thread ended.
JoinDone ==
    /\ ctl = "join"
    /\ pc[thread] = "done"
    /\ thread' = None
    /\ ctl' = "unload"
    /\ UNCHANGED <<component, life, lock, running, loading, joinExpired, runVars, queueVars>>

JoinForEver == FALSE   \* faulty: join() without a timeout

\* stop(): the join gives up after five seconds and the thread is forgotten.
JoinTimeout ==
    /\ ctl = "join"
    /\ pc[thread] # "done"
    /\ thread' = None
    /\ joinExpired' = TRUE
    /\ ctl' = "unload"
    /\ UNCHANGED <<component, life, lock, running, loading, runVars, queueVars>>

UnloadForgets ==   \* faulty: the component is dropped, release() not called
    /\ ctl \in {"unload", "reload"}
    /\ lock = "free"
    /\ component' = None
    /\ ctl' = IF ctl = "reload" THEN "initialize" ELSE "idle"
    /\ UNCHANGED <<life, lock, running, thread, loading, joinExpired, runVars, queueVars>>

\* unload_component(), from stop() or from load_component(); release() errors
\* are swallowed.  Called from load_component it continues with initialize.
Unload ==
    /\ ctl \in {"unload", "reload"}
    /\ lock = "free"
    /\ life' = IF component = None THEN life
               ELSE [life EXCEPT ![component] = "released"]
    /\ component' = None
    /\ ctl' = IF ctl = "reload" THEN "initialize" ELSE "idle"
    /\ UNCHANGED <<lock, running, thread, loading, joinExpired, runVars, queueVars>>

Controller ==
    \/ \E c \in Components : LoadEnter(c)
    \/ LoadOk
    \/ LoadFails
    \/ Start
    \/ StopEnter
    \/ JoinDone
    \/ JoinTimeout
    \/ Unload
-----------------------------------------------------------------------------
(* put_frame(), called by the receiver thread at any time, even after stop. *)

PutFrame(f) ==
    /\ Q!Put(f)
    /\ UNCHANGED <<fwVars, runVars, joinExpired>>
-----------------------------------------------------------------------------
(* The inference thread: _run_loop. *)

Goto(t, place) == pc' = [pc EXCEPT ![t] = place]

\* while self._running
Top(t) ==
    /\ pc[t] = "top"
    /\ Goto(t, IF running THEN "get" ELSE "done")
    /\ UNCHANGED <<fwVars, joinExpired, using, inferred, errors, discarded,
                   queueVars>>

GetFrameOrEnd(t) ==   \* faulty: break instead of continue when get() returns None
    /\ pc[t] = "get"
    /\ \/ Q!Get(t)
       \/ Q!GetNotified(t)
       \/ Q!WaitTimeout(t)
       \/ Q!GetTimedOut(t)
    /\ Goto(t, IF taken' # taken THEN "check"
               ELSE IF wait'[t] = "out" THEN "done"
               ELSE "get")
    /\ UNCHANGED <<fwVars, joinExpired, using, inferred, errors, discarded>>

\* frame = self._frame_queue.get(timeout=1.0); None means `continue`.
GetFrame(t) ==
    /\ pc[t] = "get"
    /\ \/ Q!Get(t)
       \/ Q!GetNotified(t)
       \/ Q!WaitTimeout(t)
       \/ Q!GetTimedOut(t)
    /\ Goto(t, IF taken' # taken THEN "check"
               ELSE IF wait'[t] = "out" THEN "top"
               ELSE "get")
    /\ UNCHANGED <<fwVars, joinExpired, using, inferred, errors, discarded>>

\* with self._lock: if self._component is None: continue
CheckComponent(t) ==
    /\ pc[t] = "check"
    /\ lock = "free"
    /\ IF component = None
         THEN Goto(t, "top") /\ discarded' = discarded + 1
         ELSE Goto(t, "call") /\ UNCHANGED discarded
    /\ UNCHANGED <<fwVars, joinExpired, using, inferred, errors, queueVars>>

\* self._component is read again, without the lock, to call infer(frame) on
\* it.  If it has become None the AttributeError goes to the error callback.
CallInfer(t) ==
    /\ pc[t] = "call"
    /\ IF component = None
         THEN Goto(t, "top") /\ errors' = errors + 1 /\ UNCHANGED using
         ELSE /\ Goto(t, "infer")
              /\ using' = [using EXCEPT ![t] = component]
              /\ UNCHANGED errors
    /\ UNCHANGED <<fwVars, joinExpired, inferred, discarded, queueVars>>

\* infer() returns: count it and hand the result to the result callback.
InferReturns(t) ==
    /\ pc[t] = "infer"
    /\ Goto(t, "top")
    /\ using' = [using EXCEPT ![t] = None]
    /\ inferred' = inferred + 1
    /\ UNCHANGED <<fwVars, joinExpired, errors, discarded, queueVars>>

\* infer() raises: error callback, next frame.
InferRaises(t) ==
    /\ pc[t] = "infer"
    /\ Goto(t, "top")
    /\ using' = [using EXCEPT ![t] = None]
    /\ errors' = errors + 1
    /\ UNCHANGED <<fwVars, joinExpired, inferred, discarded, queueVars>>

\* infer() never returns; the thread does nothing any more.
InferHangs(t) ==
    /\ pc[t] = "infer"
    /\ Goto(t, "hung")
    /\ UNCHANGED <<fwVars, joinExpired, using, inferred, errors, discarded, queueVars>>

RunLoop(t) ==
    \/ Top(t)
    \/ GetFrame(t)
    \/ CheckComponent(t)
    \/ CallInfer(t)
    \/ InferReturns(t)
    \/ InferRaises(t)
    \/ InferHangs(t)
-----------------------------------------------------------------------------
Next ==
    \/ Controller
    \/ \E f \in Frames : PutFrame(f)
    \/ \E t \in Threads : RunLoop(t)

Spec == Init /\ [][Next]_vars

\* stop() runs to its end once called, for its join has a timeout; and
\* initialize() is assumed to return.  An inference thread runs until it ends
\* or infer() hangs.  No call of the platform ever has to come.
Fairness ==
    /\ WF_vars(JoinDone \/ JoinTimeout)
    /\ WF_vars(Unload)
    /\ WF_vars(LoadOk \/ LoadFails)
    /\ \A t \in Threads : WF_vars(RunLoop(t))

FairSpec == Spec /\ Fairness
-----------------------------------------------------------------------------
(* Type invariant. *)
TypeOK ==
    /\ component \in Components \cup {None}
    /\ life \in [Components -> {"new", "ready", "failed", "released"}]
    /\ lock \in {"free", "controller"}
    /\ running \in BOOLEAN
    /\ thread \in Threads \cup {None}
    /\ ctl \in {"idle", "initialize", "reload", "join", "unload"}
    /\ loading \in Components \cup {None}
    /\ pc \in [Threads -> {"unborn", "top", "get", "check", "call", "infer", "hung", "done"}]
    /\ using \in [Threads -> Components \cup {None}]
    /\ \A t \in Threads : pc[t] \in {"infer", "hung"} <=> using[t] # None
    /\ inferred \in Nat
    /\ errors \in Nat
    /\ discarded \in Nat
    /\ joinExpired \in BOOLEAN
    /\ open \in BOOLEAN
    /\ wait \in [Threads -> Q!WaitStates]

(* Every initialised component is the one the framework holds, until it is *)
(* released: nothing the framework does loses track of one                 *)
(* (load_component 84-99, unload_component 103-110).                       *)
NoComponentLeak ==
    \A c \in Components : life[c] = "ready" <=> component = c

(* When stop() has returned, no inference thread of this framework is      *)
(* alive, so no result can be pushed for the stopped session; the only     *)
(* excuse is a join that gave up (stop, 141-149).                          *)
Alive(t) == pc[t] \notin {"unborn", "done"}

StopIsQuiescent ==
    ctl = "idle" /\ ~running /\ ~joinExpired =>
        \A t \in Threads : ~Alive(t)

(* A component is never released under a running infer() call, although    *)
(* infer() runs without the lock (164); again a join that gave up is the   *)
(* only excuse.                                                            *)
NoReleaseDuringInfer ==
    ~joinExpired =>
        \A t \in Threads : pc[t] \in {"infer", "hung"} => life[using[t]] = "ready"

(* At most one inference thread is alive, so _inference_count, which is    *)
(* incremented without a lock (167), has one writer.                       *)
SingleLoop ==
    ~joinExpired => \A t, u \in Threads : Alive(t) /\ Alive(u) => t = u

(* Neither a raising infer() nor a component that vanishes between check   *)
(* and call ends the inference thread (176-179).                           *)
LoopSurvives ==
    running => thread # None /\ pc[thread] # "done"

(* Together: there is a live inference thread when, and only when, the     *)
(* framework is running, and never more than one.                          *)
LoopsMatchState == TypeOK /\ StopIsQuiescent /\ SingleLoop /\ LoopSurvives

(* stop() returns even if infer() hangs (join has a timeout, 146).         *)
StopReturns == (ctl = "join") ~> (ctl = "idle")

(* Once stopped for good, every inference thread ends unless infer() hangs *)
(* or the controller has blocked itself, and _lock, in a second load.      *)
LoopsEnd ==
    \A t \in Threads :
        (~running /\ Alive(t)) ~>
            (running \/ ~Alive(t) \/ pc[t] = "hung" \/ ctl = "reload")

(* Together: stopping comes to an end, for the caller and for the thread.  *)
StopEnds == StopReturns /\ LoopsEnd

(* A frame put while the framework runs is not left in the queue (151-179),*)
(* with the same two excuses.                                              *)
FramesAreServed ==
    (queue # <<>> /\ running /\ open) ~>
        (queue = <<>> \/ ~running \/ pc[thread] = "hung" \/ ctl = "reload")
=============================================================================
