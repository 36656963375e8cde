----------------------------- MODULE FrameQueue -----------------------------
(***************************************************************************)
(* backend/inference/frame_queue.py: the bounded buffer between the thread *)
(* that receives IQ frames and the inference thread.                       *)
(*                                                                         *)
(* Every method body runs inside `with self._lock`, so a method is one     *)
(* action, except that get() gives the lock up inside Condition.wait and   *)
(* continues in a later step, after a notify or after its timeout.         *)
(*                                                                         *)
(* accepted, taken and out are history variables: the code keeps no such   *)
(* record, the properties are stated with them.                            *)
(***************************************************************************)
EXTENDS Integers, Sequences, FiniteSets

CONSTANTS Frames,      \* what a producer may put (the payload is opaque)
          Consumers,   \* threads that may call get()
          Capacity,    \* FrameQueue(capacity=...)
          MaxPuts      \* bound: puts between two resets

ASSUME CapacityAssumption == Capacity \in Nat \ {0}
ASSUME MaxPutsAssumption == MaxPuts \in Nat

VARIABLES queue,       \* _queue, oldest first
          received,    \* _stats.frames_received
          dropped,     \* _stats.frames_dropped
          running,     \* _running
          wait,        \* per consumer: where it stands in Condition.wait
          accepted,    \* history: frames put since the last reset
          taken,       \* history: number of them handed out by get()
          out          \* history: the last frame handed out, as a 1-tuple

queueVars == <<queue, received, dropped, accepted>>
readVars  == <<taken, out>>
vars == <<queue, received, dropped, running, wait, accepted, taken, out>>

\* "out"      not inside get()
\* "blocked"  in wait(), registered and asleep
\* "notified" in wait(), woken by a notify
\* "expired"  in wait(), timed out but still registered as a waiter
\* "ignored"  in wait(), timed out, and a notify has been spent on it
WaitStates == {"out", "blocked", "notified", "expired", "ignored"}

Blocked == {c \in Consumers : wait[c] = "blocked"}
Registered == {c \in Consumers : wait[c] \in {"blocked", "expired"}}

Init ==
    /\ queue = <<>>
    /\ received = 0
    /\ dropped = 0
    /\ running = TRUE
    /\ wait = [c \in Consumers |-> "out"]
    /\ accepted = <<>>
    /\ taken = 0
    /\ out = <<>>

\* What a notify does to the waiter it is spent on.
Poked(w) == CASE w = "blocked" -> "notified"
              [] w = "expired" -> "ignored"
              [] OTHER -> w

\* Condition.notify: spent on one registered waiter, if there is one.  A
\* thread whose timeout has fired stays registered until it re-acquires the
\* lock, so it can use up the notification.
NotifyNobody == UNCHANGED wait   \* faulty: put() without its notify

NotifyOne ==
    IF Registered = {}
      THEN UNCHANGED wait
      ELSE \E c \in Registered : wait' = [wait EXCEPT ![c] = Poked(@)]

FullTooLate == Len(queue) > Capacity   \* faulty: off by one

Full == Len(queue) >= Capacity

\* put(): never blocks and never looks at _running.
Put(f) ==
    /\ Len(accepted) < MaxPuts
    /\ IF Full
         THEN /\ dropped' = dropped + 1
              /\ queue' = Append(Tail(queue), f)
         ELSE /\ queue' = Append(queue, f)
              /\ UNCHANGED dropped
    /\ received' = received + 1
    /\ accepted' = Append(accepted, f)
    /\ NotifyOne
    /\ UNCHANGED <<running, taken, out>>

PopNewest ==   \* faulty: pop() instead of popleft()
    /\ queue # <<>>
    /\ queue' = SubSeq(queue, 1, Len(queue) - 1)
    /\ taken' = taken + 1
    /\ out' = <<queue[Len(queue)]>>
    /\ UNCHANGED <<received, dropped, accepted>>

\* popleft() and return the frame to the caller.
PopLeft ==
    /\ queue # <<>>
    /\ queue' = Tail(queue)
    /\ taken' = taken + 1
    /\ out' = <<Head(queue)>>
    /\ UNCHANGED <<received, dropped, accepted>>

\* get() holding the lock, at the head of its while loop: block on an empty
\* queue, return None from a stopped one, otherwise take the oldest frame.
GetBody(c) ==
    \/ /\ queue = <<>> /\ running
       /\ wait' = [wait EXCEPT ![c] = "blocked"]
       /\ UNCHANGED <<queueVars, readVars>>
    \/ /\ ~running
       /\ wait' = [wait EXCEPT ![c] = "out"]
       /\ UNCHANGED <<queueVars, readVars>>
    \/ /\ running
       /\ PopLeft
       /\ wait' = [wait EXCEPT ![c] = "out"]

\* get() is called.
Get(c) ==
    /\ wait[c] = "out"
    /\ GetBody(c)
    /\ UNCHANGED running

\* get(): wait() returned True, the loop condition is evaluated again.
GetNotified(c) ==
    /\ wait[c] = "notified"
    /\ GetBody(c)
    /\ UNCHANGED running

\* The timeout of wait() fires while the thread is asleep.
WaitTimeout(c) ==
    /\ wait[c] = "blocked"
    /\ wait' = [wait EXCEPT ![c] = "expired"]
    /\ UNCHANGED <<queueVars, running, readVars>>

\* get(): wait() returned False.  None is returned without another look at
\* the queue, even if a frame arrived before the lock was re-acquired.
GetTimedOut(c) ==
    /\ wait[c] \in {"expired", "ignored"}
    /\ wait' = [wait EXCEPT ![c] = "out"]
    /\ UNCHANGED <<queueVars, running, readVars>>

\* get_nowait(): takes a frame even from a stopped queue.
GetNowait ==
    /\ PopLeft
    /\ UNCHANGED <<running, wait>>

ResetCountersOnly ==   \* faulty: the frames stay queued
    /\ received' = 0 /\ dropped' = 0
    /\ accepted' = <<>> /\ taken' = 0
    /\ UNCHANGED <<queue, running, wait, out>>

\* reset(): clears frames and counters in one critical section.
Reset ==
    /\ queue' = <<>>
    /\ received' = 0
    /\ dropped' = 0
    /\ accepted' = <<>>
    /\ taken' = 0
    /\ UNCHANGED <<running, wait, out>>

StopNotifyingOne ==   \* faulty: notify() instead of notify_all()
    /\ running' = FALSE
    /\ NotifyOne
    /\ UNCHANGED <<queueVars, readVars>>

\* stop(): notify_all pokes every waiter; _running is never set again.
Stop ==
    /\ running' = FALSE
    /\ wait' = [c \in Consumers |-> Poked(wait[c])]
    /\ UNCHANGED <<queueVars, readVars>>

Next ==
    \/ \E f \in Frames : Put(f)
    \/ \E c \in Consumers :
          \/ Get(c)
          \/ GetNotified(c)
          \/ WaitTimeout(c)
          \/ GetTimedOut(c)
    \/ GetNowait
    \/ Reset
    \/ Stop

Spec == Init /\ [][Next]_vars

\* A woken thread re-acquires the lock and runs on: every critical section is
\* short and bounded.  Nothing else is assumed: no producer has to produce, no
\* timeout has to fire.
WakeFairness ==
    \A c \in Consumers : WF_vars(GetNotified(c)) /\ WF_vars(GetTimedOut(c))

FairSpec == Spec /\ WakeFairness
-----------------------------------------------------------------------------
(* Type invariant. *)
TypeOK ==
    /\ queue \in Seq(Frames)
    /\ received \in Nat
    /\ dropped \in Nat
    /\ running \in BOOLEAN
    /\ wait \in [Consumers -> WaitStates]
    /\ accepted \in Seq(Frames)
    /\ taken \in Nat
    /\ out \in {<<>>} \cup {<<f>> : f \in Frames}

(* No frame is lost or counted twice: every frame put since the last reset *)
(* was handed out, was counted in frames_dropped, or is still queued, and  *)
(* the queue never outgrows its capacity (put/get/reset, lines 45-105).    *)
Conservation ==
    /\ received = Len(accepted)
    /\ received = dropped + taken + Len(queue)
    /\ Len(queue) <= Capacity

(* The queue holds exactly the newest frames, in the order they were put:  *)
(* whatever interleaving of put, get and get_nowait happened, a frame can  *)
(* only be missing if it is older than every queued one.                   *)
FreshestRetained ==
    queue = SubSeq(accepted, dropped + taken + 1, Len(accepted))

(* No lost wake-up: while a frame is queued, not all consumers sleep in    *)
(* Condition.wait (put notifies under the lock, line 61), and nobody       *)
(* sleeps in a stopped queue (notify_all, line 111).                       *)
NoLostWakeup ==
    /\ queue # <<>> /\ Consumers # {} => Blocked # Consumers
    /\ ~running => Blocked = {}

(* A thread inside get() when the queue is stopped returns, without        *)
(* relying on its timeout (stop, lines 107-111).                           *)
StopReleasesWaiters ==
    \A c \in Consumers : (~running /\ wait[c] # "out") ~> wait[c] = "out"

(* The queue implements the retention log: the log is what was accepted,   *)
(* the cursor stands behind the dropped and the delivered frames.          *)
Log == INSTANCE RetentionLog WITH
          log <- accepted, cursor <- dropped + taken, lost <- dropped

ImplementsLog == Log!LogSpec
=============================================================================
