------------------------ MODULE PlatformSessionsProofs ------------------------
(***************************************************************************)
(* What holds of the Platform's sessions for any number of start and stop  *)
(* requests: the tables agree, nothing is acquired for a session the       *)
(* Platform does not hold, and shutdown() leaves nothing behind.           *)
(*                                                                         *)
(* None of the three is inductive.  Each needs to know what the tables     *)
(* hold while start_session is still under way (StartInv), and what of the *)
(* collector's acquisition an outstanding call accounts for (OwnerInv).    *)
(***************************************************************************)
EXTENDS PlatformSessions, SequenceTheorems, TLAPS

\* Before the collector has accepted, a session is in no table.
StartInv ==
    \A s \in Sids :
        /\ pc[s] \in {"none", "post", "reset", "repost", "failed"} =>
              status[s] = "absent" /\ s \notin frameworks \cup clients \cup tasks
        /\ pc[s] \in {"post", "reset", "repost", "connect"} /\ s \notin raced =>
              framework[s] = "running"
        /\ pc[s] = "connect" =>
              /\ s \notin frameworks \cup clients \cup tasks
              /\ status[s] \in {"running", "stopped"}
              /\ s \notin raced => status[s] = "running"
        /\ pc[s] = "done" => status[s] \in {"running", "stopped"}
        /\ s \in raced => pc[s] \in {"connect", "done"}
        /\ reply[s] # "none" => pc[s] \in {"post", "reset", "repost"}

\* As long as no call was lost, the collector acquires for a session that is
\* running, about to be stored, or being stopped.
OwnerInv ==
    ~lost =>
        /\ late = {}
        /\ owner # None =>
              \/ status[owner] = "running"
              \/ pc[owner] \in {"post", "repost"} /\ reply[owner] = "success"
              \/ \E k \in Coroutines : stopping[k] = owner

\* What shutdown() has not stopped yet is on its list.
StoredInv ==
    \A s \in Sids : status[s] # "absent" => \E i \in 1 .. Len(order) : order[i] = s

Left == frameworks \cup clients \cup tasks \cup {s \in Sids : status[s] = "running"}

ShutdownInv ==
    phase # "up" =>
        /\ \A s \in Sids : pc[s] \in {"none", "done", "failed"}
        /\ \A k \in Requests : stopping[k] = None
        /\ \A s \in Left : \E i \in 1 .. Len(todo) : todo[i] = s
        /\ phase = "down" => todo = <<>> /\ stopping[Server] = None

IInv == TablesAgree /\ StartInv /\ OwnerInv /\ StoredInv /\ ShutdownInv
-----------------------------------------------------------------------------
LEMMA InitInv == Init => IInv
<1> SUFFICES ASSUME Init PROVE IInv
  OBVIOUS
<1>1. TypeOK
  <2>1. order \in Seq(Sids) /\ todo \in Seq(Sids)
    BY EmptySeq DEF Init
  <2>2. late \subseteq [op : {"start", "stop", "reset"}, sid : Sids]
    BY DEF Init
  <2>3. stopping \in [Coroutines -> Sids \cup {None}]
    BY DEF Init
  <2> QED
    BY <2>1, <2>2, <2>3 DEF Init, TypeOK, Answers
<1>2. IInv
  BY <1>1 DEF Init, IInv, TablesAgree, StartInv, OwnerInv, StoredInv, ShutdownInv
<1> QED
  BY <1>2

\* A call without answer is remembered, or not.
LEMMA GiveUpType ==
  ASSUME TypeOK, NEW op \in {"start", "stop", "reset"}, NEW s \in Sids, GiveUp(op, s)
  PROVE  /\ lost' = TRUE
         /\ late' \subseteq [op : {"start", "stop", "reset"}, sid : Sids]
<1>1. [op |-> op, sid |-> s] \in [op : {"start", "stop", "reset"}, sid : Sids]
  OBVIOUS
<1> QED
  BY <1>1 DEF GiveUp, TypeOK

LEMMA TypeStep == TypeOK /\ [Next]_vars => TypeOK'
<1> SUFFICES ASSUME TypeOK, [Next]_vars
             PROVE  TypeOK'
  OBVIOUS
<1> USE DEF TypeOK, Answers, storeVars, stopVars, startVars
<1>1. ASSUME NEW s \in Sids, StartSession(s)
      PROVE  TypeOK'
  BY <1>1 DEF StartSession
<1>2. ASSUME NEW s \in Sids, StartStep(s)
      PROVE  TypeOK'
  <2>1. CASE CollectorStarts(s)
    BY <2>1 DEF CollectorStarts, StartEffect
  <2>2. CASE CollectorResets(s)
    BY <2>2 DEF CollectorResets
  <2>3. CASE StartCallFails(s)
    <3>1. lost' = TRUE /\ late' \subseteq [op : {"start", "stop", "reset"}, sid : Sids]
      BY <2>3, GiveUpType DEF StartCallFails
    <3> QED
      BY <2>3, <3>1 DEF StartCallFails
  <2>4. CASE StartAccepted(s)
    <3>1. order' \in Seq(Sids)
      BY <2>4 DEF StartAccepted
    <3> QED
      BY <2>4, <3>1 DEF StartAccepted, Install
  <2>5. CASE StartConflicts(s) \/ ResetReturns(s) \/ StartRefused(s)
    BY <2>5 DEF StartConflicts, ResetReturns, StartRefused
  <2>6. CASE Connected(s)
    BY <2>6 DEF Connected, Install
  <2> QED
    BY <1>2, <2>1, <2>2, <2>3, <2>4, <2>5, <2>6 DEF StartStep
<1>3. ASSUME NEW k \in Requests, NEW s \in Sids, StopSession(k, s)
      PROVE  TypeOK'
  BY <1>3 DEF StopSession, StopBody, Coroutines
<1>4. ASSUME NEW k \in Coroutines, StopStep(k)
      PROVE  TypeOK'
  <2>1. CASE CollectorStops(k)
    BY <2>1 DEF CollectorStops, StopEffect
  <2>2. CASE StopCallFails(k)
    <3>1. lost' = TRUE /\ late' \subseteq [op : {"start", "stop", "reset"}, sid : Sids]
      BY <2>2, GiveUpType DEF StopCallFails
    <3> QED
      BY <2>2, <3>1 DEF StopCallFails
  <2> QED
    BY <1>4, <2>1, <2>2 DEF StopStep
<1>5. CASE BeginShutdown \/ EndShutdown
  BY <1>5 DEF BeginShutdown, EndShutdown
<1>6. CASE ShutdownStops
  <2>1. Head(todo) \in Sids /\ Tail(todo) \in Seq(Sids)
    BY <1>6 DEF ShutdownStops
  <2> QED
    BY <1>6, <2>1 DEF ShutdownStops, StopBody, Coroutines
<1>7. CASE LateCall
  BY <1>7 DEF LateCall, StartEffect, StopEffect
<1>8. CASE UNCHANGED vars
  BY <1>8 DEF vars
<1> QED
  BY <1>1, <1>2, <1>3, <1>4, <1>5, <1>6, <1>7, <1>8 DEF Next
-----------------------------------------------------------------------------
\* A teardown, by a request or by shutdown(), is one step of every table.
LEMMA StopBodyKeeps ==
  ASSUME IInv, TypeOK', NEW k \in Coroutines, NEW q \in Sids,
         StopBody(k, q), stopping[k] = None
  PROVE  TablesAgree' /\ StartInv' /\ OwnerInv' /\ StoredInv'
<1> USE DEF IInv, TablesAgree, TypeOK, StopBody, startVars
<1>1. TablesAgree'
  BY DEF StartInv
<1>2. StartInv'
  BY DEF StartInv
<1>3. OwnerInv'
  BY DEF OwnerInv
<1>4. StoredInv'
  BY DEF StoredInv
<1> QED
  BY <1>1, <1>2, <1>3, <1>4

\* The steps of start_session and of the collector's answers.
LEMMA StartKeeps ==
  ASSUME IInv, TypeOK', NEW q \in Sids, StartSession(q) \/ StartStep(q)
  PROVE  TablesAgree' /\ StartInv' /\ OwnerInv' /\ StoredInv'
<1> USE DEF IInv, TablesAgree, TypeOK, storeVars, stopVars, startVars, Answers
<1>1. CASE StartSession(q)
  BY <1>1, NoneAssumption DEF StartSession, StartInv, OwnerInv, StoredInv
<1>2. CASE CollectorStarts(q)
  <2>1. PICK answer \in Answers : StartEffect(q, answer) /\ reply' = [reply EXCEPT ![q] = answer]
    BY <1>2 DEF CollectorStarts
  <2>2. /\ pc[q] \in {"post", "repost"} /\ reply[q] = "awaited"
        /\ pc' = pc /\ UNCHANGED <<storeVars, late, lost, stopVars>>
    BY <1>2 DEF CollectorStarts
  <2> HIDE DEF Answers
  <2>3. OwnerInv'
    <3>1. CASE owner' = q /\ answer = "success"
      BY <2>1, <2>2, <3>1 DEF OwnerInv
    <3>2. CASE owner' \in {owner, None}
      <4>1. \/ owner # q \/ lost \/ status[q] = "running"
            \/ \E k \in Coroutines : stopping[k] = q
        BY <2>2, NoneAssumption DEF OwnerInv
      <4>2. \A s \in Sids : s # q => reply'[s] = reply[s]
        BY <2>1
      <4> QED
        BY <2>2, <3>2, <4>1, <4>2 DEF OwnerInv
    <3> QED
      BY <2>1, <3>1, <3>2 DEF StartEffect, Answers
  <2>4. TablesAgree' /\ StartInv' /\ StoredInv'
    BY <2>1, <2>2 DEF StartInv, StoredInv
  <2> QED
    BY <2>3, <2>4
<1>3. CASE CollectorResets(q)
  BY <1>3 DEF CollectorResets, StartInv, OwnerInv, StoredInv
<1>4. CASE StartCallFails(q)
  <2>1. OwnerInv'
    BY <1>4 DEF StartCallFails, GiveUp, OwnerInv
  <2>2. /\ pc' = [pc EXCEPT ![q] = IF pc[q] = "reset" THEN "repost" ELSE "failed"]
        /\ reply' = [reply EXCEPT ![q] = IF pc[q] = "reset" THEN "awaited" ELSE "none"]
        /\ UNCHANGED <<storeVars, owner, stopVars>>
    BY <1>4 DEF StartCallFails
  <2>3. pc[q] \in {"post", "reset", "repost"}
    BY <1>4 DEF StartCallFails, StartInv
  <2> QED
    BY <2>1, <2>2, <2>3 DEF StartInv, StoredInv
<1>5. CASE StartAccepted(q)
  <2>1. /\ Len(order') = Len(order) + 1 /\ Len(order) \in Nat
        /\ order'[Len(order) + 1] = q
        /\ \A i \in 1 .. Len(order) : order'[i] = order[i]
    BY <1>5 DEF StartAccepted
  <2>2. StoredInv'
    BY <1>5, <2>1 DEF StartAccepted, StoredInv
  <2>3. OwnerInv'
    BY <1>5, NoneAssumption DEF StartAccepted, OwnerInv, Install
  <2>4. TablesAgree' /\ StartInv'
    BY <1>5 DEF StartAccepted, Install, StartInv
  <2> QED
    BY <2>2, <2>3, <2>4
<1>6. CASE StartConflicts(q)
  BY <1>6, NoneAssumption DEF StartConflicts, StartInv, OwnerInv, StoredInv
<1>7. CASE ResetReturns(q)
  BY <1>7, NoneAssumption DEF ResetReturns, StartInv, OwnerInv, StoredInv
<1>8. CASE StartRefused(q)
  BY <1>8, NoneAssumption DEF StartRefused, StartInv, OwnerInv, StoredInv
<1>9. CASE Connected(q)
  BY <1>9, NoneAssumption DEF Connected, Install, StartInv, OwnerInv, StoredInv
<1> QED
  BY <1>1, <1>2, <1>3, <1>4, <1>5, <1>6, <1>7, <1>8, <1>9 DEF StartStep

LEMMA StopStepKeeps ==
  ASSUME IInv, TypeOK', NEW k \in Coroutines, StopStep(k)
  PROVE  TablesAgree' /\ StartInv' /\ OwnerInv' /\ StoredInv'
<1> USE DEF IInv, TablesAgree, TypeOK, storeVars, startVars
<1>1. CASE CollectorStops(k)
  BY <1>1, NoneAssumption DEF CollectorStops, StopEffect, StartInv, OwnerInv, StoredInv
<1>2. CASE StopCallFails(k)
  BY <1>2 DEF StopCallFails, GiveUp, StartInv, OwnerInv, StoredInv
<1> QED
  BY <1>1, <1>2 DEF StopStep

LEMMA TablesStep == IInv /\ [Next]_vars =>
                       TablesAgree' /\ StartInv' /\ OwnerInv' /\ StoredInv'
<1> SUFFICES ASSUME IInv, [Next]_vars
             PROVE  TablesAgree' /\ StartInv' /\ OwnerInv' /\ StoredInv'
  OBVIOUS
<1> USE DEF IInv, TablesAgree
<1>0. TypeOK'
  BY TypeStep
<1>1. ASSUME NEW s \in Sids, StartSession(s) \/ StartStep(s)
      PROVE  TablesAgree' /\ StartInv' /\ OwnerInv' /\ StoredInv'
  BY <1>0, <1>1, StartKeeps
<1>2. ASSUME NEW k \in Requests, NEW s \in Sids, StopSession(k, s)
      PROVE  TablesAgree' /\ StartInv' /\ OwnerInv' /\ StoredInv'
  BY <1>0, <1>2, StopBodyKeeps DEF StopSession, Coroutines
<1>3. ASSUME NEW k \in Coroutines, StopStep(k)
      PROVE  TablesAgree' /\ StartInv' /\ OwnerInv' /\ StoredInv'
  BY <1>0, <1>3, StopStepKeeps
<1>4. CASE BeginShutdown \/ EndShutdown
  BY <1>0, <1>4 DEF BeginShutdown, EndShutdown, startVars, storeVars, StartInv, OwnerInv,
                    StoredInv
<1>5. CASE ShutdownStops
  <2>1. Head(todo) \in Sids /\ Server \in Coroutines
    BY <1>5 DEF ShutdownStops, TypeOK, Coroutines
  <2> QED
    BY <1>0, <1>5, <2>1, StopBodyKeeps DEF ShutdownStops
<1>6. CASE LateCall
  \* A late call implies that one was lost.
  <2>1. lost /\ lost' = lost
    BY <1>6 DEF LateCall, OwnerInv, TypeOK
  <2> QED
    BY <1>0, <1>6, <2>1 DEF LateCall, startVars, storeVars, stopVars, StartInv, OwnerInv,
                            StoredInv
<1>7. CASE UNCHANGED vars
  BY <1>0, <1>7 DEF vars, StartInv, OwnerInv, StoredInv, Coroutines
<1> QED
  BY <1>1, <1>2, <1>3, <1>4, <1>5, <1>6, <1>7 DEF Next

\* shutdown() stops the sessions on its list one by one.
LEMMA ShutdownStep == IInv /\ [Next]_vars => ShutdownInv'
<1> SUFFICES ASSUME IInv, [Next]_vars
             PROVE  ShutdownInv'
  OBVIOUS
<1> USE DEF IInv, TablesAgree, TypeOK, ShutdownInv, Left
<1>1. ASSUME NEW s \in Sids, StartSession(s)
      PROVE  ShutdownInv'
  BY <1>1 DEF StartSession, stopVars
<1>2. ASSUME NEW s \in Sids, StartStep(s)
      PROVE  ShutdownInv'
  \* No start is under way once shutdown() runs.
  <2>1. pc[s] \in {"post", "reset", "repost", "connect"}
    BY <1>2 DEF StartStep, CollectorStarts, CollectorResets, StartCallFails,
                StartAccepted, StartConflicts, ResetReturns, StartRefused, Connected,
                StartInv
  <2>2. phase' = phase
    BY <1>2 DEF StartStep, CollectorStarts, CollectorResets, StartCallFails,
                StartAccepted, StartConflicts, ResetReturns, StartRefused, Connected,
                stopVars
  <2> QED
    BY <2>1, <2>2
<1>3. ASSUME NEW k \in Requests, NEW s \in Sids, StopSession(k, s)
      PROVE  ShutdownInv'
  BY <1>3 DEF StopSession, StopBody
<1>4. ASSUME NEW k \in Coroutines, StopStep(k)
      PROVE  ShutdownInv'
  BY <1>4, ServerAssumption
     DEF StopStep, CollectorStops, StopCallFails, startVars, storeVars, Coroutines
<1>5. CASE BeginShutdown
  BY <1>5 DEF BeginShutdown, startVars, storeVars, StoredInv, StartInv
<1>6. CASE EndShutdown
  BY <1>6 DEF EndShutdown, startVars, storeVars
<1>7. CASE ShutdownStops
  <2> DEFINE h == Head(todo)
  <2>1. /\ h \in Sids /\ todo[1] = h
        /\ Tail(todo) \in Seq(Sids) /\ Len(Tail(todo)) = Len(todo) - 1
        /\ \A i \in 1 .. Len(Tail(todo)) : Tail(todo)[i] = todo[i + 1]
        /\ Len(todo) \in Nat
    BY <1>7 DEF ShutdownStops
  <2>2. Left' = Left \ {h} /\ todo' = Tail(todo)
    BY <1>7, <2>1 DEF ShutdownStops, StopBody
  <2>3. ASSUME NEW s \in Left \ {h}
        PROVE  \E i \in 1 .. Len(todo') : todo'[i] = s
    <3>1. PICK i \in 1 .. Len(todo) : todo[i] = s
      BY <1>7, <2>3 DEF ShutdownStops
    <3>2. i - 1 \in 1 .. Len(todo') /\ todo'[i - 1] = s
      BY <2>1, <2>2, <2>3, <3>1
    <3> QED
      BY <3>2
  <2> HIDE DEF h, Left
  <2>4. phase' = phase /\ phase = "stopping" /\ pc' = pc
    BY <1>7 DEF ShutdownStops, StopBody, startVars
  <2>5. \A k \in Requests : stopping'[k] = None
    BY <1>7, ServerAssumption DEF ShutdownStops, StopBody, Coroutines
  <2> QED
    BY <2>2, <2>3, <2>4, <2>5
<1>8. CASE LateCall
  BY <1>8 DEF LateCall, startVars, storeVars, stopVars
<1>9. CASE UNCHANGED vars
  BY <1>9 DEF vars
<1> QED
  BY <1>1, <1>2, <1>3, <1>4, <1>5, <1>6, <1>7, <1>8, <1>9 DEF Next

(* The invariant holds after every order of starts, stops, shutdown and    *)
(* lost or late calls (main.py 102-109, 288-440, 663-726).                 *)
THEOREM Invariance == Spec => []IInv
<1>1. IInv /\ [Next]_vars => IInv'
  BY TablesStep, ShutdownStep DEF IInv
<1> QED
  BY InitInv, <1>1, PTL DEF Spec
-----------------------------------------------------------------------------
(* A session's status, framework, statistics task and data client agree,   *)
(* unless a stop has overtaken its start (start_session 349-384,           *)
(* stop_session 405-440).                                                  *)
THEOREM TablesAgreeHolds == Spec => []TablesAgree
<1>1. IInv => TablesAgree
  BY DEF IInv
<1> QED
  BY Invariance, <1>1, PTL

(* When no call is under way and none was lost, the collector acquires for *)
(* nobody or for a session that is running (_collector_start 663-717,      *)
(* _collector_stop 719-726).                                               *)
THEOREM NoOrphanHolds == Spec => []NoOrphanAcquisition
<1>1. IInv => NoOrphanAcquisition
  <2> SUFFICES ASSUME IInv, Quiet, ~lost, owner # None
               PROVE  status[owner] = "running"
    BY DEF NoOrphanAcquisition
  <2>1. owner \in Sids
    BY DEF IInv, TablesAgree, TypeOK
  <2> QED
    BY <2>1 DEF IInv, OwnerInv, Quiet
<1> QED
  BY Invariance, <1>1, PTL

(* Once shutdown() has returned, no table holds a session, and the         *)
(* collector is idle unless a call was lost (shutdown 102-109).            *)
THEOREM ShutdownReleasesHolds == Spec => []ShutdownReleases
<1>1. IInv => ShutdownReleases
  <2> SUFFICES ASSUME IInv, phase = "down"
               PROVE  /\ frameworks = {} /\ clients = {} /\ tasks = {}
                      /\ lost \/ owner = None
    BY DEF ShutdownReleases
  <2>1. Left = {}
    BY DEF IInv, ShutdownInv
  <2>2. \A k \in Coroutines : stopping[k] = None
    BY DEF IInv, ShutdownInv, Coroutines
  <2>3. owner \in Sids \cup {None} /\ \A s \in Sids : pc[s] \notin {"post", "repost"}
    BY DEF IInv, TablesAgree, TypeOK, ShutdownInv
  <2> QED
    BY <2>1, <2>2, <2>3 DEF IInv, OwnerInv, Left
<1> QED
  BY Invariance, <1>1, PTL
=============================================================================
