-------------------------- MODULE FrontendPageProofs --------------------------
(***************************************************************************)
(* What holds of the page for any number of clicks, calls and polls in     *)
(* flight: its variables agree, and as long as clicks wait for their       *)
(* answers no session is lost.                                             *)
(*                                                                         *)
(* Both need to know what the calls in flight carry: a start's answer has  *)
(* a session (CallInv), and every session is owed to a click (PendingInv). *)
(* That no session is lost needs the whole order of clicks (TurnInv).      *)
(***************************************************************************)
EXTENDS FrontendPage, FiniteSetTheorems, SequenceTheorems, TLAPS

\* An answer to a start has the id of a session, and so has every stop.
CallInv ==
    /\ \A k \in 1 .. MaxCalls :
          /\ calls[k].kind = "start" /\ calls[k].state = "ok" => calls[k].id # 0
          /\ calls[k].kind = "start" /\ calls[k].state = "sent" => calls[k].id = 0
          /\ calls[k].kind = "stop" => calls[k].id # 0
          /\ calls[k].kind = "none" => calls[k] = NoCall
    /\ \A k \in 1 .. MaxPolls : polls[k].result # -1 => polls[k].id # 0

\* Starts that wait to be served may each make one more session.
Pending == {k \in 1 .. MaxCalls : calls[k].kind = "start" /\ calls[k].state = "sent"}
PendingInv == made + Cardinality(Pending) <= clicks

Busy(k) == calls[k] # NoCall

\* As long as each click waits for its answer, there is at most one call: a
\* start while there is no session, or a stop of the session there is.
TurnInv ==
    ~overlapped /\ ~failed =>
        /\ btnS => session = 0
        /\ \A j, k \in 1 .. MaxCalls : Busy(j) /\ Busy(k) => j = k
        /\ \A k \in 1 .. MaxCalls :
              /\ calls[k].state # "failed"
              /\ calls[k].kind = "start" => session = 0
              /\ calls[k].kind = "stop" => calls[k].id = session
              /\ calls[k].kind = "stop" /\ calls[k].state = "ok" => session \notin live

IInv == PageAgrees /\ CallInv /\ PendingInv /\ TurnInv /\ NoOrphanSession
-----------------------------------------------------------------------------
LEMMA Bounds ==
  /\ MaxShown \in Nat \ {0} /\ MaxStarts \in Nat \ {0} /\ MaxCalls \in Nat \ {0}
  /\ MaxPolls \in Nat \ {0} /\ MaxResults \in Nat \ {0} /\ MaxCount \in Nat \ {0}
BY BoundsAssumption

LEMMA PendingIsFinite == IsFiniteSet(Pending) /\ Cardinality(Pending) \in Nat
<1>1. IsFiniteSet(1 .. MaxCalls)
  BY Bounds, FS_Interval
<1>2. IsFiniteSet(Pending)
  BY <1>1, FS_Subset DEF Pending
<1> QED
  BY <1>2, FS_CardinalityType

LEMMA NoneInFlight == NoCall \in Calls /\ NoPoll \in Polls
BY Bounds DEF NoCall, NoPoll, Calls, Polls

LEMMA InitInv == Init => IInv
<1> SUFFICES ASSUME Init PROVE IInv
  OBVIOUS
<1>1. \A k \in 1 .. MaxCalls : calls[k] = NoCall
  BY DEF Init
<1>2. Pending = {}
  BY <1>1 DEF Pending, NoCall
<1>3. results \in Seq(Shown) /\ Len(results) = 0
  BY EmptySeq DEF Init
<1>4. TypeOK
  <2>1. calls \in [1 .. MaxCalls -> Calls] /\ polls \in [1 .. MaxPolls -> Polls]
    BY NoneInFlight DEF Init
  <2>2. latest \in [Sessions -> 0 .. MaxResults] /\ live \subseteq 1 .. made
    BY Bounds DEF Init
  <2>3. /\ session \in 0 .. MaxStarts /\ made \in 0 .. clicks /\ clicks \in 0 .. MaxStarts
        /\ stats \in 0 .. MaxPolls /\ infCount \in Nat
    BY Bounds DEF Init
  <2> QED
    BY <1>3, <2>1, <2>2, <2>3 DEF Init, TypeOK
<1>5. PageAgrees
  BY <1>3, <1>4, Bounds DEF Init, PageAgrees
<1>6. CallInv /\ TurnInv /\ NoOrphanSession
  BY <1>1 DEF Init, CallInv, TurnInv, NoOrphanSession, NoCall, NoPoll, Busy
<1>7. PendingInv
  BY <1>2, FS_EmptySet DEF Init, PendingInv
<1> QED
  BY <1>5, <1>6, <1>7 DEF IInv
-----------------------------------------------------------------------------
\* Handlers that start no call and wait for none.
LEMMA QuietKeeps ==
  ASSUME IInv, TypeOK', UNCHANGED <<session, collecting, calls, clicks, overlapped, failed>>,
         UNCHANGED <<results, infCount, live, made>>,
         polling' = polling, btnS' => btnS \/ ~collecting,
         \A k \in 1 .. MaxPolls : polls'[k].result # -1 => polls'[k].id # 0
  PROVE  IInv'
<1> USE DEF IInv
<1>1. PageAgrees'
  BY DEF PageAgrees
<1>2. CallInv' /\ PendingInv'
  BY DEF CallInv, PendingInv, Pending
<1>3. TurnInv'
  BY DEF TurnInv, PageAgrees, Busy
<1>4. NoOrphanSession'
  BY DEF NoOrphanSession, IsOurs
<1> QED
  BY <1>1, <1>2, <1>3, <1>4

\* A click sends a call; it is the only one in flight if it did not overlap.
LEMMA SentKeeps ==
  ASSUME IInv, NEW c \in Calls, c.state = "sent", Send(c),
         UNCHANGED <<session, collecting, loaded, connected, polling, shown, polls, stats,
                     platform, failed>>,
         btnS' \in BOOLEAN, btnX' \in BOOLEAN, btnS' => btnS,
         \/ c.kind = "start" /\ c.id = 0 /\ btnS /\ clicks < MaxStarts /\ clicks' = clicks + 1
         \/ c.kind = "stop" /\ c.id = session /\ session # 0 /\ clicks' = clicks
  PROVE  IInv'
<1> USE Bounds DEF IInv, PageAgrees, shown, platform
<1> DEFINE k == CHOOSE k \in Free : TRUE
<1>1. k \in 1 .. MaxCalls /\ calls[k] = NoCall
  BY DEF Free, Send
<1>2. /\ calls' = [calls EXCEPT ![k] = c] /\ calls \in [1 .. MaxCalls -> Calls]
      /\ overlapped' = (overlapped \/ \E j \in 1 .. MaxCalls : calls[j] # NoCall)
  BY DEF Send, TypeOK
<1> HIDE DEF k
<1>3. PageAgrees'
  <2>1. calls' \in [1 .. MaxCalls -> Calls] /\ overlapped' \in BOOLEAN
    BY <1>2 DEF TypeOK
  <2>2. clicks' \in 0 .. MaxStarts /\ made' \in 0 .. clicks'
    BY DEF TypeOK
  <2> QED
    BY <2>1, <2>2 DEF TypeOK
<1>4. CallInv'
  BY <1>1, <1>2 DEF CallInv
<1>5. PendingInv'
  <2>1. CASE c.kind = "start"
    <3>1. Pending' = Pending \cup {k} /\ k \notin Pending
      BY <1>1, <1>2, <2>1 DEF Pending, NoCall
    <3>2. Cardinality(Pending') = Cardinality(Pending) + 1
      BY <3>1, PendingIsFinite, FS_AddElement
    <3> QED
      BY <2>1, <3>2, PendingIsFinite DEF PendingInv, TypeOK
  <2>2. CASE c.kind = "stop"
    <3>1. Pending' = Pending
      BY <1>1, <1>2, <2>2 DEF Pending, NoCall
    <3> QED
      BY <2>2, <3>1, PendingIsFinite DEF PendingInv
  <2> QED
    BY <2>1, <2>2
<1>6. TurnInv'
  BY <1>1, <1>2 DEF TurnInv, Busy, NoCall
<1>7. NoOrphanSession'
  <2>1. \A s : IsOurs(s) /\ s # 0 => IsOurs(s)'
    BY <1>1, <1>2 DEF IsOurs, NoCall
  <2>2. \A s \in live : s # 0
    BY DEF TypeOK
  <2> QED
    BY <1>2, <2>1, <2>2 DEF NoOrphanSession
<1> QED
  BY <1>3, <1>4, <1>5, <1>6, <1>7

LEMMA ClickKeeps == IInv /\ (StartSession \/ StopSession) => IInv'
<1> SUFFICES ASSUME IInv, StartSession \/ StopSession
             PROVE  IInv'
  OBVIOUS
<1> USE Bounds DEF shown, platform
<1>1. session \in 0 .. MaxStarts /\ btnS \in BOOLEAN /\ btnX \in BOOLEAN
  BY DEF IInv, PageAgrees, TypeOK
<1>2. CASE StartSession
  <2> DEFINE c == [kind |-> "start", id |-> 0, state |-> "sent"]
  <2>1. c \in Calls /\ c.state = "sent" /\ c.kind = "start" /\ c.id = 0
    BY DEF Calls
  <2>2. /\ Send(c) /\ btnS /\ clicks < MaxStarts /\ clicks' = clicks + 1
        /\ btnS' = FALSE /\ btnX' = btnX
        /\ UNCHANGED <<session, collecting, loaded, connected, polling, shown, polls, stats,
                       platform, failed>>
    BY <1>2 DEF StartSession
  <2> HIDE DEF c
  <2> QED
    BY <1>1, <2>1, <2>2, SentKeeps
<1>3. CASE StopSession
  <2> DEFINE c == [kind |-> "stop", id |-> session, state |-> "sent"]
  <2>1. c \in Calls /\ c.state = "sent" /\ c.kind = "stop" /\ c.id = session
    BY <1>1 DEF Calls
  <2>2. /\ Send(c) /\ session # 0 /\ clicks' = clicks
        /\ btnX' = FALSE /\ btnS' = btnS
        /\ UNCHANGED <<session, collecting, loaded, connected, polling, shown, polls, stats,
                       platform, failed>>
    BY <1>3 DEF StopSession
  <2> HIDE DEF c
  <2> QED
    BY <1>1, <2>1, <2>2, SentKeeps
<1> QED
  BY <1>2, <1>3

\* An answered call is in flight no more.
LEMMA Unanswered ==
  ASSUME IInv, NEW k \in 1 .. MaxCalls, calls' = [calls EXCEPT ![k] = NoCall],
         calls[k].state # "sent", clicks' = clicks, made' = made, polls' = polls
  PROVE  /\ calls' \in [1 .. MaxCalls -> Calls]
         /\ CallInv' /\ PendingInv'
<1>1. calls \in [1 .. MaxCalls -> Calls]
  BY DEF IInv, PageAgrees, TypeOK
<1>2. calls' \in [1 .. MaxCalls -> Calls]
  BY <1>1, NoneInFlight
<1>3. CallInv'
  BY <1>1 DEF IInv, CallInv, NoCall
<1>4. Pending' = Pending
  BY <1>1 DEF Pending, NoCall
<1> QED
  BY <1>2, <1>3, <1>4 DEF IInv, PendingInv

LEMMA AnswerKeeps ==
  ASSUME IInv, NEW k \in 1 .. MaxCalls, Started(k) \/ StartFailed(k) \/ Stopped(k)
  PROVE  IInv'
<1> USE Bounds DEF IInv, PageAgrees, shown, platform, history, buttons
<1>1. /\ calls' = [calls EXCEPT ![k] = NoCall] /\ calls[k].state # "sent"
      /\ calls \in [1 .. MaxCalls -> Calls]
      /\ UNCHANGED <<loaded, connected, polls, stats, live, made, latest, clicks, overlapped, failed>>
  BY DEF Started, StartFailed, Stopped, Answered, TypeOK
<1>2. calls' \in [1 .. MaxCalls -> Calls] /\ CallInv' /\ PendingInv'
  BY <1>1, Unanswered
<1>3. CASE Started(k)
  <2>1. /\ session' = calls[k].id /\ session' \in 0 .. MaxStarts /\ session' # 0
        /\ calls[k].kind = "start"
    BY <1>1, <1>3 DEF Started, Answered, CallInv, Calls
  <2>2. /\ collecting' = TRUE /\ polling' = TRUE /\ btnS' = FALSE /\ btnX' = TRUE
        /\ UNCHANGED <<results, infCount>>
    BY <1>3 DEF Started, UpdateButtonStates
  <2>3. PageAgrees'
    BY <1>1, <1>2, <2>1, <2>2 DEF TypeOK
  <2>4. TurnInv'
    BY <1>1, <2>1, <2>2 DEF TurnInv, Busy, NoCall
  <2>5. NoOrphanSession'
    BY <1>1, <2>1, <2>2 DEF NoOrphanSession, IsOurs, TurnInv, Busy, NoCall, TypeOK
  <2> QED
    BY <1>2, <2>3, <2>4, <2>5
<1>4. CASE StartFailed(k)
  <2>1. /\ btnS' = TRUE /\ calls[k].state = "failed"
        /\ UNCHANGED <<session, collecting, btnX, polling, results, infCount>>
    BY <1>4 DEF StartFailed, Answered
  <2>2. PageAgrees'
    BY <1>1, <1>2, <2>1 DEF TypeOK
  <2>3. TurnInv' /\ NoOrphanSession'
    BY <1>1, <2>1 DEF TurnInv, NoOrphanSession
  <2> QED
    BY <1>2, <2>2, <2>3
<1>5. CASE Stopped(k)
  <2>1. /\ session' = 0 /\ collecting' = FALSE /\ polling' = FALSE
        /\ results' = <<>> /\ infCount' = 0
        /\ btnS' = (loaded /\ connected) /\ btnX' = FALSE
        /\ calls[k].kind = "stop"
    BY <1>1, <1>5 DEF Stopped, Answered, UpdateButtonStates
  <2>2. results' \in Seq(Shown) /\ Len(results') = 0
    BY <2>1, EmptySeq
  <2>3. PageAgrees'
    <3>1. TypeOK'
      <4>1. {loaded', connected', btnS', btnX', collecting', polling', overlapped', failed'}
               \subseteq BOOLEAN
        BY <1>1, <2>1 DEF TypeOK
      <4>2. /\ session' \in 0 .. MaxStarts /\ made' \in 0 .. clicks' /\ live' \subseteq 1 .. made'
            /\ clicks' \in 0 .. MaxStarts /\ stats' \in 0 .. MaxPolls
            /\ polls' \in [1 .. MaxPolls -> Polls] /\ latest' \in [Sessions -> 0 .. MaxResults]
        BY <1>1, <2>1 DEF TypeOK
      <4>3. results' \in Seq(Shown) /\ infCount' \in Nat
        BY <2>1, <2>2
      <4> QED
        BY <1>2, <4>1, <4>2, <4>3 DEF TypeOK
    <3> QED
      BY <2>1, <2>2, <3>1
  <2>4. TurnInv'
    BY <1>1, <2>1 DEF TurnInv, Busy, NoCall
  <2>5. NoOrphanSession'
    <3> SUFFICES ASSUME ~overlapped', ~failed', NEW s \in live'
                 PROVE  IsOurs(s)'
      BY DEF NoOrphanSession
    <3>1. s \in live /\ s # 0 /\ IsOurs(s)
      BY <1>1 DEF NoOrphanSession, TypeOK
    <3>2. calls[k].state \in {"ok", "failed"} /\ Busy(k)
      BY <1>1, <2>1 DEF Calls, Busy, NoCall
    <3>3. calls[k].id = session /\ session \notin live
      BY <1>1, <2>1, <3>2 DEF TurnInv
    <3>4. PICK j \in 1 .. MaxCalls : calls[j].id = s
      BY <3>1, <3>3 DEF IsOurs
    <3>5. j = k
      BY <1>1, <3>1, <3>2, <3>4 DEF TurnInv, Busy, NoCall
    <3> QED
      BY <3>1, <3>3, <3>4, <3>5
  <2> QED
    BY <1>2, <2>3, <2>4, <2>5
<1> QED
  BY <1>3, <1>4, <1>5

\* The Platform performs a start, or fails, or both.
LEMMA ServeStartKeeps ==
  ASSUME IInv, NEW k \in 1 .. MaxCalls, ServeStart(k)
  PROVE  IInv'
<1> USE Bounds DEF IInv, PageAgrees, shown, buttons
<1>1. /\ calls \in [1 .. MaxCalls -> Calls] /\ live \subseteq 1 .. made
      /\ made \in Nat /\ clicks \in 0 .. MaxStarts
      /\ calls[k].kind = "start" /\ calls[k].state = "sent" /\ calls[k].id = 0
      /\ UNCHANGED <<session, collecting, loaded, connected, btnS, btnX, polling, results,
                     infCount, polls, stats, latest, clicks, overlapped>>
  BY DEF TypeOK, CallInv, ServeStart, Serve
<1>2. PICK id \in {0, made + 1}, state \in {"ok", "failed"} :
         /\ calls' = [calls EXCEPT ![k] = [kind |-> "start", id |-> id, state |-> state]]
         /\ state = "ok" => id = made + 1
         /\ state = "failed" => id = 0
         /\ failed' \in BOOLEAN /\ (~failed' => ~failed /\ state = "ok")
         /\ state = "ok" => made' = made + 1 /\ live' = live \cup {made + 1}
         /\ \/ made' = made + 1 /\ live' = live \cup {made + 1}
            \/ made' = made /\ live' = live
  <2>1. calls[k] = [kind |-> "start", id |-> 0, state |-> "sent"]
    BY <1>1 DEF Calls
  <2>2. failed \in BOOLEAN
    BY DEF TypeOK
  <2>3. \/ /\ live' = live \cup {made + 1} /\ made' = made + 1 /\ failed' = failed
           /\ calls' = [calls EXCEPT ![k] = [kind |-> "start", id |-> made + 1, state |-> "ok"]]
        \/ /\ \/ live' = live \cup {made + 1} /\ made' = made + 1
              \/ live' = live /\ made' = made
           /\ calls' = [calls EXCEPT ![k] = [kind |-> "start", id |-> 0, state |-> "failed"]]
           /\ failed' = TRUE
    BY <1>1, <2>1 DEF ServeStart, Serve
  <2> QED
    BY <1>1, <2>2, <2>3
<1>3. Pending' = Pending \ {k} /\ k \in Pending
  BY <1>1, <1>2 DEF Pending
<1>4. Cardinality(Pending') = Cardinality(Pending) - 1
  BY <1>3, PendingIsFinite, FS_RemoveElement
<1>5. /\ made + Cardinality(Pending) <= clicks
      /\ Cardinality(Pending) \in Nat /\ Cardinality(Pending) # 0
  BY <1>3, <1>4, PendingIsFinite, FS_EmptySet DEF PendingInv
<1>6. PendingInv' /\ made + 1 <= clicks /\ made' \in 0 .. clicks
  BY <1>1, <1>2, <1>4, <1>5 DEF PendingInv
<1>7. TypeOK'
  <2>1. [kind |-> "start", id |-> id, state |-> state] \in Calls
    BY <1>1, <1>6 DEF Calls
  <2>2. calls' \in [1 .. MaxCalls -> Calls]
    BY <1>1, <1>2, <2>1
  <2>3. live' \subseteq 1 .. made'
    <3>1. CASE made' = made + 1 /\ live' = live \cup {made + 1}
      <4>1. live \subseteq 1 .. (made + 1)
        BY <1>1
      <4> QED
        BY <1>1, <3>1, <4>1
    <3> QED
      BY <1>1, <1>2, <3>1
  <2>4. failed' \in BOOLEAN
    BY <1>2
  <2> QED
    BY <1>1, <1>6, <2>2, <2>3, <2>4 DEF TypeOK
<1>8. PageAgrees'
  BY <1>1, <1>7
<1>9. CallInv'
  BY <1>1, <1>2 DEF CallInv
<1>10. TurnInv'
  <2> SUFFICES ASSUME ~overlapped', ~failed'
               PROVE  TurnInv'
    BY DEF TurnInv
  <2>1. state = "ok" /\ ~failed /\ ~overlapped
    BY <1>1, <1>2
  <2>2. \A j \in 1 .. MaxCalls : Busy(j)' <=> Busy(j)
    BY <1>1, <1>2 DEF Busy, NoCall
  <2>3. \A j \in 1 .. MaxCalls : j # k => calls'[j] = NoCall
    BY <1>1, <1>2, <2>1, <2>2 DEF TurnInv, Busy, NoCall
  <2>4. calls'[k].kind = "start" /\ calls'[k].state = "ok" /\ session' = 0
    BY <1>1, <1>2, <2>1 DEF TurnInv
  <2> QED
    BY <1>1, <2>1, <2>2, <2>3, <2>4 DEF TurnInv, NoCall
<1>11. NoOrphanSession'
  <2> SUFFICES ASSUME ~overlapped', ~failed', NEW s \in live'
               PROVE  IsOurs(s)'
    BY DEF NoOrphanSession
  <2>1. state = "ok" /\ ~failed /\ ~overlapped
    BY <1>1, <1>2
  <2>2. CASE s = made + 1
    BY <1>1, <1>2, <2>1, <2>2 DEF IsOurs
  <2>3. CASE s \in live
    BY <1>1, <1>2, <2>1, <2>3 DEF NoOrphanSession, IsOurs
  <2> QED
    BY <1>2, <2>1, <2>2, <2>3
<1> QED
  BY <1>6, <1>8, <1>9, <1>10, <1>11

\* The Platform performs a stop, or fails, or both.
LEMMA ServeStopKeeps ==
  ASSUME IInv, NEW k \in 1 .. MaxCalls, ServeStop(k)
  PROVE  IInv'
<1> USE Bounds DEF IInv, PageAgrees, shown, buttons
<1>1. /\ calls \in [1 .. MaxCalls -> Calls] /\ live \subseteq 1 .. made
      /\ calls[k].kind = "stop" /\ calls[k].state = "sent" /\ calls[k].id # 0
      /\ UNCHANGED <<session, collecting, loaded, connected, btnS, btnX, polling, results,
                     infCount, polls, stats, latest, clicks, overlapped>>
  BY DEF TypeOK, CallInv, ServeStop, Serve
<1> DEFINE id == calls[k].id
<1>2. PICK state \in {"ok", "failed"} :
         /\ calls' = [calls EXCEPT ![k] = [kind |-> "stop", id |-> id, state |-> state]]
         /\ failed' \in BOOLEAN /\ (~failed' => ~failed /\ state = "ok")
         /\ made' = made
         /\ live' = live \ {id} \/ (live' = live /\ state = "failed")
  <2>1. calls[k] = [kind |-> "stop", id |-> id, state |-> "sent"]
    BY <1>1 DEF Calls
  <2>2. failed \in BOOLEAN
    BY DEF TypeOK
  <2>3. \/ /\ live' = live \ {id} /\ made' = made /\ failed' = failed
           /\ calls' = [calls EXCEPT ![k] = [kind |-> "stop", id |-> id, state |-> "ok"]]
        \/ /\ live' = live \ {id} \/ live' = live
           /\ made' = made
           /\ calls' = [calls EXCEPT ![k] = [kind |-> "stop", id |-> id, state |-> "failed"]]
           /\ failed' = TRUE
    BY <1>1, <2>1 DEF ServeStop, Serve
  <2>4. CASE calls' = [calls EXCEPT ![k] = [kind |-> "stop", id |-> id, state |-> "ok"]]
             /\ live' = live \ {id} /\ made' = made /\ failed' = failed
    <3>1. failed' \in BOOLEAN /\ (~failed' => ~failed)
      BY <2>2, <2>4
    <3>2. "ok" \in {"ok", "failed"}
      OBVIOUS
    <3> QED
      BY <2>4, <3>1, <3>2
  <2>5. CASE calls' = [calls EXCEPT ![k] = [kind |-> "stop", id |-> id, state |-> "failed"]]
             /\ (live' = live \ {id} \/ live' = live) /\ made' = made /\ failed' = TRUE
    BY <2>2, <2>5
  <2> QED
    BY <2>3, <2>4, <2>5
<1>3. Pending' = Pending
  BY <1>1, <1>2 DEF Pending
<1>4. TypeOK'
  <2>1. [kind |-> "stop", id |-> id, state |-> state] \in Calls
    BY <1>1 DEF Calls
  <2>2. calls' \in [1 .. MaxCalls -> Calls] /\ live' \subseteq 1 .. made' /\ failed' \in BOOLEAN
    BY <1>1, <1>2, <2>1 DEF TypeOK
  <2> QED
    BY <1>1, <1>2, <2>2 DEF TypeOK
<1>5. PageAgrees' /\ PendingInv'
  BY <1>1, <1>2, <1>3, <1>4 DEF PendingInv
<1>6. CallInv'
  BY <1>1, <1>2 DEF CallInv
<1>7. TurnInv'
  BY <1>1, <1>2 DEF TurnInv, Busy, NoCall
<1>8. NoOrphanSession'
  BY <1>1, <1>2 DEF NoOrphanSession, IsOurs
<1> QED
  BY <1>5, <1>6, <1>7, <1>8
-----------------------------------------------------------------------------
LEMMA PollKeeps ==
  ASSUME IInv, NEW k \in 1 .. MaxPolls, PollStep(k)
  PROVE  IInv'
<1> USE Bounds DEF buttons, platform, history, shown
<1>1. /\ polls \in [1 .. MaxPolls -> Polls] /\ latest \in [Sessions -> 0 .. MaxResults]
      /\ UNCHANGED <<session, collecting, loaded, connected, btnS, btnX, polling, calls, stats,
                     live, made, latest, clicks, overlapped, failed>>
  BY DEF PollStep, ServeLatestResult, ServeInferenceStats, HandleInferenceResult, IInv,
         PageAgrees, TypeOK
<1>2. CASE ServeLatestResult(k)
  <2>1. polls[k].id \in Sessions
    BY <1>1, <1>2 DEF ServeLatestResult, Polls, Sessions
  <2>2. polls' \in [1 .. MaxPolls -> Polls]
    <3>1. latest[polls[k].id] \in -1 .. MaxResults
      BY <1>1, <2>1
    <3>2. polls[k] \in Polls /\ polls' = [polls EXCEPT ![k].result = latest[polls[k].id]]
      BY <1>1, <1>2 DEF ServeLatestResult
    <3>3. [polls[k] EXCEPT !.result = latest[polls[k].id]] \in Polls
      BY <3>1, <3>2 DEF Polls
    <3> QED
      BY <1>1, <3>2, <3>3
  <2>3. \A j \in 1 .. MaxPolls : polls'[j].result # -1 => polls'[j].id # 0
    BY <1>1, <1>2, <2>1 DEF ServeLatestResult, IInv, CallInv
  <2>4. TypeOK' /\ UNCHANGED <<results, infCount>>
    BY <1>1, <1>2, <2>2 DEF ServeLatestResult, IInv, PageAgrees, TypeOK
  <2> QED
    BY <1>1, <2>3, <2>4, QuietKeeps
<1>3. CASE ServeInferenceStats(k)
  <2>1. polls' \in [1 .. MaxPolls -> Polls]
    BY <1>1, <1>3 DEF ServeInferenceStats, Polls
  <2>2. \A j \in 1 .. MaxPolls : polls'[j].result # -1 => polls'[j].id # 0
    BY <1>1, <1>3 DEF ServeInferenceStats, IInv, CallInv
  <2>3. TypeOK' /\ UNCHANGED <<results, infCount>>
    BY <1>1, <1>3, <2>1 DEF ServeInferenceStats, IInv, PageAgrees, TypeOK
  <2> QED
    BY <1>1, <2>2, <2>3, QuietKeeps
<1>4. CASE HandleInferenceResult(k)
  <2>1. /\ polls' = [polls EXCEPT ![k] = NoPoll]
        /\ polls[k].id \in Sessions
    BY <1>1, <1>4 DEF HandleInferenceResult, IInv, CallInv, Polls, Sessions
  <2>2. polls' \in [1 .. MaxPolls -> Polls] /\ CallInv'
    BY <1>1, <2>1, NoneInFlight DEF IInv, CallInv, NoPoll
  <2>3. /\ results' \in Seq(Shown) /\ infCount' \in Nat
        /\ Len(results') = IF infCount' < MaxShown THEN infCount' ELSE MaxShown
    <3>1. /\ results \in Seq(Shown) /\ infCount \in Nat /\ session \in 0 .. MaxStarts
          /\ Len(results) = IF infCount < MaxShown THEN infCount ELSE MaxShown
      BY DEF IInv, PageAgrees, TypeOK
    <3>2. CASE polls[k].result > 0 /\ polls[k].stats = "ok"
      <4> DEFINE new == [label |-> session, of |-> polls[k].id, number |-> polls[k].result]
                 all == <<new>> \o results
      <4>1. new \in Shown
        BY <1>1, <2>1, <3>1, <3>2 DEF Shown, Polls
      <4>2. all \in Seq(Shown) /\ Len(all) = Len(results) + 1 /\ Len(results) \in Nat
        BY <3>1, <4>1
      <4>3. results' = Newest(all) /\ infCount' = infCount + 1
        BY <1>4, <3>2 DEF HandleInferenceResult
      <4> HIDE DEF all
      <4>4. CASE Len(all) > MaxShown
        <5>1. results' = SubSeq(all, 1, MaxShown)
          BY <4>3, <4>4 DEF Newest
        <5>2. \A i \in 1 .. MaxShown : all[i] \in Shown
          BY <4>2, <4>4
        <5>3. results' \in Seq(Shown) /\ Len(results') = MaxShown
          BY <4>2, <4>4, <5>1, <5>2, SubSeqProperties
        <5> QED
          BY <3>1, <4>2, <4>3, <4>4, <5>3
      <4>5. CASE ~(Len(all) > MaxShown)
        BY <3>1, <4>2, <4>3, <4>5 DEF Newest
      <4> QED
        BY <4>4, <4>5
    <3>3. CASE ~(polls[k].result > 0 /\ polls[k].stats = "ok")
      BY <1>4, <3>1, <3>3 DEF HandleInferenceResult
    <3> QED
      BY <3>2, <3>3
  <2>4. PageAgrees'
    BY <1>1, <2>2, <2>3 DEF IInv, PageAgrees, TypeOK
  <2>5. PendingInv' /\ TurnInv' /\ NoOrphanSession'
    BY <1>1 DEF IInv, PendingInv, Pending, TurnInv, Busy, NoOrphanSession, IsOurs
  <2> QED
    BY <2>2, <2>4, <2>5 DEF IInv
<1> QED
  BY <1>2, <1>3, <1>4 DEF PollStep

LEMMA NextInv == IInv /\ [Next]_vars => IInv'
<1> SUFFICES ASSUME IInv, [Next]_vars
             PROVE  IInv'
  OBVIOUS
<1> USE Bounds DEF shown, inFlight, platform, history, buttons
<1>1. \A k \in 1 .. MaxPolls : polls[k].result # -1 => polls[k].id # 0
  BY DEF IInv, CallInv
<1>2. CASE LoadComponentSchema \/ ConnectCollector
  <2>1. btnS' => ~collecting
    BY <1>2 DEF LoadComponentSchema, ConnectCollector, UpdateButtonStates
  <2>2. btnS' \in BOOLEAN /\ btnX' \in BOOLEAN /\ loaded' \in BOOLEAN /\ connected' \in BOOLEAN
    BY <1>2 DEF LoadComponentSchema, ConnectCollector, UpdateButtonStates, IInv, PageAgrees, TypeOK
  <2>3. UNCHANGED <<session, collecting, polling, shown, inFlight, platform, history>>
    BY <1>2 DEF LoadComponentSchema, ConnectCollector
  <2>4. TypeOK'
    BY <2>2, <2>3 DEF IInv, PageAgrees, TypeOK
  <2> QED
    BY <1>1, <2>1, <2>3, <2>4, QuietKeeps
<1>3. CASE Poll
  <2>1. PICK k \in 1 .. MaxPolls : polls[k] = NoPoll /\ polls' = [polls EXCEPT ![k].id = session]
    BY <1>3 DEF Poll
  <2>2. /\ UNCHANGED <<session, collecting, loaded, connected, buttons, polling, shown,
                       calls, stats, platform, history>>
        /\ session # 0
    BY <1>3 DEF Poll
  <2>3. TypeOK'
    BY <2>1, <2>2 DEF IInv, PageAgrees, TypeOK, Polls
  <2>4. \A j \in 1 .. MaxPolls : polls'[j].result # -1 => polls'[j].id # 0
    BY <1>1, <2>1, <2>2 DEF IInv, PageAgrees, TypeOK
  <2> QED
    BY <2>2, <2>3, <2>4, QuietKeeps
<1>4. CASE PollCollector
  <2>1. TypeOK'
    BY <1>4 DEF PollCollector, IInv, PageAgrees, TypeOK
  <2> QED
    BY <1>1, <1>4, <2>1, QuietKeeps DEF PollCollector
<1>5. CASE HandleCollectorStats
  <2>1. btnS' => ~collecting
    BY <1>5 DEF HandleCollectorStats, UpdateButtonStates
  <2>2. btnS' \in BOOLEAN /\ btnX' \in BOOLEAN /\ stats' \in 0 .. MaxPolls
    BY <1>5 DEF HandleCollectorStats, UpdateButtonStates, IInv, PageAgrees, TypeOK
  <2>3. UNCHANGED <<session, collecting, loaded, connected, polling, shown, calls, polls,
                    platform, history>>
    BY <1>5 DEF HandleCollectorStats
  <2>4. TypeOK'
    BY <2>2, <2>3 DEF IInv, PageAgrees, TypeOK
  <2> QED
    BY <1>1, <2>1, <2>3, <2>4, QuietKeeps
<1>6. ASSUME NEW s \in Sessions, NewResult(s)
      PROVE  IInv'
  <2>1. TypeOK'
    BY <1>6 DEF NewResult, IInv, PageAgrees, TypeOK
  <2> QED
    BY <1>1, <1>6, <2>1, QuietKeeps DEF NewResult
<1>7. CASE UNCHANGED vars
  <2>1. TypeOK'
    BY <1>7 DEF vars, IInv, PageAgrees, TypeOK
  <2> QED
    BY <1>1, <1>7, <2>1, QuietKeeps DEF vars
<1> QED
  BY <1>2, <1>3, <1>4, <1>5, <1>6, <1>7, ClickKeeps, AnswerKeeps, ServeStartKeeps,
     ServeStopKeeps, PollKeeps DEF Next, User, CallStep
-----------------------------------------------------------------------------
(* However the answers of overlapping starts, stops and polls are ordered, *)
(* the page collects exactly when it has a session, polls while it         *)
(* collects, and shows a row for each result it has counted (app.js        *)
(* 54-121, 431-553).                                                       *)
THEOREM PageAgreesHolds == Spec => []PageAgrees
<1>1. IInv => PageAgrees
  BY DEF IInv
<1> QED
  BY InitInv, NextInv, <1>1, PTL DEF Spec

(* As long as no click comes before the last one was answered, and no call *)
(* fails, the page knows every session the Platform collects for.          *)
THEOREM NoOrphanSessionHolds == Spec => []NoOrphanSession
<1>1. IInv => NoOrphanSession
  BY DEF IInv
<1> QED
  BY InitInv, NextInv, <1>1, PTL DEF Spec
=============================================================================
