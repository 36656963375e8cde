--------------------------- MODULE FrameQueueProofs ---------------------------
(***************************************************************************)
(* What holds of the frame queue for every capacity, every set of frames   *)
(* and any number of threads.                                              *)
(*                                                                         *)
(* IInv, the conjunction of the queue's four invariants, is inductive: the *)
(* contents of the queue are determined by the history (FreshestRetained), *)
(* but only together with the counts (Conservation) does a put or a get    *)
(* preserve it; and a notify reaches a sleeping thread (NoLostWakeup) only *)
(* if waiting threads are where TypeOK says they are.                      *)
(***************************************************************************)
EXTENDS FrameQueue, SequenceTheorems, TLAPS

IInv ==
    /\ TypeOK
    /\ Conservation
    /\ FreshestRetained
    /\ NoLostWakeup
-----------------------------------------------------------------------------
(* Lemmas about suffixes of a sequence: the queue is always one. *)

\* A non-empty suffix begins with the element after the ones cut off, and
\* its tail is the suffix that is shorter by one.
LEMMA SuffixPop ==
    ASSUME NEW S, NEW s \in Seq(S), NEW k \in Nat, k < Len(s)
    PROVE  /\ Head(SubSeq(s, k+1, Len(s))) = s[k+1]
           /\ Tail(SubSeq(s, k+1, Len(s))) = SubSeq(s, k+2, Len(s))
<1>1. /\ k+1 \in 1 .. Len(s)
      /\ Len(s) \in k+1 .. Len(s)
      /\ (k+1)+1 = k+2
  BY LenProperties
<1> QED  BY <1>1, HeadTailOfSubSeq

\* Appending to a sequence appends to each of its suffixes.
LEMMA SuffixAppend ==
    ASSUME NEW S, NEW s \in Seq(S), NEW e \in S, NEW k \in Nat, k <= Len(s)
    PROVE  Append(SubSeq(s, k+1, Len(s)), e) = SubSeq(Append(s, e), k+1, Len(s)+1)
<1> DEFINE u == SubSeq(s, k+1, Len(s))
           t == Append(s, e)
           v == SubSeq(t, k+1, Len(s)+1)
<1>1. Len(s) \in Nat /\ k+1 \in Int /\ Len(s)+1 \in Int
  BY LenProperties
<1>2. /\ u \in Seq(S)
      /\ Len(u) = Len(s) - k
      /\ \A i \in 1 .. Len(s) - k : u[i] = s[k+i]
  <2>1. \A i \in k+1 .. Len(s) : s[i] \in S
    BY <1>1, ElementOfSeq
  <2>2. /\ u \in Seq(S)
        /\ Len(u) = IF k+1 <= Len(s) THEN Len(s)-(k+1)+1 ELSE 0
        /\ \A i \in 1 .. Len(s)-(k+1)+1 : u[i] = s[(k+1)+i-1]
    BY <1>1, <2>1, SubSeqProperties
  <2> QED  BY <1>1, <2>2
<1>3. /\ t \in Seq(S)
      /\ Len(t) = Len(s) + 1
      /\ \A i \in 1 .. Len(s) : t[i] = s[i]
      /\ t[Len(s)+1] = e
  BY <1>1
<1>4. /\ v \in Seq(S)
      /\ Len(v) = Len(s) - k + 1
      /\ \A i \in 1 .. Len(s) - k + 1 : v[i] = t[k+i]
  <2>1. \A i \in k+1 .. Len(s)+1 : t[i] \in S
    BY <1>1, <1>3, ElementOfSeq
  <2>2. /\ v \in Seq(S)
        /\ Len(v) = IF k+1 <= Len(s)+1 THEN Len(s)+1-(k+1)+1 ELSE 0
        /\ \A i \in 1 .. Len(s)+1-(k+1)+1 : v[i] = t[(k+1)+i-1]
    BY <1>1, <2>1, SubSeqProperties
  <2> QED  BY <1>1, <2>2
<1> HIDE DEF u, t, v
<1>5. /\ Append(u, e) \in Seq(S)
      /\ Len(Append(u, e)) = Len(s) - k + 1
      /\ \A i \in 1 .. Len(s) - k : Append(u, e)[i] = s[k+i]
      /\ Append(u, e)[Len(s)-k+1] = e
  BY <1>1, <1>2
<1>6. \A i \in 1 .. Len(s) - k + 1 : Append(u, e)[i] = v[i]
  <2> SUFFICES ASSUME NEW i \in 1 .. Len(s) - k + 1
               PROVE  Append(u, e)[i] = v[i]
    OBVIOUS
  <2>1. CASE i <= Len(s) - k
    BY <2>1, <1>1, <1>3, <1>4, <1>5
  <2>2. CASE i = Len(s) - k + 1
    BY <2>2, <1>1, <1>3, <1>4, <1>5
  <2>3. i <= Len(s) - k \/ i = Len(s) - k + 1
    BY <1>1
  <2> QED  BY <2>1, <2>2, <2>3
<1>7. Append(u, e) = v
  BY <1>4, <1>5, <1>6, SeqEqual
<1> QED  BY <1>7 DEF u, t, v
-----------------------------------------------------------------------------
(* How the shared parts of the actions change the queue. *)

\* Handing out the oldest frame: the counts and the contents stay in step,
\* and the frame is the one at the log's cursor.
LEMMA PopLeftStep ==
    ASSUME TypeOK, Conservation, FreshestRetained, PopLeft
    PROVE  /\ queue' \in Seq(Frames)
           /\ Len(queue') = Len(queue) - 1
           /\ queue' = SubSeq(accepted, dropped + taken + 2, Len(accepted))
           /\ Len(queue) > 0
           /\ out' = <<accepted[dropped + taken + 1]>>
           /\ accepted[dropped + taken + 1] \in Frames
<1> DEFINE k == dropped + taken
<1>1. /\ queue \in Seq(Frames) /\ queue # <<>>
      /\ accepted \in Seq(Frames)
      /\ k \in Nat
      /\ queue' = Tail(queue) /\ out' = <<Head(queue)>>
  BY DEF TypeOK, PopLeft
<1>2. /\ queue' \in Seq(Frames)
      /\ Len(queue') = Len(queue) - 1
      /\ Len(queue) > 0
  BY <1>1
<1>3. k < Len(accepted)
  BY <1>1, <1>2 DEF Conservation, TypeOK
<1>4. queue = SubSeq(accepted, k+1, Len(accepted))
  BY DEF FreshestRetained
<1>5. /\ Head(queue) = accepted[k+1]
      /\ Tail(queue) = SubSeq(accepted, k+2, Len(accepted))
  BY <1>1, <1>3, <1>4, SuffixPop
<1>6. accepted[k+1] \in Frames
  BY <1>1, <1>3, ElementOfSeq
<1> QED  BY <1>1, <1>2, <1>5, <1>6

\* Putting a frame: a full queue loses its oldest frame, and either way the
\* queue is the suffix of the frames put so far.
LEMMA PutStep ==
    ASSUME TypeOK, Conservation, FreshestRetained, NEW f \in Frames, Put(f)
    PROVE  /\ queue' \in Seq(Frames)
           /\ accepted' \in Seq(Frames)
           /\ Len(accepted') = Len(accepted) + 1
           /\ Len(queue') = Len(queue) + 1 + dropped - dropped'
           /\ Len(queue') <= Capacity
           /\ queue' = SubSeq(accepted', dropped' + taken + 1, Len(accepted'))
           /\ \/ dropped' = dropped /\ Len(queue) < Capacity
              \/ dropped' = dropped + 1 /\ Len(queue) = Capacity
<1> DEFINE k == dropped + taken
<1>1. /\ queue \in Seq(Frames) /\ accepted \in Seq(Frames)
      /\ dropped \in Nat /\ taken \in Nat /\ k \in Nat
  BY DEF TypeOK
<1>2. /\ Len(queue) \in Nat /\ Len(accepted) \in Nat
      /\ Len(queue) <= Capacity /\ Capacity \in Nat \ {0}
      /\ Len(accepted) = k + Len(queue)
  BY <1>1, LenProperties, CapacityAssumption DEF Conservation
<1>3. queue = SubSeq(accepted, k+1, Len(accepted))
  BY DEF FreshestRetained
<1>4. accepted' = Append(accepted, f)
  BY DEF Put
<1>5. /\ accepted' \in Seq(Frames)
      /\ Len(accepted') = Len(accepted) + 1
  BY <1>1, <1>4
<1>6. CASE Len(queue) < Capacity
  <2>1. /\ dropped' = dropped
        /\ queue' = Append(queue, f)
    BY <1>2, <1>6 DEF Put, Full
  <2>2. SubSeq(accepted', k+1, Len(accepted)+1)
          = Append(SubSeq(accepted, k+1, Len(accepted)), f)
    <3>1. k <= Len(accepted)
      BY <1>1, <1>2
    <3> QED  BY <1>1, <1>4, <3>1, SuffixAppend
  <2>3. queue' \in Seq(Frames) /\ Len(queue') = Len(queue) + 1
    BY <1>1, <2>1
  <2>4. queue' = SubSeq(accepted', dropped' + taken + 1, Len(accepted'))
    BY <1>3, <1>5, <2>1, <2>2, Zenon
  <2>5. Len(queue') = Len(queue) + 1 + dropped - dropped' /\ Len(queue') <= Capacity
    BY <1>1, <1>2, <1>6, <2>1, <2>3
  <2> QED  BY <1>5, <1>6, <2>1, <2>3, <2>4, <2>5, Zenon
<1>7. CASE Len(queue) = Capacity
  <2>1. /\ dropped' = dropped + 1
        /\ queue' = Append(Tail(queue), f)
    BY <1>2, <1>7 DEF Put, Full
  <2>2. Tail(queue) = SubSeq(accepted, k+2, Len(accepted))
    <3>1. k < Len(accepted)
      BY <1>1, <1>2, <1>7
    <3>2. Tail(SubSeq(accepted, k+1, Len(accepted))) = SubSeq(accepted, k+2, Len(accepted))
      BY <1>1, <3>1, SuffixPop
    <3> QED  BY <1>3, <3>2
  <2>3. SubSeq(accepted', k+2, Len(accepted)+1)
          = Append(SubSeq(accepted, k+2, Len(accepted)), f)
    <3>1. k+1 \in Nat /\ k+1 <= Len(accepted) /\ (k+1)+1 = k+2
      BY <1>1, <1>2, <1>7
    <3>2. SubSeq(accepted', (k+1)+1, Len(accepted)+1)
            = Append(SubSeq(accepted, (k+1)+1, Len(accepted)), f)
      BY <1>1, <1>4, <3>1, SuffixAppend
    <3> QED  BY <3>1, <3>2
  <2>4. queue' \in Seq(Frames) /\ Len(queue') = Len(queue)
    <3>1. queue # <<>>
      BY <1>1, <1>2, <1>7
    <3>2. Tail(queue) \in Seq(Frames) /\ Len(Tail(queue)) = Len(queue) - 1
      BY <1>1, <3>1
    <3> QED  BY <1>2, <2>1, <3>2
  <2>5. k+2 = dropped' + taken + 1
    BY <1>1, <2>1
  <2>6. queue' = SubSeq(accepted', dropped' + taken + 1, Len(accepted'))
    BY <1>5, <2>1, <2>2, <2>3, <2>5, Zenon
  <2>7. Len(queue') = Len(queue) + 1 + dropped - dropped' /\ Len(queue') <= Capacity
    BY <1>1, <1>2, <1>7, <2>1, <2>4
  <2> QED  BY <1>5, <1>7, <2>1, <2>4, <2>6, <2>7, Zenon
<1> QED  BY <1>2, <1>6, <1>7
-----------------------------------------------------------------------------
(* Every action preserves TypeOK. *)

\* Waking a waiter leaves it in one of the wait states.
LEMMA PokedType ==
    ASSUME NEW w \in WaitStates
    PROVE  Poked(w) \in WaitStates /\ Poked(w) # "blocked"
BY DEF Poked, WaitStates

LEMMA NotifyOneType ==
    ASSUME wait \in [Consumers -> WaitStates], NotifyOne
    PROVE  wait' \in [Consumers -> WaitStates]
<1>1. CASE Registered = {}
  BY <1>1 DEF NotifyOne
<1>2. CASE Registered # {}
  <2>1. PICK c \in Registered : wait' = [wait EXCEPT ![c] = Poked(@)]
    BY <1>2 DEF NotifyOne
  <2>2. c \in Consumers
    BY DEF Registered
  <2>3. Poked(wait[c]) \in WaitStates
    BY <2>2, PokedType
  <2> QED  BY <2>1, <2>2, <2>3
<1> QED  BY <1>1, <1>2

(* TypeOK holds in every reachable state; the queue's contents and counts  *)
(* are needed for it, since a frame handed out comes from the queue.       *)
LEMMA TypeStep ==
    ASSUME TypeOK, Conservation, FreshestRetained, [Next]_vars
    PROVE  TypeOK'
<1> USE DEF TypeOK
<1>1. ASSUME NEW f \in Frames, Put(f) PROVE TypeOK'
  <2>1. queue' \in Seq(Frames) /\ accepted' \in Seq(Frames)
    BY <1>1, PutStep
  <2>2. wait' \in [Consumers -> WaitStates]
    BY <1>1, NotifyOneType DEF Put
  <2>3. received' \in Nat /\ dropped' \in Nat
    BY <1>1 DEF Put
  <2>4. UNCHANGED <<running, taken, out>>
    BY <1>1 DEF Put
  <2> QED  BY <2>1, <2>2, <2>3, <2>4
<1>2. ASSUME PopLeft PROVE /\ queue' \in Seq(Frames) /\ taken' \in Nat
                           /\ out' \in {<<>>} \cup {<<f>> : f \in Frames}
                           /\ UNCHANGED <<received, dropped, accepted>>
  BY <1>2, PopLeftStep DEF PopLeft
<1>3. ASSUME NEW c \in Consumers, GetBody(c), UNCHANGED running
      PROVE  TypeOK'
  <2>1. wait' \in [Consumers -> WaitStates]
    BY <1>3 DEF GetBody, WaitStates
  <2>2. CASE PopLeft
    BY <1>2, <1>3, <2>1, <2>2
  <2>3. CASE UNCHANGED <<queueVars, readVars>>
    BY <1>3, <2>1, <2>3 DEF queueVars, readVars
  <2> QED  BY <1>3, <2>2, <2>3 DEF GetBody
<1>4. ASSUME NEW c \in Consumers, Get(c) PROVE TypeOK'
  BY <1>3, <1>4 DEF Get
<1>5. ASSUME NEW c \in Consumers, GetNotified(c) PROVE TypeOK'
  BY <1>3, <1>5 DEF GetNotified
<1>6. ASSUME NEW c \in Consumers, WaitTimeout(c) PROVE TypeOK'
  BY <1>6 DEF WaitTimeout, WaitStates, queueVars, readVars
<1>7. ASSUME NEW c \in Consumers, GetTimedOut(c) PROVE TypeOK'
  BY <1>7 DEF GetTimedOut, WaitStates, queueVars, readVars
<1>8. CASE GetNowait
  BY <1>2, <1>8 DEF GetNowait
<1>9. CASE Reset
  BY <1>9 DEF Reset
<1>10. CASE Stop
  <2>1. wait' \in [Consumers -> WaitStates]
    BY <1>10, PokedType DEF Stop
  <2> QED  BY <1>10, <2>1 DEF Stop, queueVars, readVars
<1>11. CASE UNCHANGED vars
  BY <1>11 DEF vars
<1> QED
  BY <1>1, <1>4, <1>5, <1>6, <1>7, <1>8, <1>9, <1>10, <1>11 DEF Next
-----------------------------------------------------------------------------
(* Every action keeps counts and contents in step. *)

LEMMA ContentsStep ==
    ASSUME TypeOK, Conservation, FreshestRetained, [Next]_vars
    PROVE  Conservation' /\ FreshestRetained'
<1> DEFINE Goal == Conservation' /\ FreshestRetained'
<1>0. /\ received \in Nat /\ dropped \in Nat /\ taken \in Nat
      /\ Len(queue) \in Nat /\ Len(accepted) \in Nat
      /\ Capacity \in Nat
  BY LenProperties, CapacityAssumption DEF TypeOK
<1>1. ASSUME NEW f \in Frames, Put(f) PROVE Goal
  <2>1. /\ Len(accepted') = Len(accepted) + 1
        /\ Len(queue') = Len(queue) + 1 + dropped - dropped'
        /\ Len(queue') <= Capacity
        /\ dropped' \in {dropped, dropped + 1}
    BY <1>1, PutStep
  <2>2. queue' = SubSeq(accepted', dropped' + taken + 1, Len(accepted'))
    BY <1>1, PutStep
  <2>3. received' = received + 1 /\ taken' = taken
    BY <1>1 DEF Put
  <2>4. received = Len(accepted) /\ received = dropped + taken + Len(queue)
    BY DEF Conservation
  <2>5. received' = Len(accepted') /\ received' = dropped' + taken' + Len(queue')
    BY <1>0, <2>1, <2>3, <2>4
  <2>6. Conservation'
    BY <2>1, <2>5 DEF Conservation
  <2>7. FreshestRetained'
    BY <2>2, <2>3, Zenon DEF FreshestRetained
  <2> QED  BY <2>6, <2>7
<1>2. ASSUME PopLeft PROVE Goal
  <2>1. Len(queue') = Len(queue) - 1
    BY <1>2, PopLeftStep
  <2>2. queue' = SubSeq(accepted, dropped + taken + 2, Len(accepted))
    BY <1>2, PopLeftStep
  <2>3. UNCHANGED <<received, dropped, accepted>> /\ taken' = taken + 1
    BY <1>2 DEF PopLeft
  <2>4. /\ received = Len(accepted)
        /\ received = dropped + taken + Len(queue)
        /\ Len(queue) <= Capacity
    BY DEF Conservation
  <2>5. Len(accepted') = Len(accepted)
    BY <2>3
  <2>6. /\ received' = Len(accepted')
        /\ received' = dropped' + taken' + Len(queue')
        /\ Len(queue') <= Capacity
    BY <1>0, <2>1, <2>3, <2>4, <2>5
  <2>7. Conservation'
    BY <2>6 DEF Conservation
  <2>8. dropped + taken + 2 = dropped' + taken' + 1
    BY <1>0, <2>3
  <2>9. FreshestRetained'
    BY <2>2, <2>3, <2>8, Zenon DEF FreshestRetained
  <2> QED  BY <2>7, <2>9
<1>3. ASSUME UNCHANGED <<queueVars, taken>> PROVE Goal
  BY <1>3 DEF queueVars, Conservation, FreshestRetained
<1>4. CASE Reset
  <2>1. Conservation'
    BY <1>0, <1>4 DEF Reset, Conservation
  <2>2. queue' = <<>> /\ accepted' = <<>> /\ Len(accepted') = 0
        /\ dropped' + taken' + 1 = 1
    BY <1>4 DEF Reset
  <2>3. SubSeq(accepted', 1, 0) = <<>>
    BY SubSeqEmpty
  <2> QED  BY <2>1, <2>2, <2>3 DEF FreshestRetained
<1>5. CASE PopLeft \/ UNCHANGED <<queueVars, taken>>
  BY <1>2, <1>3, <1>5
<1>6. ASSUME NEW c \in Consumers, GetBody(c) PROVE Goal
  BY <1>5, <1>6 DEF GetBody, readVars
<1>7. ASSUME NEW c \in Consumers,
             Get(c) \/ GetNotified(c) \/ WaitTimeout(c) \/ GetTimedOut(c)
      PROVE  Goal
  BY <1>3, <1>6, <1>7 DEF Get, GetNotified, WaitTimeout, GetTimedOut, readVars
<1>8. CASE GetNowait
  BY <1>2, <1>8 DEF GetNowait
<1>9. CASE Stop \/ UNCHANGED vars
  BY <1>3, <1>9 DEF Stop, vars, queueVars, readVars
<1> QED  BY <1>1, <1>4, <1>7, <1>8, <1>9 DEF Next
-----------------------------------------------------------------------------
(* Every action preserves NoLostWakeup. *)

\* Whatever a notify is spent on, it leaves fewer sleepers or there were none.
LEMMA NotifyOneWakes ==
    ASSUME TypeOK, NotifyOne, Consumers # {}
    PROVE  /\ Blocked' \subseteq Blocked
           /\ Blocked' # Consumers
<1>1. CASE Registered = {}
  <2>1. wait' = wait
    BY <1>1 DEF NotifyOne
  <2>2. Blocked' = {}
    BY <1>1, <2>1 DEF Blocked, Registered
  <2> QED  BY <2>2
<1>2. CASE Registered # {}
  <2>1. PICK c \in Registered : wait' = [wait EXCEPT ![c] = Poked(@)]
    BY <1>2 DEF NotifyOne
  <2>2. c \in Consumers /\ wait \in [Consumers -> WaitStates]
    BY DEF Registered, TypeOK
  <2>3. wait'[c] # "blocked"
    BY <2>1, <2>2, PokedType
  <2>4. \A d \in Consumers \ {c} : wait'[d] = wait[d]
    BY <2>1, <2>2
  <2> QED  BY <2>2, <2>3, <2>4 DEF Blocked
<1> QED  BY <1>1, <1>2

LEMMA WakeupStep ==
    ASSUME TypeOK, NoLostWakeup, [Next]_vars
    PROVE  NoLostWakeup'
<1>1. ASSUME NEW f \in Frames, Put(f) PROVE NoLostWakeup'
  <2>1. NotifyOne /\ running' = running
    BY <1>1 DEF Put
  <2>2. CASE Consumers = {}
    BY <2>2 DEF NoLostWakeup, Blocked
  <2>3. CASE Consumers # {}
    BY <2>1, <2>3, NotifyOneWakes DEF NoLostWakeup
  <2> QED  BY <2>2, <2>3
<1>2. ASSUME NEW c \in Consumers, wait[c] # "blocked", GetBody(c), running' = running
      PROVE  NoLostWakeup'
  <2>1. wait \in [Consumers -> WaitStates]
    BY DEF TypeOK
  <2>2. CASE wait' = [wait EXCEPT ![c] = "out"]
    <3>1. Blocked' = Blocked /\ Blocked # Consumers
      BY <1>2, <2>1, <2>2 DEF Blocked
    <3> QED  BY <1>2, <3>1 DEF NoLostWakeup
  <2>3. CASE queue = <<>> /\ running /\ UNCHANGED queueVars
    BY <1>2, <2>3 DEF NoLostWakeup, queueVars
  <2> QED  BY <1>2, <2>2, <2>3 DEF GetBody
<1>3. ASSUME NEW c \in Consumers, Get(c) PROVE NoLostWakeup'
  BY <1>2, <1>3 DEF Get
<1>4. ASSUME NEW c \in Consumers, GetNotified(c) PROVE NoLostWakeup'
  BY <1>2, <1>4 DEF GetNotified
<1>5. ASSUME NEW c \in Consumers, NEW w, w # "blocked",
             wait' = [wait EXCEPT ![c] = w], UNCHANGED <<queue, running>>
      PROVE  NoLostWakeup'
  <2>1. wait \in [Consumers -> WaitStates]
    BY DEF TypeOK
  <2>2. Blocked' \subseteq Blocked /\ c \notin Blocked'
    BY <1>5, <2>1 DEF Blocked
  <2> QED  BY <1>5, <2>2 DEF NoLostWakeup
<1>6. ASSUME NEW c \in Consumers, WaitTimeout(c) \/ GetTimedOut(c)
      PROVE  NoLostWakeup'
  BY <1>5, <1>6 DEF WaitTimeout, GetTimedOut, queueVars
<1>7. CASE GetNowait
  BY <1>7 DEF GetNowait, PopLeft, NoLostWakeup, Blocked
<1>8. CASE Reset
  BY <1>8 DEF Reset, NoLostWakeup, Blocked
<1>9. CASE Stop
  <2>1. \A c \in Consumers : wait'[c] # "blocked"
    BY <1>9, PokedType DEF Stop, TypeOK
  <2>2. Blocked' = {}
    BY <2>1 DEF Blocked
  <2> QED  BY <2>2 DEF NoLostWakeup
<1>10. CASE UNCHANGED vars
  BY <1>10 DEF vars, NoLostWakeup, Blocked
<1> QED
  BY <1>1, <1>3, <1>4, <1>6, <1>7, <1>8, <1>9, <1>10 DEF Next
-----------------------------------------------------------------------------
(* The invariants, for every instance. *)

\* A new queue is empty, nothing was put, nobody waits.
LEMMA InitEstablishes == Init => IInv
<1> SUFFICES ASSUME Init PROVE IInv
  OBVIOUS
<1>1. TypeOK
  BY DEF Init, TypeOK, WaitStates
<1>2. Conservation
  BY CapacityAssumption DEF Init, Conservation
<1>3. FreshestRetained
  <2>1. queue = <<>> /\ accepted = <<>> /\ dropped + taken + 1 = 1
    BY DEF Init
  <2>2. SubSeq(accepted, 1, Len(accepted)) = <<>>
    BY <2>1, SubSeqEmpty
  <2> QED  BY <2>1, <2>2, Zenon DEF FreshestRetained
<1>4. NoLostWakeup
  BY DEF Init, NoLostWakeup, Blocked
<1> QED  BY <1>1, <1>2, <1>3, <1>4 DEF IInv

(* IInv is inductive. *)
THEOREM Invariance == Spec => []IInv
<1>1. Init => IInv
  BY InitEstablishes
<1>2. IInv /\ [Next]_vars => IInv'
  BY TypeStep, ContentsStep, WakeupStep DEF IInv
<1> QED  BY <1>1, <1>2, PTL DEF Spec

(* Every variable of the queue keeps its type, whatever the threads do. *)
THEOREM TypeCorrect == Spec => []TypeOK
<1>1. IInv => TypeOK
  BY DEF IInv
<1> QED  BY <1>1, Invariance, PTL

(* put, get, get_nowait and reset never lose a frame from the books: each  *)
(* is queued, handed out or counted as dropped, and the queue is bounded.  *)
THEOREM ConservationHolds == Spec => []Conservation
<1>1. IInv => Conservation
  BY DEF IInv
<1> QED  BY <1>1, Invariance, PTL

(* The queue is always the newest part of what was put, in order: what put *)
(* throws away at a full queue is the oldest frame.                        *)
THEOREM FreshestHolds == Spec => []FreshestRetained
<1>1. IInv => FreshestRetained
  BY DEF IInv
<1> QED  BY <1>1, Invariance, PTL

(* One notify per put is enough for any number of consumers: they never    *)
(* all sleep beside a queued frame, and none sleeps in a stopped queue.    *)
THEOREM WakeupHolds == Spec => []NoLostWakeup
<1>1. IInv => NoLostWakeup
  BY DEF IInv
<1> QED  BY <1>1, Invariance, PTL
-----------------------------------------------------------------------------
(* The queue implements the retention log. *)

\* A put appends to the log, and moves the cursor only at a full queue.
LEMMA PutRefines ==
    ASSUME IInv, NEW f \in Frames, Put(f)
    PROVE  Log!Accept(f)
<1>1. /\ dropped \in Nat /\ taken \in Nat
      /\ Len(queue) \in Nat /\ Len(accepted) \in Nat /\ Capacity \in Nat
  BY LenProperties, CapacityAssumption DEF IInv, TypeOK
<1>2. /\ Len(accepted) = dropped + taken + Len(queue)
      /\ Len(queue) <= Capacity
  BY DEF IInv, Conservation
<1>3. /\ accepted' = Append(accepted, f)
      /\ UNCHANGED <<taken, out>>
  BY DEF Put
<1>4. CASE Len(queue) >= Capacity
  <2>1. dropped' = dropped + 1
    BY <1>4 DEF Put, Full
  <2>2. /\ Len(accepted) - (dropped + taken) = Capacity
        /\ dropped' + taken' = (dropped + taken) + 1
    BY <1>1, <1>2, <1>3, <1>4, <2>1
  <2> QED  BY <1>3, <2>1, <2>2 DEF Log!Accept
<1>5. CASE ~(Len(queue) >= Capacity)
  <2>1. dropped' = dropped
    BY <1>5 DEF Put, Full
  <2>2. /\ Len(accepted) - (dropped + taken) < Capacity
        /\ dropped' + taken' = dropped + taken
    BY <1>1, <1>2, <1>3, <1>5, <2>1
  <2> QED  BY <1>3, <2>1, <2>2 DEF Log!Accept
<1> QED  BY <1>4, <1>5

\* Handing out a frame delivers the one at the cursor.
LEMMA PopRefines ==
    ASSUME IInv, PopLeft
    PROVE  Log!Deliver
<1>1. /\ dropped \in Nat /\ taken \in Nat
      /\ Len(queue) \in Nat /\ Len(accepted) \in Nat
  BY LenProperties DEF IInv, TypeOK
<1>2. Len(queue) > 0
  BY PopLeftStep DEF IInv
<1>3. out' = <<accepted[dropped + taken + 1]>>
  BY PopLeftStep DEF IInv
<1>4. UNCHANGED <<accepted, dropped>> /\ taken' = taken + 1
  BY DEF PopLeft
<1>5. Len(accepted) = dropped + taken + Len(queue)
  BY DEF IInv, Conservation
<1>6. dropped + taken < Len(accepted)
  BY <1>1, <1>2, <1>5
<1>7. dropped' + taken' = dropped + taken + 1
  BY <1>1, <1>4
<1> QED  BY <1>3, <1>4, <1>6, <1>7 DEF Log!Deliver

(* The queue with its locks, waiters and counters behaves as the log with  *)
(* one cursor: every method is a step of the log or leaves it alone.       *)
THEOREM Refinement == Spec => ImplementsLog
<1>1. Init => Log!LogInit
  BY DEF Init, Log!LogInit
<1>2. IInv /\ [Next]_vars => [Log!LogNext]_(Log!logVars)
  <2> SUFFICES ASSUME IInv, [Next]_vars
               PROVE  Log!LogNext \/ UNCHANGED Log!logVars
    OBVIOUS
  <2>1. ASSUME NEW f \in Frames, Put(f) PROVE Log!LogNext
    BY <2>1, PutRefines DEF Log!LogNext
  <2>2. CASE PopLeft
    BY <2>2, PopRefines DEF Log!LogNext
  <2>3. CASE Reset
    BY <2>3 DEF Reset, Log!LogNext, Log!Clear
  <2>4. ASSUME UNCHANGED <<queueVars, readVars>> PROVE UNCHANGED Log!logVars
    BY <2>4 DEF queueVars, readVars, Log!logVars
  <2>5. ASSUME NEW c \in Consumers, GetBody(c)
        PROVE  PopLeft \/ UNCHANGED <<queueVars, readVars>>
    BY <2>5 DEF GetBody
  <2>6. ASSUME NEW c \in Consumers,
               Get(c) \/ GetNotified(c) \/ WaitTimeout(c) \/ GetTimedOut(c)
        PROVE  PopLeft \/ UNCHANGED <<queueVars, readVars>>
    BY <2>5, <2>6 DEF Get, GetNotified, WaitTimeout, GetTimedOut
  <2>7. CASE GetNowait
    BY <2>2, <2>7 DEF GetNowait
  <2>8. CASE Stop \/ UNCHANGED vars
    BY <2>4, <2>8 DEF Stop, vars, queueVars, readVars
  <2> QED
    BY <2>1, <2>2, <2>3, <2>4, <2>6, <2>7, <2>8 DEF Next
<1> QED  BY <1>1, <1>2, Invariance, PTL DEF Spec, ImplementsLog, Log!LogSpec
=============================================================================
