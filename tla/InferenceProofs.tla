---------------------------- MODULE InferenceProofs ----------------------------
(***************************************************************************)
(* What holds of the inference side of the platform: of the framework (F), *)
(* for any number of components and of inference threads, whatever its     *)
(* frame queue does; and of the two-stage component, for any providers,    *)
(* any number of calls and logs of any length.  They share no variable and *)
(* are proved about one after the other.                                   *)
(***************************************************************************)
EXTENDS MCInferenceParts, FiniteSetTheorems, SequenceTheorems, WellFoundedInduction, TLAPS

(***************************************************************************)
(* The framework.                                                          *)
(*                                                                         *)
(* The threads read _component without the lock; that it is not released   *)
(* under them is not the lock's merit but the controller's: it joins the   *)
(* thread before it unloads (QuiescenceInv), and a component that is being *)
(* used is the one that is loaded (UsingInv).                              *)
(***************************************************************************)

\* What load_component has done so far.
LoadInv ==
    /\ fwCtl \in {"initialize", "reload"} =>
          /\ loading \in Components /\ life[loading] = "new"
          /\ fwLock = "controller"
    /\ fwCtl = "initialize" => component = None

\* While stop() is under way the framework is not running.
StopInv ==
    /\ fwCtl \in {"join", "unload"} => ~running
    /\ fwCtl = "join" => thread # None

\* The live thread is the one remembered, and once it was joined there is none.
QuiescenceInv ==
    /\ \A t \in Threads : F!Alive(t) => thread = t
    /\ ~running /\ fwCtl # "join" => \A t \in Threads : ~F!Alive(t)

\* A component that infer() is being called on is the one that is loaded.
UsingInv == \A t \in Threads : fwPc[t] \in {"infer", "hung"} => using[t] = component

FrameworkInv ==
    /\ F!TypeOK /\ LoadInv /\ StopInv /\ F!NoComponentLeak /\ F!LoopSurvives
    /\ ~joinExpired => QuiescenceInv /\ UsingInv
-----------------------------------------------------------------------------
LEMMA FrameworkInit == F!Init => FrameworkInv
<1> SUFFICES ASSUME F!Init PROVE FrameworkInv
  OBVIOUS
<1>1. open \in BOOLEAN /\ wait \in [Threads -> F!Q!WaitStates]
  BY DEF F!Init, F!Q!Init, F!Q!WaitStates
<1>2. F!TypeOK
  BY <1>1 DEF F!Init, F!TypeOK
<1>3. LoadInv /\ StopInv /\ F!NoComponentLeak /\ F!LoopSurvives
  BY NoneAssumption DEF F!Init, LoadInv, StopInv, F!NoComponentLeak, F!LoopSurvives
<1>4. QuiescenceInv /\ UsingInv
  BY DEF F!Init, QuiescenceInv, UsingInv, F!Alive
<1> QED
  BY <1>2, <1>3, <1>4 DEF FrameworkInv

\* The part of the queue's state the framework's type speaks of.
QueueTypes == open \in BOOLEAN /\ wait \in [Threads -> F!Q!WaitStates]

LEMMA PutTypes == ASSUME QueueTypes, NEW f \in Frames, F!Q!Put(f) PROVE QueueTypes'
<1>1. open' = open /\ F!Q!NotifyOne
  BY DEF F!Q!Put
<1> QED
  BY <1>1 DEF QueueTypes, F!Q!NotifyOne, F!Q!Registered, F!Q!Poked, F!Q!WaitStates

LEMMA StopTypes == ASSUME QueueTypes, F!Q!Stop PROVE QueueTypes'
BY DEF QueueTypes, F!Q!Stop, F!Q!Poked, F!Q!WaitStates

LEMMA GetTypes ==
  ASSUME QueueTypes, NEW t \in Threads,
         F!Q!Get(t) \/ F!Q!GetNotified(t) \/ F!Q!WaitTimeout(t) \/ F!Q!GetTimedOut(t)
  PROVE  QueueTypes'
BY DEF QueueTypes, F!Q!Get, F!Q!GetNotified, F!Q!WaitTimeout, F!Q!GetTimedOut, F!Q!GetBody,
       F!Q!WaitStates
-----------------------------------------------------------------------------
\* A call of the platform.
LEMMA ControllerKeeps == FrameworkInv /\ F!Controller => FrameworkInv'
<1> SUFFICES ASSUME FrameworkInv, F!Controller
             PROVE  FrameworkInv'
  OBVIOUS
<1> USE NoneAssumption
        DEF FrameworkInv, F!TypeOK, LoadInv, StopInv, F!NoComponentLeak,
            F!LoopSurvives, QuiescenceInv, UsingInv, F!Alive, F!runVars, F!queueVars
<1>1. ASSUME NEW c \in Components, F!LoadEnter(c)
      PROVE  FrameworkInv'
  BY <1>1 DEF F!LoadEnter
<1>2. CASE F!LoadOk
  BY <1>2 DEF F!LoadOk
<1>3. CASE F!LoadFails
  BY <1>3 DEF F!LoadFails
<1>4. CASE F!Start
  BY <1>4 DEF F!Start
<1>5. CASE F!StopEnter
  <2>1. QueueTypes'
    BY <1>5, StopTypes DEF F!StopEnter, QueueTypes
  <2> QED
    BY <1>5, <2>1 DEF F!StopEnter, QueueTypes
<1>6. CASE F!JoinDone
  BY <1>6 DEF F!JoinDone
<1>7. CASE F!JoinTimeout
  BY <1>7 DEF F!JoinTimeout
<1>8. CASE F!Unload
  BY <1>8 DEF F!Unload
<1> QED
  BY <1>1, <1>2, <1>3, <1>4, <1>5, <1>6, <1>7, <1>8 DEF F!Controller

\* A step of an inference thread; it moves no thread but itself.
LEMMA LoopKeeps == ASSUME NEW t \in Threads PROVE FrameworkInv /\ F!RunLoop(t) => FrameworkInv'
<1> SUFFICES ASSUME FrameworkInv, F!RunLoop(t)
             PROVE  FrameworkInv'
  OBVIOUS
<1> USE NoneAssumption
        DEF FrameworkInv, F!TypeOK, LoadInv, StopInv, F!NoComponentLeak,
            F!LoopSurvives, QuiescenceInv, UsingInv, F!Alive, F!fwVars, F!queueVars, F!Goto
<1>1. CASE F!Top(t)
  BY <1>1 DEF F!Top
<1>2. CASE F!GetFrame(t)
  <2>1. QueueTypes'
    BY <1>2, GetTypes DEF F!GetFrame, QueueTypes
  <2>2. PICK place \in {"check", "top", "get"} :
           /\ fwPc[t] = "get" /\ fwPc' = [fwPc EXCEPT ![t] = place]
           /\ UNCHANGED <<F!fwVars, joinExpired, using, inferred, errors, discarded>>
    BY <1>2 DEF F!GetFrame
  <2> QED
    BY <2>1, <2>2 DEF QueueTypes
<1>3. CASE F!CheckComponent(t)
  BY <1>3 DEF F!CheckComponent
<1>4. CASE F!CallInfer(t)
  BY <1>4 DEF F!CallInfer
<1>5. CASE F!InferReturns(t)
  BY <1>5 DEF F!InferReturns
<1>6. CASE F!InferRaises(t)
  BY <1>6 DEF F!InferRaises
<1>7. CASE F!InferHangs(t)
  BY <1>7 DEF F!InferHangs
<1> QED
  BY <1>1, <1>2, <1>3, <1>4, <1>5, <1>6, <1>7 DEF F!RunLoop

(* The invariant holds after every order of load, unload, start, stop and  *)
(* steps of the inference threads (framework.py 77-179).                   *)
THEOREM FrameworkInvariance == F!Spec => []FrameworkInv
<1>1. FrameworkInv /\ [F!Next]_(F!vars) => FrameworkInv'
  <2> SUFFICES ASSUME FrameworkInv, [F!Next]_(F!vars)
               PROVE  FrameworkInv'
    OBVIOUS
  <2> USE DEF FrameworkInv, F!TypeOK, LoadInv, StopInv, F!NoComponentLeak,
              F!LoopSurvives, QuiescenceInv, UsingInv, F!Alive
  <2>1. ASSUME NEW f \in Frames, F!PutFrame(f)
        PROVE  FrameworkInv'
    <3>1. QueueTypes'
      BY <2>1, PutTypes DEF F!PutFrame, QueueTypes
    <3> QED
      BY <2>1, <3>1 DEF F!PutFrame, QueueTypes, F!fwVars, F!runVars
  <2>2. CASE UNCHANGED F!vars
    BY <2>2 DEF F!vars
  <2> QED
    BY <2>1, <2>2, ControllerKeeps, LoopKeeps DEF F!Next
<1> QED
  BY FrameworkInit, <1>1, PTL DEF F!Spec
-----------------------------------------------------------------------------
(* There is a live inference thread when, and only when, the framework     *)
(* runs, and never more than one, unless a join gave up (start 118-133,    *)
(* stop 135-149).                                                          *)
THEOREM LoopsMatchStateHolds == F!Spec => []LoopsMatchState
<1>1. FrameworkInv => LoopsMatchState
  BY DEF FrameworkInv, QuiescenceInv, LoopsMatchState, F!LoopsMatchState,
         F!StopIsQuiescent, F!SingleLoop
<1> QED
  BY FrameworkInvariance, <1>1, PTL

(* The framework keeps hold of every initialised component until it is     *)
(* released (load_component 84-99, unload_component 103-110).              *)
THEOREM NoComponentLeakHolds == F!Spec => []NoComponentLeak
<1>1. FrameworkInv => NoComponentLeak
  BY DEF FrameworkInv, NoComponentLeak
<1> QED
  BY FrameworkInvariance, <1>1, PTL

(* No component is released under a running infer(), unless a join gave up *)
(* (_run_loop 151-179 calls infer() without the lock).                     *)
THEOREM NoReleaseHolds == F!Spec => []NoReleaseDuringInfer
<1>1. FrameworkInv => NoReleaseDuringInfer
  BY NoneAssumption
  DEF FrameworkInv, F!TypeOK, UsingInv, F!NoComponentLeak, NoReleaseDuringInfer,
      F!NoReleaseDuringInfer
<1> QED
  BY FrameworkInvariance, <1>1, PTL
-----------------------------------------------------------------------------
(***************************************************************************)
(* The two-stage component.                                                *)
(*                                                                         *)
(* infer() and release() keep out of each other's way only as long as no   *)
(* call of the one meets the other (overlap): then the instance has its    *)
(* models while infer() runs (ApartInv), the files of an active log are    *)
(* open and those of no other log are, but for a log that was refused with *)
(* some of them open (LogInv), and the counters are those of the lines     *)
(* written, but for the line that is counted next (CountInv).  All three   *)
(* speak of states no property mentions, and neither property is inductive *)
(* without them.                                                           *)
(***************************************************************************)

Answers == {"not initialized", "no log", "too short", "no model", "log closed", "result"}
AnswerRecords == [answer : Answers, short : BOOLEAN, overlap : BOOLEAN]
Counters == [total : Nat, s1 : Nat, named : Nat]
Seen == {"noise", "box", "model"}
Handles == [Files -> {"none", "open", "closed"}]
SummaryRecords == [stats : Counters, lines : Seq(Seen), overlap : BOOLEAN]

\* What the state variables hold.
Types ==
    /\ request \in Requests
    /\ {initialized, stage1, stage2, active, overlap} \subseteq BOOLEAN
    /\ frame \in [short : BOOLEAN]
    /\ handles \in Handles /\ lock \in {"free", "infer", "release"}
    /\ stats \in Counters
    /\ seen \in Seen
    /\ lines \in Seq(Seen)
    /\ answers \in Seq(AnswerRecords)

\* _log_lock is held by the one that opens, or closes, the log.
LockInv ==
    /\ (lock = "infer") <=> pc \in {"open", "mark"}
    /\ (lock = "release") <=> ctl \in {"close", "summary"}

\* Each counted frame was answered, so the counters stay within the calls.
BoundInv ==
    /\ Len(answers) <= MaxInfers
    /\ pc # "idle" => Len(answers) < MaxInfers
    /\ stats.total <= Len(answers) /\ stats.s1 <= Len(answers) /\ stats.named <= Len(answers)

\* infer() and release() without each other.
ApartInv ==
    /\ ctl \in {"new", "failed"} => pc = "idle"
    /\ ~overlap /\ pc # "idle" => ctl = "ready"
    /\ ctl \in {"ready", "stop"} => initialized /\ stage1 /\ stage2

AllOpen == \A f \in Files : handles[f] = "open"

\* infer() past the opening of the log.
Logging == {"stft", "stage1", "stage2", "log", "line", "count"}

\* The files of an active log are open, and infer() is at work on a frame only
\* with an active log; files are open otherwise only after a refused log.
LogInv ==
    ~overlap =>
        /\ active => AllOpen
        /\ pc = "idle" /\ ~active /\ SomeOpen => LogRefused
        /\ pc = "mark" => AllOpen /\ lines = <<>>
        /\ pc \in {"open", "mark"} => ~active
        /\ pc \in Logging => active
        /\ ctl = "close" => active
        /\ ctl \in {"drop", "released", "raised", "summary"} => ~active

\* The counters once the frame in hand is counted.
Counted(s, what) == [total |-> s.total + 1,
                     s1 |-> s.s1 + Tick(what # "noise"),
                     named |-> s.named + Tick(what = "model")]

\* The counters say what is in the log; a line just written is counted next.
CountInv ==
    ~overlap /\ (active \/ ctl = "summary") =>
        CountsOf(lines) = IF pc = "count" THEN Counted(stats, seen) ELSE stats

\* There is a summary only once release() has come to its end.
SummaryInv ==
    /\ summaries # <<>> => ctl \in {"drop", "released"}
    /\ SummaryIsTrue

ComponentInv ==
    /\ Types /\ LockInv /\ BoundInv /\ ApartInv /\ LogInv /\ CountInv
    /\ summaries \in Seq(SummaryRecords)
    /\ SummaryInv /\ ProvidersAreUsable /\ ResultUnlessReleased
-----------------------------------------------------------------------------
(* What the helpers yield. *)

\* How many lines of a kind a log has is a number.
LEMMA LinesOfType ==
  ASSUME NEW log \in Seq(Seen), NEW what
  PROVE  /\ IsFiniteSet({i \in DOMAIN log : log[i] \in what})
         /\ LinesOf(log, what) \in Nat
<1>1. {i \in DOMAIN log : log[i] \in what} \subseteq 1 .. Len(log)
  OBVIOUS
<1>2. Len(log) \in Nat
  OBVIOUS
<1>3. IsFiniteSet(1 .. Len(log))
  BY <1>2, FS_Interval
<1>4. IsFiniteSet({i \in DOMAIN log : log[i] \in what})
  BY <1>1, <1>3, FS_Subset
<1> QED
  BY <1>4, FS_CardinalityType DEF LinesOf

\* A line more is a line more of its kind.
LEMMA LinesOfAppend ==
  ASSUME NEW log \in Seq(Seen), NEW l \in Seen, NEW what
  PROVE  LinesOf(Append(log, l), what) = LinesOf(log, what) + Tick(l \in what)
<1> DEFINE lns == {i \in DOMAIN log : log[i] \in what}
           n == Len(log) + 1
           more == {i \in DOMAIN Append(log, l) : Append(log, l)[i] \in what}
<1>1. /\ Len(Append(log, l)) = n /\ Append(log, l)[n] = l
      /\ Append(log, l) \in Seq(Seen)
      /\ \A i \in 1 .. Len(log) : Append(log, l)[i] = log[i]
  BY AppendProperties
<1>2. n \in Nat /\ n \notin lns /\ lns \subseteq 1 .. Len(log) /\ DOMAIN Append(log, l) = 1 .. n
      /\ DOMAIN log = 1 .. Len(log)
  BY <1>1
<1>3. CASE l \in what
  <2>1. more = lns \cup {n}
    BY <1>1, <1>2, <1>3
  <2>2. Cardinality(lns \cup {n}) = Cardinality(lns) + 1
    BY <1>2, LinesOfType, FS_AddElement
  <2> QED
    BY <2>1, <2>2, <1>3 DEF LinesOf, Tick
<1>4. CASE l \notin what
  <2>1. more = lns
    BY <1>1, <1>2, <1>4
  <2>2. LinesOf(Append(log, l), what) = LinesOf(log, what)
    BY <2>1 DEF LinesOf
  <2>3. LinesOf(log, what) \in Nat /\ Tick(l \in what) = 0
    BY <1>4, LinesOfType DEF Tick
  <2> QED
    BY <2>2, <2>3
<1> QED
  BY <1>3, <1>4

\* Nothing is counted of an empty log.
LEMMA CountsOfEmpty == CountsOf(<<>>) = NoStats
<1>1. \A what : {i \in DOMAIN <<>> : <<>>[i] \in what} = {}
  OBVIOUS
<1>2. Len(<<>>) = 0 /\ Cardinality({}) = 0
  BY FS_EmptySet
<1> QED
  BY <1>1, <1>2 DEF CountsOf, LinesOf, NoStats

\* A line more is what Count() adds.
LEMMA CountsOfAppend ==
  ASSUME NEW log \in Seq(Seen), NEW l \in Seen
  PROVE  CountsOf(Append(log, l)) = Counted(CountsOf(log), l)
<1>1. Len(Append(log, l)) = Len(log) + 1
  BY AppendProperties
<1>2. Tick(l \in {"box", "model"}) = Tick(l # "noise") /\ Tick(l \in {"model"}) = Tick(l = "model")
  BY DEF Tick, Seen
<1>3. /\ LinesOf(Append(log, l), {"box", "model"})
            = LinesOf(log, {"box", "model"}) + Tick(l # "noise")
      /\ LinesOf(Append(log, l), {"model"}) = LinesOf(log, {"model"}) + Tick(l = "model")
  BY <1>2, LinesOfAppend
<1> QED
  BY <1>1, <1>3 DEF CountsOf, Counted

\* The counters are numbers.
LEMMA CountedType ==
  ASSUME NEW s \in Counters, NEW what
  PROVE  /\ Counted(s, what) \in Counters
         /\ Counted(s, what).total = s.total + 1
         /\ Counted(s, what).s1 \in {s.s1, s.s1 + 1}
         /\ Counted(s, what).named \in {s.named, s.named + 1}
BY DEF Counted, Tick, Counters

\* The best accelerator that is there is there, and no better one is.
LEMMA BestIsFirst ==
  ASSUME NEW r, Usable(r) # {}
  PROVE  Min(Usable(r)) \in Usable(r) /\ \A i \in Usable(r) : Min(Usable(r)) <= i
<1>1. Usable(r) \subseteq Nat
  BY RequestsAssumption DEF Usable
<1>2. PICK m \in Usable(r) : \A i \in Usable(r) : <<i, m>> \notin OpToRel(<, Nat)
  BY <1>1, NatLessThanWellFounded, WFMin
<1>3. \A i \in Usable(r) : m <= i
  <2> SUFFICES ASSUME NEW i \in Usable(r) PROVE m <= i
    OBVIOUS
  <2>1. OpToRel(<, Nat) = {ss \in Nat \X Nat : ss[1] < ss[2]}
    BY DEF OpToRel
  <2>2. <<i, m>> \in Nat \X Nat /\ i \in Nat /\ m \in Nat
    BY <1>1
  <2>3. ~(i < m)
    BY <1>2, <2>1, <2>2
  <2> QED
    BY <2>2, <2>3
<1> QED
  BY <1>3 DEF Min

\* What ProvidersAreUsable says, of any providers ps chosen for a request r.
UsableFor(r, ps) ==
    /\ Last(ps) = Cpu
    /\ Head(ps) \in r.available \cup {Cpu}
    /\ r.device \in r.available => Head(ps) = r.device
    /\ r.device = "auto" =>
          \A p \in r.available \ {Cpu} :
              \E i, j \in DOMAIN Accelerators :
                  i <= j /\ Accelerators[i] = Head(ps) /\ Accelerators[j] = p

\* The provider chosen is there, is the one asked for, and is the best for "auto".
LEMMA ProvidersForIsUsable ==
  ASSUME NEW r \in Requests, NEW ps, ps = ProvidersFor(r)
  PROVE  UsableFor(r, ps)
<1> USE RequestsAssumption DEF ProvidersFor, UsableFor, Last
<1>1. CASE r.device \in r.available
  BY <1>1
<1>2. CASE r.device \notin r.available /\ r.device = "auto" /\ Usable(r) # {}
  <2> DEFINE m == Min(Usable(r))
  <2>1. m \in Usable(r) /\ \A i \in Usable(r) : m <= i
    BY <1>2, BestIsFirst
  <2> HIDE DEF m
  <2>2. ps = <<Accelerators[m], Cpu>>
    BY <1>2 DEF m
  <2>3. ASSUME NEW p \in r.available \ {Cpu}
        PROVE  \E j \in DOMAIN Accelerators : m <= j /\ Accelerators[j] = p
    <3>1. PICK j \in DOMAIN Accelerators : Accelerators[j] = p
      BY DEF ToSet
    <3> QED
      BY <3>1, <2>1 DEF Usable
  <2>4. m \in DOMAIN Accelerators /\ Accelerators[m] \in r.available
    BY <2>1 DEF Usable
  <2>5. Head(ps) = Accelerators[m] /\ ps[Len(ps)] = Cpu
    BY <2>2
  <2> QED
    BY <1>2, <2>3, <2>4, <2>5
<1>3. CASE /\ r.device \notin r.available /\ ~(r.device = "auto" /\ Usable(r) # {})
           /\ r.device \in DOMAIN Names /\ Names[r.device] \in r.available
  <2>1. ps = <<Names[r.device], Cpu>>
    BY <1>3
  <2>2. r.device = "auto" => r.available \ {Cpu} = {}
    BY <1>3 DEF ToSet, Usable
  <2> QED
    BY <1>3, <2>1, <2>2
<1>4. CASE /\ r.device \notin r.available /\ ~(r.device = "auto" /\ Usable(r) # {})
           /\ ~(r.device \in DOMAIN Names /\ Names[r.device] \in r.available)
  <2>1. ps = <<Cpu>>
    BY <1>4
  <2>2. r.device = "auto" => r.available \ {Cpu} = {}
    BY <1>4 DEF ToSet, Usable
  <2> QED
    BY <1>4, <2>1, <2>2
<1> QED
  BY <1>1, <1>2, <1>3, <1>4
-----------------------------------------------------------------------------
LEMMA ComponentInit == Init => ComponentInv
<1> SUFFICES ASSUME Init PROVE ComponentInv
  OBVIOUS
<1> USE MaxInfersAssumption DEF Init
<1>1. Types
  <2>1. /\ {initialized, stage1, stage2, active, overlap} \subseteq BOOLEAN
        /\ frame \in [short : BOOLEAN]
    OBVIOUS
  <2>2. /\ request \in Requests /\ handles \in Handles
        /\ lock \in {"free", "infer", "release"} /\ seen \in Seen
        /\ stats \in Counters
    BY DEF NoStats, Seen, Counters, Handles, All
  <2>3. /\ lines \in Seq(Seen)
        /\ answers \in Seq(AnswerRecords)
    OBVIOUS
  <2> QED
    BY <2>1, <2>2, <2>3 DEF Types
<1>2. LockInv /\ BoundInv /\ ApartInv /\ LogInv /\ CountInv
  BY DEF LockInv, BoundInv, ApartInv, LogInv, CountInv, NoStats, All, SomeOpen, Logging
<1>3. SummaryInv /\ ProvidersAreUsable /\ ResultUnlessReleased
  BY DEF SummaryInv, SummaryIsTrue, ProvidersAreUsable, ResultUnlessReleased
<1>4. summaries \in Seq(SummaryRecords)
  OBVIOUS
<1> QED
  BY <1>1, <1>2, <1>3, <1>4 DEF ComponentInv

\* The models are loaded, or not.
LEMMA InitializeKeeps == ComponentInv /\ Initialize => ComponentInv'
<1> SUFFICES ASSUME ComponentInv, Initialize PROVE ComponentInv'
  OBVIOUS
<1>1. Types'
  BY DEF ComponentInv, Types, Initialize, logVars, inferVars, history
<1>2. LockInv' /\ BoundInv' /\ ApartInv' /\ LogInv' /\ CountInv'
  <2>1. /\ ctl = "new" /\ ctl' \in {"ready", "failed"} /\ pc = "idle"
        /\ ctl' = "ready" => initialized' /\ stage1' /\ stage2'
        /\ UNCHANGED <<active, handles, lock, stats, pc, frame, seen, lines, answers, overlap>>
    BY DEF ComponentInv, ApartInv, Initialize, logVars, inferVars, history
  <2> USE <2>1 DEF ComponentInv
  <2>2. LockInv' /\ BoundInv' /\ ApartInv'
    BY DEF LockInv, BoundInv, ApartInv
  <2>3. (AllOpen' <=> AllOpen) /\ (SomeOpen' <=> SomeOpen) /\ (LogRefused' <=> LogRefused)
    BY DEF AllOpen, SomeOpen, LogRefused
  <2>4. LogInv'
    BY <2>3 DEF LogInv, Logging
  <2>5. CountInv'
    BY DEF CountInv
  <2> QED
    BY <2>2, <2>4, <2>5
<1>3. ProvidersAreUsable'
  <2>1. request' \in Requests /\ request' = request /\ providers' = ProvidersFor(request)
    BY DEF ComponentInv, Types, Initialize
  <2> QED
    BY <2>1, ProvidersForIsUsable DEF ProvidersAreUsable, UsableFor
<1> QED
  BY <1>1, <1>2, <1>3
  DEF ComponentInv, SummaryInv, SummaryIsTrue, ResultUnlessReleased, Initialize, logVars, history
-----------------------------------------------------------------------------
(* infer() *)

\* The answer ResultUnlessReleased wants of the call under way.
Excused(a) == a \in {"result", "no log"} \/ frame.short \/ overlap

\* A call ends: one answer more, and only a short frame or a release() is an
\* excuse for one without a result.
LEMMA ReturnKeeps ==
  ASSUME ComponentInv, pc # "idle", NEW a \in Answers, Return(a),
         Excused(a)
  PROVE  /\ pc' = "idle" /\ frame' = frame /\ seen' = seen
         /\ answers' \in Seq(AnswerRecords)
         /\ Len(answers') = Len(answers) + 1 /\ Len(answers) \in Nat
         /\ Len(answers') <= MaxInfers
         /\ ResultUnlessReleased'
         /\ a = "no log" => LogRefused'
<1> DEFINE e == [answer |-> a, short |-> frame.short, overlap |-> overlap]
<1>1. pc' = "idle" /\ frame' = frame /\ seen' = seen /\ answers' = Append(answers, e)
  BY DEF Return
<1>2. e \in AnswerRecords
  <2>1. overlap \in BOOLEAN /\ frame.short \in BOOLEAN
    BY DEF ComponentInv, Types
  <2> QED
    BY <2>1 DEF AnswerRecords
<1>3. answers \in Seq(AnswerRecords)
  BY DEF ComponentInv, Types
<1>4. (e.answer \in {"result", "no log"} \/ e.short \/ e.overlap) /\ e.answer = a
  BY DEF Excused
<1> HIDE DEF e
<1>5. /\ answers' \in Seq(AnswerRecords)
      /\ Len(answers') = Len(answers) + 1 /\ answers'[Len(answers) + 1] = e
      /\ \A i \in 1 .. Len(answers) : answers'[i] = answers[i]
  BY <1>1, <1>2, <1>3, AppendProperties
<1>6. Len(answers) \in Nat /\ DOMAIN answers = 1 .. Len(answers)
      /\ DOMAIN answers' = 1 .. Len(answers) + 1
  <2>1. Len(answers) \in Nat /\ DOMAIN answers = 1 .. Len(answers)
    BY <1>3, LenProperties
  <2>2. DOMAIN answers' = 1 .. Len(answers')
    BY <1>5, LenProperties
  <2>3. Len(answers') = Len(answers) + 1
    BY <1>5
  <2> QED
    BY <2>1, <2>2, <2>3
<1>7. Len(answers') <= MaxInfers
  <2>1. Len(answers) < MaxInfers
    BY DEF ComponentInv, BoundInv
  <2> QED
    BY <2>1, <1>5, <1>6, MaxInfersAssumption
<1>8. ResultUnlessReleased'
  <2> SUFFICES ASSUME NEW i \in DOMAIN answers'
               PROVE  answers'[i].answer \in {"result", "no log"} \/ answers'[i].short
                        \/ answers'[i].overlap
    BY DEF ResultUnlessReleased
  <2>1. CASE i = Len(answers) + 1
    BY <2>1, <1>4, <1>5
  <2>2. CASE i \in DOMAIN answers
    <3>1. ResultUnlessReleased
      BY DEF ComponentInv
    <3> QED
      BY <2>2, <3>1, <1>5, <1>6 DEF ResultUnlessReleased
  <2>3. Len(answers) \in Nat /\ i \in 1 .. Len(answers) + 1 /\ DOMAIN answers = 1 .. Len(answers)
    BY <1>6
  <2>4. i = Len(answers) + 1 \/ i \in DOMAIN answers
    BY <2>3
  <2> QED
    BY <2>1, <2>2, <2>4
<1>9. a = "no log" => LogRefused'
  <2>1. answers' # <<>> /\ Last(answers') = e
    BY <1>5, <1>6 DEF Last
  <2> QED
    BY <2>1, <1>4 DEF LogRefused
<1> QED
  BY <1>1, <1>5, <1>6, <1>7, <1>8, <1>9

\* The call that ends gives up the lock, if it has it, and leaves the log as it
\* is if the log is active and if infer() is alone.
LEMMA EndKeeps ==
  ASSUME ComponentInv, pc \notin {"idle", "mark", "count"},
         pc' = "idle" /\ frame' = frame /\ seen' = seen,
         answers' \in Seq(AnswerRecords),
         Len(answers') = Len(answers) + 1, Len(answers) \in Nat,
         Len(answers') <= MaxInfers, ResultUnlessReleased',
         lock' = IF pc = "open" THEN "free" ELSE lock,
         handles' \in Handles, lines' \in Seq(Seen),
         \/ overlap
         \/ active /\ UNCHANGED <<handles, lines>>
         \/ ~active /\ LogRefused',
         UNCHANGED <<request, providers, initialized, stage1, stage2, active,
                     stats, ctl, overlap, summaries>>
  PROVE  ComponentInv'
<1> USE DEF ComponentInv
<1>1. Types'
  BY DEF Types
<1>2. LockInv'
  BY DEF LockInv
<1>3. BoundInv'
  <2>1. stats.total \in Nat /\ stats.s1 \in Nat /\ stats.named \in Nat
    BY DEF Types, Counters
  <2>2. stats.total <= Len(answers) /\ stats.s1 <= Len(answers) /\ stats.named <= Len(answers)
    BY DEF BoundInv
  <2> QED
    BY <2>1, <2>2 DEF BoundInv
<1>4. ApartInv'
  BY DEF ApartInv
<1>5. LogInv'
  BY DEF LogInv, AllOpen, SomeOpen, Logging
<1>6. CountInv'
  BY DEF CountInv, ApartInv
<1>7. SummaryInv' /\ ProvidersAreUsable'
  <2>1. ~overlap => ctl = "ready"
    BY DEF ApartInv
  <2> QED
    BY <2>1 DEF SummaryInv, SummaryIsTrue, ProvidersAreUsable
<1> QED
  BY <1>1, <1>2, <1>3, <1>4, <1>5, <1>6, <1>7

\* A call ends without a step of the log.
LEMMA ReturnOnlyKeeps ==
  ASSUME ComponentInv, pc \notin {"idle", "open", "mark", "count"}, NEW a \in Answers, Return(a),
         Excused(a), active \/ overlap,
         UNCHANGED <<modelVars, logVars, ctl, lines, overlap, summaries>>
  PROVE  ComponentInv'
<1>1. /\ pc' = "idle" /\ frame' = frame /\ seen' = seen
      /\ answers' \in Seq(AnswerRecords)
      /\ Len(answers') = Len(answers) + 1 /\ Len(answers) \in Nat
      /\ Len(answers') <= MaxInfers
      /\ ResultUnlessReleased'
  BY ReturnKeeps
<1>2. UNCHANGED <<request, providers, initialized, stage1, stage2, active, handles, lock,
                  stats, ctl, lines, overlap, summaries>>
  BY DEF modelVars, logVars
<1>3. handles' \in Handles /\ lines' \in Seq(Seen)
  BY <1>2 DEF ComponentInv, Types
<1> QED
  BY <1>1, <1>2, <1>3, EndKeeps

\* The thread goes on within infer(), past the log's opening and before its
\* line is written, or writes no line.
LEMMA GoOnKeeps ==
  ASSUME ComponentInv, pc \notin {"idle", "open", "mark", "count"},
         pc' \notin {"idle", "open", "mark", "count"}, pc' # "ensure" => active \/ overlap,
         seen' \in Seen, UNCHANGED <<frame, answers>>,
         UNCHANGED <<modelVars, logVars, ctl, lines, overlap, summaries>>
  PROVE  ComponentInv'
<1>1. UNCHANGED <<request, providers, initialized, stage1, stage2, active, handles, lock,
                  stats, ctl, lines, overlap, summaries, frame, answers>>
  BY DEF modelVars, logVars
<1> USE <1>1 DEF ComponentInv
<1>2. Types'
  BY DEF Types
<1>3. LockInv' /\ BoundInv' /\ ApartInv'
  BY DEF LockInv, BoundInv, ApartInv
<1>4. LogInv' /\ CountInv'
  <2>1. (AllOpen' <=> AllOpen) /\ (pc' # "ensure" => active \/ overlap)
    BY DEF AllOpen
  <2>2. LogInv'
    BY <2>1 DEF LogInv, Logging
  <2>3. CountInv'
    BY DEF CountInv
  <2> QED
    BY <2>2, <2>3
<1>5. SummaryInv' /\ ProvidersAreUsable' /\ ResultUnlessReleased'
  <2>1. SummaryInv'
    <3>1. ~overlap => ctl = "ready"
      BY DEF ApartInv
    <3> QED
      BY <3>1 DEF SummaryInv, SummaryIsTrue
  <2>2. ProvidersAreUsable'
    BY DEF ProvidersAreUsable
  <2>3. ResultUnlessReleased'
    BY DEF ResultUnlessReleased
  <2> QED
    BY <2>1, <2>2, <2>3
<1> QED
  BY <1>2, <1>3, <1>4, <1>5

\* infer() is called.
LEMMA InferKeeps == ASSUME NEW short \in BOOLEAN PROVE ComponentInv /\ Infer(short) => ComponentInv'
<1> SUFFICES ASSUME ComponentInv, Infer(short) PROVE ComponentInv'
  OBVIOUS
<1>1. /\ pc = "idle" /\ ctl \notin {"new", "failed"} /\ Len(answers) < MaxInfers
      /\ overlap' = (overlap \/ ctl # "ready")
      /\ frame' = [short |-> short] /\ seen' = "noise" /\ pc' = "begin"
      /\ UNCHANGED <<request, providers, initialized, stage1, stage2, active, handles, lock,
                     stats, ctl, lines, summaries, answers>>
  BY DEF Infer, modelVars, logVars
<1> USE <1>1 DEF ComponentInv
<1>2. Types'
  <2>1. overlap' \in BOOLEAN /\ (overlap' <=> overlap \/ ctl # "ready")
    BY DEF Types
  <2>2. frame' \in [short : BOOLEAN] /\ seen' \in Seen
    BY DEF Seen
  <2> QED
    BY <2>1, <2>2 DEF Types
<1>3. ~overlap' => ~overlap /\ ctl = "ready"
  OBVIOUS
<1>4. LockInv' /\ BoundInv' /\ ApartInv'
  BY <1>3 DEF LockInv, BoundInv, ApartInv
<1>5. LogInv' /\ CountInv'
  BY <1>3 DEF LogInv, CountInv, AllOpen, SomeOpen, Logging, LogRefused
<1>6. SummaryInv' /\ ProvidersAreUsable' /\ ResultUnlessReleased'
  BY <1>3 DEF SummaryInv, SummaryIsTrue, SomeOpen, LogRefused, ProvidersAreUsable, ResultUnlessReleased
<1> QED
  BY <1>2, <1>4, <1>5, <1>6

\* infer() begins, and the log is looked at for the first time.
LEMMA BeginKeeps == ComponentInv /\ (Begin \/ EnsureLogging) => ComponentInv'
<1> SUFFICES ASSUME ComponentInv, Begin \/ EnsureLogging PROVE ComponentInv'
  OBVIOUS
<1>1. CASE Begin
  <2>1. CASE initialized
    BY <1>1, <2>1, GoOnKeeps DEF Begin, Goto, ComponentInv, Types
  <2>2. CASE ~initialized
    <3>1. overlap
      BY <1>1, <2>2 DEF Begin, ComponentInv, ApartInv
    <3>2. Return("not initialized") /\ "not initialized" \in Answers
      BY <1>1, <2>2 DEF Begin, Answers
    <3>3. Excused("not initialized")
      BY <3>1 DEF Excused
    <3>4. UNCHANGED <<modelVars, logVars, ctl, lines, overlap, summaries>> /\ pc = "begin"
      BY <1>1 DEF Begin
    <3> QED
      BY <3>1, <3>2, <3>3, <3>4, ReturnOnlyKeeps
  <2> QED
    BY <2>1, <2>2
<1>2. CASE EnsureLogging
  <2>1. CASE active
    BY <1>2, <2>1, GoOnKeeps DEF EnsureLogging, Goto, ComponentInv, Types, logVars
  <2>2. CASE ~active
    <3>1. /\ pc = "ensure" /\ lock = "free" /\ lock' = "infer" /\ pc' = "open"
          /\ UNCHANGED <<request, providers, initialized, stage1, stage2, active, handles,
                         stats, ctl, lines, overlap, summaries, frame, seen, answers>>
      BY <1>2, <2>2 DEF EnsureLogging, Goto, modelVars
    <3> USE <3>1 DEF ComponentInv
    <3>2. Types'
      BY DEF Types
    <3>3. LockInv' /\ BoundInv' /\ ApartInv'
      BY DEF LockInv, BoundInv, ApartInv
    <3>4. LogInv' /\ CountInv'
      BY <2>2 DEF LogInv, CountInv, AllOpen, SomeOpen, Logging, LogRefused
    <3>5. SummaryInv' /\ ProvidersAreUsable' /\ ResultUnlessReleased'
      BY DEF SummaryInv, SummaryIsTrue, SomeOpen, LogRefused, ProvidersAreUsable, ResultUnlessReleased
    <3> QED
      BY <3>2, <3>3, <3>4, <3>5
  <2> QED
    BY <2>1, <2>2
<1> QED
  BY <1>1, <1>2

\* The log's files are opened, or the file system refuses them.
LEMMA OpenLogKeeps == ComponentInv /\ OpenLog => ComponentInv'
<1> SUFFICES ASSUME ComponentInv, OpenLog PROVE ComponentInv'
  OBVIOUS
<1>1. /\ pc = "open" /\ lock = "infer"
      /\ UNCHANGED <<request, providers, initialized, stage1, stage2, active, stats, ctl,
                     overlap, summaries>>
  BY DEF OpenLog, modelVars, ComponentInv, LockInv
<1>2. PICK n \in 0 .. 3 : OpenFiles(n)
  BY DEF OpenLog
<1>3. ~active \/ overlap
  BY <1>1 DEF ComponentInv, LogInv
<1>4. handles' \in Handles /\ lines' \in Seq(Seen)
  <2>1. handles \in Handles /\ lines \in Seq(Seen) /\ <<>> \in Seq(Seen)
    BY DEF ComponentInv, Types
  <2>2. /\ handles' = [f \in Files |-> IF f <= n THEN "open" ELSE handles[f]]
        /\ lines' = IF n = 0 THEN lines ELSE <<>>
    BY <1>2 DEF OpenFiles
  <2> QED
    BY <2>1, <2>2 DEF Handles
<1>5. CASE n = 3
  <2>1. /\ pc' = "mark" /\ UNCHANGED <<lock, frame, seen, answers>>
        /\ lines' = <<>> /\ AllOpen'
    BY <1>2, <1>5 DEF OpenFiles, Goto, Files, AllOpen
  <2> USE <1>1, <2>1 DEF ComponentInv
  <2>2. Types'
    BY <1>4 DEF Types
  <2>3. LockInv' /\ BoundInv' /\ ApartInv'
    BY DEF LockInv, BoundInv, ApartInv
  <2>4. LogInv' /\ CountInv'
    BY <1>3 DEF LogInv, CountInv, ApartInv, Logging
  <2>5. SummaryInv' /\ ProvidersAreUsable' /\ ResultUnlessReleased'
    BY DEF SummaryInv, SummaryIsTrue, ProvidersAreUsable, ResultUnlessReleased, ApartInv
  <2> QED
    BY <2>2, <2>3, <2>4, <2>5
<1>6. CASE n # 3
  <2>1. Excused("no log") /\ "no log" \in Answers
    BY DEF Excused, Answers
  <2>2. lock' = "free" /\ Return("no log")
    BY <1>2, <1>6 DEF OpenFiles
  <2>3. /\ pc' = "idle" /\ frame' = frame /\ seen' = seen
        /\ answers' \in Seq(AnswerRecords)
        /\ Len(answers') = Len(answers) + 1 /\ Len(answers) \in Nat
        /\ Len(answers') <= MaxInfers
        /\ ResultUnlessReleased' /\ LogRefused'
    BY <1>1, <2>1, <2>2, ReturnKeeps
  <2> QED
    BY <1>1, <1>3, <1>4, <2>2, <2>3, EndKeeps
<1> QED
  BY <1>5, <1>6

\* The log becomes active, with its counters at zero.
LEMMA MarkActiveKeeps == ComponentInv /\ MarkActive => ComponentInv'
<1> SUFFICES ASSUME ComponentInv, MarkActive PROVE ComponentInv'
  OBVIOUS
<1>1. /\ pc = "mark" /\ active' = TRUE /\ stats' = NoStats /\ lock' = "free" /\ pc' = "stft"
      /\ UNCHANGED <<request, providers, initialized, stage1, stage2, handles, ctl, lines,
                     overlap, summaries, frame, seen, answers>>
  BY DEF MarkActive, Goto, modelVars
<1>2. lock = "infer"
  BY <1>1 DEF ComponentInv, LockInv
<1> USE <1>1, <1>2 DEF ComponentInv
<1>3. Types'
  BY DEF Types, NoStats, Counters
<1>4. LockInv' /\ ApartInv'
  BY DEF LockInv, ApartInv
<1>5. BoundInv'
  <2>1. Len(answers) \in Nat
    BY LenProperties DEF Types
  <2>2. stats'.total = 0 /\ stats'.s1 = 0 /\ stats'.named = 0
    BY DEF NoStats
  <2>3. Len(answers) < MaxInfers
    BY DEF BoundInv
  <2> QED
    BY <2>1, <2>2, <2>3, MaxInfersAssumption DEF BoundInv
<1>6. LogInv'
  BY DEF LogInv, ApartInv, AllOpen, SomeOpen, Logging
<1>7. CountInv'
  <2>1. ~overlap => lines = <<>>
    BY DEF LogInv
  <2> QED
    BY <2>1, CountsOfEmpty DEF CountInv
<1>8. SummaryInv' /\ ProvidersAreUsable' /\ ResultUnlessReleased'
  BY DEF SummaryInv, SummaryIsTrue, SomeOpen, LogRefused, ProvidersAreUsable, ResultUnlessReleased
<1> QED
  BY <1>3, <1>4, <1>5, <1>6, <1>7, <1>8

\* The spectrogram and the two stages.
LEMMA StagesKeep == ComponentInv /\ (Stft \/ Stage1 \/ Stage2) => ComponentInv'
<1> SUFFICES ASSUME ComponentInv, Stft \/ Stage1 \/ Stage2 PROVE ComponentInv'
  OBVIOUS
<1>1. /\ UNCHANGED <<modelVars, logVars, ctl, lines, overlap, summaries>>
      /\ pc \in {"stft", "stage1", "stage2"}
  BY DEF Stft, Stage1, Stage2
<1>2. ~overlap => stage1 /\ stage2
  BY <1>1 DEF ComponentInv, ApartInv
<1>3. active \/ overlap
  BY <1>1 DEF ComponentInv, LogInv, Logging
<1>4. seen \in Seen /\ "noise" \in Seen /\ "box" \in Seen /\ "model" \in Seen
  BY DEF ComponentInv, Types, Seen
<1>5. CASE Stft
  <2>1. CASE frame.short
    <3>1. Return("too short") /\ "too short" \in Answers /\ Excused("too short")
      BY <1>5, <2>1 DEF Stft, Answers, Excused
    <3> QED
      BY <3>1, <1>1, <1>3, ReturnOnlyKeeps
  <2>2. CASE ~frame.short
    BY <1>1, <1>3, <1>4, <1>5, <2>2, GoOnKeeps DEF Stft, Goto
  <2> QED
    BY <2>1, <2>2
<1>6. CASE Return("no model") /\ (~stage1 \/ ~stage2)
  <2>1. Return("no model") /\ "no model" \in Answers /\ Excused("no model")
    BY <1>2, <1>6 DEF Answers, Excused
  <2> QED
    BY <2>1, <1>1, <1>3, ReturnOnlyKeeps
<1>7. CASE Stage1 /\ stage1
  BY <1>1, <1>3, <1>4, <1>7, GoOnKeeps DEF Stage1
<1>8. CASE Stage2 /\ ~(Return("no model") /\ ~stage2)
  BY <1>1, <1>3, <1>4, <1>8, GoOnKeeps DEF Stage2, Goto
<1> QED
  BY <1>5, <1>6, <1>7, <1>8 DEF Stage1, Stage2

\* The log is looked at again, without the lock.
LEMMA WriteLogKeeps == ComponentInv /\ WriteLog => ComponentInv'
<1> SUFFICES ASSUME ComponentInv, WriteLog PROVE ComponentInv'
  OBVIOUS
<1>1. UNCHANGED <<modelVars, logVars, ctl, lines, overlap, summaries>> /\ pc = "log"
  BY DEF WriteLog
<1>2. CASE active
  BY <1>1, <1>2, GoOnKeeps DEF WriteLog, Goto, ComponentInv, Types
<1>3. CASE ~active
  <2>1. Return("result") /\ "result" \in Answers /\ Excused("result")
    BY <1>3 DEF WriteLog, Answers, Excused
  <2>2. overlap
    BY <1>1, <1>3 DEF ComponentInv, LogInv, Logging
  <2> QED
    BY <2>1, <2>2, <1>1, ReturnOnlyKeeps
<1> QED
  BY <1>2, <1>3

\* A line is written; it is counted next.
LEMMA WriteLineKeeps == ComponentInv /\ WriteLine => ComponentInv'
<1> SUFFICES ASSUME ComponentInv, WriteLine PROVE ComponentInv'
  OBVIOUS
<1>1. pc = "line" /\ UNCHANGED <<modelVars, logVars, ctl, overlap, summaries>>
  BY DEF WriteLine
<1>2. CASE handles[1] = "open"
  <2>1. /\ lines' = Append(lines, seen) /\ pc' = "count"
        /\ UNCHANGED <<request, providers, initialized, stage1, stage2, active, handles, lock,
                       stats, ctl, overlap, summaries, frame, seen, answers>>
    BY <1>1, <1>2 DEF WriteLine, Goto, modelVars, logVars
  <2>2. lines \in Seq(Seen) /\ seen \in Seen
    BY DEF ComponentInv, Types
  <2>3. lines' \in Seq(Seen)
    BY <2>1, <2>2, AppendProperties
  <2> USE <1>1, <2>1 DEF ComponentInv
  <2>4. Types'
    BY <2>3 DEF Types
  <2>5. LockInv' /\ BoundInv' /\ ApartInv'
    BY DEF LockInv, BoundInv, ApartInv
  <2>6. LogInv'
    BY DEF LogInv, AllOpen, SomeOpen, Logging
  <2>7. CountInv'
    <3>1. CountsOf(lines') = Counted(CountsOf(lines), seen)
      BY <2>2, CountsOfAppend
    <3>2. ~overlap => CountsOf(lines) = stats
      BY DEF CountInv, LogInv, Logging
    <3> QED
      BY <3>1, <3>2 DEF CountInv
  <2>8. SummaryInv' /\ ProvidersAreUsable' /\ ResultUnlessReleased'
    <3>1. SummaryInv'
      <4>1. ~overlap => ctl = "ready"
        BY DEF ApartInv
      <4> QED
        BY <4>1 DEF SummaryInv, SummaryIsTrue
    <3>2. ProvidersAreUsable'
      BY DEF ProvidersAreUsable
    <3>3. ResultUnlessReleased'
      BY DEF ResultUnlessReleased
    <3> QED
      BY <3>1, <3>2, <3>3
  <2> QED
    BY <2>3, <2>4, <2>5, <2>6, <2>7, <2>8
<1>3. CASE handles[1] # "open"
  <2>1. overlap
    BY <1>1, <1>3 DEF ComponentInv, LogInv, Logging, AllOpen, Files
  <2>2. Return("log closed") /\ "log closed" \in Answers /\ Excused("log closed")
    BY <1>3, <2>1 DEF WriteLine, Answers, Excused
  <2>3. UNCHANGED lines
    BY <1>3 DEF WriteLine
  <2> QED
    BY <1>1, <2>1, <2>2, <2>3, ReturnOnlyKeeps
<1> QED
  BY <1>2, <1>3

\* The frame is counted and the call ends.
LEMMA CountKeeps == ComponentInv /\ Count => ComponentInv'
<1> SUFFICES ASSUME ComponentInv, Count PROVE ComponentInv'
  OBVIOUS
<1>1. /\ pc = "count" /\ stats' = Counted(stats, seen)
      /\ UNCHANGED <<request, providers, initialized, stage1, stage2, active, handles, lock,
                     ctl, lines, overlap, summaries>>
  BY DEF Count, Counted, modelVars
<1>2. Return("result") /\ "result" \in Answers /\ Excused("result")
  BY DEF Count, Answers, Excused
<1>3. /\ pc' = "idle" /\ frame' = frame /\ seen' = seen
      /\ answers' \in Seq(AnswerRecords)
      /\ Len(answers') = Len(answers) + 1 /\ Len(answers) \in Nat
      /\ Len(answers') <= MaxInfers
      /\ ResultUnlessReleased'
  BY <1>1, <1>2, ReturnKeeps
<1>4. stats \in Counters
  BY DEF ComponentInv, Types
<1>5. /\ stats' \in Counters /\ stats'.total = stats.total + 1
      /\ stats'.s1 \in {stats.s1, stats.s1 + 1} /\ stats'.named \in {stats.named, stats.named + 1}
  BY <1>1, <1>4, CountedType
<1> USE <1>1, <1>3 DEF ComponentInv
<1>6. Types'
  BY <1>5 DEF Types
<1>7. LockInv' /\ ApartInv'
  BY DEF LockInv, ApartInv
<1>8. BoundInv'
  <2>1. stats.total \in Nat /\ stats.s1 \in Nat /\ stats.named \in Nat
    BY <1>4 DEF Counters
  <2>2. stats.total <= Len(answers) /\ stats.s1 <= Len(answers) /\ stats.named <= Len(answers)
    BY DEF BoundInv
  <2>3. stats'.total <= Len(answers') /\ stats'.s1 <= Len(answers') /\ stats'.named <= Len(answers')
    BY <1>5, <2>1, <2>2
  <2> QED
    BY <2>3 DEF BoundInv
<1>9. LogInv' /\ CountInv'
  <2>1. (AllOpen' <=> AllOpen) /\ (active \/ overlap)
    BY DEF AllOpen, LogInv, Logging
  <2>2. LogInv'
    BY <2>1 DEF LogInv, Logging
  <2>3. ~overlap => ctl = "ready" /\ active /\ CountsOf(lines) = Counted(stats, seen)
    BY <2>1 DEF CountInv, ApartInv
  <2>4. CountInv'
    BY <2>3 DEF CountInv
  <2> QED
    BY <2>2, <2>4
<1>10. SummaryInv' /\ ProvidersAreUsable'
  <2>1. ~overlap => ctl = "ready"
    BY DEF ApartInv
  <2> QED
    BY <2>1 DEF SummaryInv, SummaryIsTrue, ProvidersAreUsable
<1> QED
  BY <1>6, <1>7, <1>8, <1>9, <1>10
-----------------------------------------------------------------------------
(* release() *)

\* release() is called, and finds the log active or not.
LEMMA ReleaseKeeps == ComponentInv /\ (Release \/ StopLogging) => ComponentInv'
<1> SUFFICES ASSUME ComponentInv, Release \/ StopLogging PROVE ComponentInv'
  OBVIOUS
<1>1. CASE Release
  <2>1. /\ ctl = "ready" /\ ctl' = "stop" /\ (overlap' <=> overlap \/ pc # "idle")
        /\ overlap' \in BOOLEAN
        /\ UNCHANGED <<request, providers, initialized, stage1, stage2, active, handles, lock,
                       stats, pc, frame, seen, lines, answers, summaries>>
    BY <1>1 DEF Release, modelVars, logVars, inferVars, ComponentInv, Types
  <2>2. ~overlap' => ~overlap /\ pc = "idle"
    BY <2>1
  <2> USE <2>1, <2>2 DEF ComponentInv
  <2>3. Types'
    BY DEF Types
  <2>4. LockInv' /\ BoundInv' /\ ApartInv'
    BY DEF LockInv, BoundInv, ApartInv
  <2>5. LogInv' /\ CountInv'
    BY DEF LogInv, CountInv, AllOpen, SomeOpen, Logging, LogRefused
  <2>6. SummaryInv' /\ ProvidersAreUsable' /\ ResultUnlessReleased'
    BY DEF SummaryInv, SummaryIsTrue, SomeOpen, LogRefused, ProvidersAreUsable, ResultUnlessReleased
  <2> QED
    BY <2>3, <2>4, <2>5, <2>6
<1>2. CASE StopLogging
  <2>1. /\ ctl = "stop"
        /\ \/ active /\ lock = "free" /\ lock' = "release" /\ ctl' = "close"
           \/ ~active /\ lock' = lock /\ ctl' = "drop"
        /\ UNCHANGED <<request, providers, initialized, stage1, stage2, active, handles, stats,
                       pc, frame, seen, lines, answers, overlap, summaries>>
    BY <1>2 DEF StopLogging, modelVars, inferVars, history
  <2> USE <2>1 DEF ComponentInv
  <2>2. Types'
    BY DEF Types
  <2>3. LockInv' /\ BoundInv' /\ ApartInv'
    BY DEF LockInv, BoundInv, ApartInv
  <2>4. LogInv' /\ CountInv'
    BY DEF LogInv, CountInv, AllOpen, SomeOpen, Logging, LogRefused
  <2>5. SummaryInv' /\ ProvidersAreUsable' /\ ResultUnlessReleased'
    BY DEF SummaryInv, SummaryIsTrue, SomeOpen, LogRefused, ProvidersAreUsable, ResultUnlessReleased
  <2> QED
    BY <2>2, <2>3, <2>4, <2>5
<1> QED
  BY <1>1, <1>2

\* The files are closed.
LEMMA CloseLogKeeps == ComponentInv /\ CloseLog => ComponentInv'
<1> SUFFICES ASSUME ComponentInv, CloseLog PROVE ComponentInv'
  OBVIOUS
<1>1. /\ ctl = "close" /\ ctl' = "summary" /\ active' = FALSE /\ handles' = All("closed")
      /\ UNCHANGED <<request, providers, initialized, stage1, stage2, lock, stats,
                     pc, frame, seen, lines, answers, overlap, summaries>>
  BY DEF CloseLog, modelVars, inferVars, history
<1> USE <1>1 DEF ComponentInv
<1>2. Types' /\ ~SomeOpen'
  BY DEF Types, Handles, All, SomeOpen
<1>3. LockInv' /\ BoundInv' /\ ApartInv'
  BY DEF LockInv, BoundInv, ApartInv
<1>4. LogInv'
  BY <1>2 DEF LogInv, ApartInv, Logging
<1>5. CountInv'
  BY DEF CountInv, ApartInv, LogInv
<1>6. SummaryInv' /\ ProvidersAreUsable' /\ ResultUnlessReleased'
  BY DEF SummaryInv, SummaryIsTrue, SomeOpen, LogRefused, ProvidersAreUsable, ResultUnlessReleased
<1> QED
  BY <1>2, <1>3, <1>4, <1>5, <1>6

\* The summary is written, or the file system refuses it and release() raises.
LEMMA WriteSummaryKeeps == ComponentInv /\ WriteSummary => ComponentInv'
<1> SUFFICES ASSUME ComponentInv, WriteSummary PROVE ComponentInv'
  OBVIOUS
<1>1. /\ ctl = "summary" /\ lock' = "free"
      /\ UNCHANGED <<request, providers, initialized, stage1, stage2, active, stats,
                     pc, frame, seen, lines, answers, overlap>>
  BY DEF WriteSummary, modelVars, inferVars
<1>2. lock = "release" /\ summaries = <<>> /\ pc \notin {"open", "mark"}
  BY <1>1 DEF ComponentInv, LockInv, SummaryInv
<1>3. CASE /\ ctl' = "drop" /\ handles' = All("none")
           /\ summaries' = Append(summaries,
                             [stats |-> stats, lines |-> lines, overlap |-> overlap])
  <2> DEFINE s == [stats |-> stats, lines |-> lines, overlap |-> overlap]
  <2>1. s \in SummaryRecords
    <3>1. stats \in Counters /\ lines \in Seq(Seen) /\ overlap \in BOOLEAN
      BY DEF ComponentInv, Types
    <3> QED
      BY <3>1 DEF SummaryRecords
  <2>2. ~s.overlap => s.stats = CountsOf(s.lines)
    <3>1. s.overlap = overlap /\ s.stats = stats /\ s.lines = lines
      OBVIOUS
    <3>2. ~overlap => pc = "idle"
      BY <1>1 DEF ComponentInv, ApartInv
    <3>3. ~overlap => CountsOf(lines) = stats
      BY <1>1, <3>2 DEF ComponentInv, CountInv
    <3> QED
      BY <3>1, <3>3
  <2> HIDE DEF s
  <2>3. summaries' = <<s>>
    BY <1>2, <1>3 DEF s
  <2>4. /\ summaries' \in Seq(SummaryRecords) /\ Len(summaries') = 1 /\ DOMAIN summaries' = {1}
        /\ summaries'[1] = s /\ summaries' # <<>>
    BY <2>1, <2>3
  <2>5. ctl' = "drop" /\ handles' = All("none")
    BY <1>3
  <2> USE <1>1, <1>2, <2>5 DEF ComponentInv
  <2>6. Types' /\ ~SomeOpen'
    BY DEF Types, Handles, All, SomeOpen
  <2>7. LockInv' /\ BoundInv' /\ ApartInv'
    BY DEF LockInv, BoundInv, ApartInv
  <2>8. LogInv' /\ CountInv'
    BY <2>6 DEF LogInv, CountInv, ApartInv, Logging
  <2>9. SummaryInv'
    BY <2>2, <2>4 DEF SummaryInv, SummaryIsTrue
  <2>10. ProvidersAreUsable' /\ ResultUnlessReleased'
    BY DEF ProvidersAreUsable, ResultUnlessReleased
  <2> QED
    BY <2>4, <2>6, <2>7, <2>8, <2>9, <2>10
<1>4. CASE ctl' = "raised" /\ UNCHANGED <<handles, summaries>>
  <2> USE <1>1, <1>2, <1>4 DEF ComponentInv
  <2>1. Types'
    BY DEF Types
  <2>2. LockInv' /\ BoundInv' /\ ApartInv'
    BY DEF LockInv, BoundInv, ApartInv
  <2>3. LogInv' /\ CountInv'
    BY DEF LogInv, CountInv, AllOpen, SomeOpen, Logging, LogRefused
  <2>4. SummaryInv' /\ ProvidersAreUsable' /\ ResultUnlessReleased'
    BY DEF SummaryInv, SummaryIsTrue, SomeOpen, LogRefused, ProvidersAreUsable, ResultUnlessReleased
  <2> QED
    BY <2>1, <2>2, <2>3, <2>4
<1> QED
  BY <1>3, <1>4 DEF WriteSummary

\* The models are dropped.
LEMMA DropModelsKeeps == ComponentInv /\ DropModels => ComponentInv'
<1> SUFFICES ASSUME ComponentInv, DropModels PROVE ComponentInv'
  OBVIOUS
<1>1. /\ ctl = "drop" /\ ctl' = "released"
      /\ stage1' = FALSE /\ stage2' = FALSE /\ initialized' = FALSE
      /\ UNCHANGED <<request, providers, active, handles, lock, stats,
                     pc, frame, seen, lines, answers, overlap, summaries>>
  BY DEF DropModels, logVars, inferVars, history
<1> USE <1>1 DEF ComponentInv
<1>2. Types'
  BY DEF Types
<1>3. LockInv' /\ BoundInv' /\ ApartInv'
  BY DEF LockInv, BoundInv, ApartInv
<1>4. LogInv' /\ CountInv'
  BY DEF LogInv, CountInv, AllOpen, SomeOpen, Logging, LogRefused
<1>5. SummaryInv' /\ ProvidersAreUsable' /\ ResultUnlessReleased'
  <2>1. ~overlap /\ SomeOpen => LogRefused
    BY DEF LogInv, ApartInv
  <2>2. (SomeOpen' <=> SomeOpen) /\ (LogRefused' <=> LogRefused)
    BY DEF SomeOpen, LogRefused
  <2>3. SummaryInv'
    BY <2>1, <2>2 DEF SummaryInv, SummaryIsTrue
  <2> QED
    BY <2>3 DEF ProvidersAreUsable, ResultUnlessReleased
<1> QED
  BY <1>2, <1>3, <1>4, <1>5
-----------------------------------------------------------------------------
(* The invariant holds whatever infer() and release() make of each other   *)
(* (component.py 98-175, 240-258, 312-437).                                *)
THEOREM ComponentInvariance == Spec => []ComponentInv
<1>1. ComponentInv /\ [Next]_vars => ComponentInv'
  <2> SUFFICES ASSUME ComponentInv, [Next]_vars PROVE ComponentInv'
    OBVIOUS
  <2>1. CASE UNCHANGED vars
    <3>1. UNCHANGED <<request, providers, initialized, stage1, stage2, active, handles, lock,
                     stats, pc, frame, seen, ctl, lines, answers, overlap, summaries>>
      BY <2>1 DEF vars, modelVars, logVars, inferVars, history
    <3> USE <3>1 DEF ComponentInv
    <3>2. Types'
      BY DEF Types
    <3>3. LockInv' /\ BoundInv' /\ ApartInv'
      BY DEF LockInv, BoundInv, ApartInv
    <3>4. LogInv' /\ CountInv'
      BY DEF LogInv, CountInv, AllOpen, SomeOpen, Logging, LogRefused
    <3>5. SummaryInv' /\ ProvidersAreUsable' /\ ResultUnlessReleased'
      BY DEF SummaryInv, SummaryIsTrue, SomeOpen, LogRefused, ProvidersAreUsable, ResultUnlessReleased
    <3> QED
      BY <3>2, <3>3, <3>4, <3>5
  <2>2. CASE Initialize \/ Release \/ \E short \in BOOLEAN : Infer(short)
    BY <2>2, InitializeKeeps, ReleaseKeeps, InferKeeps
  <2>3. CASE InferStep
    BY <2>3, BeginKeeps, OpenLogKeeps, MarkActiveKeeps, StagesKeep, WriteLogKeeps,
       WriteLineKeeps, CountKeeps DEF InferStep
  <2>4. CASE ReleaseStep
    BY <2>4, ReleaseKeeps, CloseLogKeeps, WriteSummaryKeeps, DropModelsKeeps DEF ReleaseStep
  <2> QED
    BY <2>1, <2>2, <2>3, <2>4 DEF Next
<1> QED
  BY ComponentInit, <1>1, PTL DEF Spec

(* An instance that was initialised infers, with providers that are there  *)
(* and the best of them for "auto": no frame of full length that met no    *)
(* release() fails, unless the file system refuses the log (infer,         *)
(* 312-437, _map_device_to_onnx_providers 258-311).                        *)
THEOREM InferWorksHolds == Spec => []InferWorks
<1>1. ComponentInv => InferWorks
  <2> SUFFICES ASSUME ComponentInv PROVE InferWorks
    OBVIOUS
  <2>1. stats \in [total : 0 .. MaxInfers, s1 : 0 .. MaxInfers, named : 0 .. MaxInfers]
    <3>1. stats \in [total : Nat, s1 : Nat, named : Nat] /\ Len(answers) \in Nat
      BY LenProperties DEF ComponentInv, Types, Counters
    <3>2. /\ Len(answers) <= MaxInfers
          /\ stats.total <= Len(answers) /\ stats.s1 <= Len(answers) /\ stats.named <= Len(answers)
      BY DEF ComponentInv, BoundInv
    <3> QED
      BY <3>1, <3>2, MaxInfersAssumption
  <2>2. ToSet(lines) \subseteq Seen
    BY DEF ComponentInv, Types, ToSet
  <2>3. {initialized, stage1, stage2, active, overlap, frame.short} \subseteq BOOLEAN
    <3>1. frame.short \in BOOLEAN
      BY DEF ComponentInv, Types
    <3> QED
      BY <3>1 DEF ComponentInv, Types
  <2>4. /\ (lock = "infer") <=> pc \in {"open", "mark"}
        /\ (lock = "release") <=> ctl \in {"close", "summary"}
    BY DEF ComponentInv, LockInv
  <2>5. /\ request \in Requests /\ seen \in Seen /\ Len(answers) <= MaxInfers
        /\ handles \in [Files -> {"none", "open", "closed"}] /\ lock \in {"free", "infer", "release"}
    BY DEF ComponentInv, Types, BoundInv, Handles
  <2>6. TypeOK
    BY <2>1, <2>2, <2>3, <2>4, <2>5 DEF TypeOK, Seen
  <2> QED
    BY <2>6 DEF ComponentInv, InferWorks
<1> QED
  BY ComponentInvariance, <1>1, PTL

(* A log closed with no infer() under way has a summary that counts its    *)
(* lines, and only one, for logs of any length; and release() leaves a     *)
(* file open only after an infer() that was refused its log (_ensure_      *)
(* logging 98-120, _write_log 122-152, _stop_logging 154-175).             *)
THEOREM SummaryIsTrueHolds == Spec => []SummaryIsTrue
<1>1. ComponentInv => SummaryIsTrue
  BY DEF ComponentInv, SummaryInv
<1> QED
  BY ComponentInvariance, <1>1, PTL
================================================================================
