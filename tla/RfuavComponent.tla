---------------------------- MODULE RfuavComponent ----------------------------
(***************************************************************************)
(* components/rfuav-two-stage/component.py: one instance of the two-stage  *)
(* detector, its debug log and its counters.                               *)
(*                                                                         *)
(* The platform makes an instance for each session and initialises it.     *)
(* The inference thread then calls infer(); the event loop calls release() *)
(* when the session ends, having waited at most five seconds for that      *)
(* thread, so that release() may run under an infer().  The log is opened  *)
(* by the first infer() and closed by release(), both under _log_lock, but *)
(* _logging_active is also read without it.                                *)
(***************************************************************************)
EXTENDS Integers, Sequences, FiniteSets, SequencesExt

CONSTANTS Accelerators,  \* sequence of providers, as "auto" prefers them
          Names,         \* function: short device names to providers
          Requests,      \* initialisations: [device, available]
          MaxInfers      \* bound: calls of infer()

CONSTANT Cpu             \* CPUExecutionProvider

ASSUME RequestsAssumption ==
    /\ Accelerators \in Seq(ToSet(Accelerators))
    /\ "auto" \notin ToSet(Accelerators) \cup {Cpu}
    /\ \A r \in Requests : r.available \subseteq ToSet(Accelerators) \cup {Cpu}

ASSUME MaxInfersAssumption == MaxInfers \in Nat

VARIABLES request,     \* the arguments of initialize()
          providers,   \* _active_providers
          initialized, \* _initialized
          stage1, stage2, \* whether the models are loaded
          active,      \* _logging_active
          handles,     \* function: the log's files to "none", "open" or "closed"
          lock,        \* _log_lock: "free", "infer" or "release"
          stats,       \* _stats_total, _stats_s1_frames, Sum(_stats_model_dist)
          pc,          \* inference thread
          frame,       \* the frame infer() works on: is it short?
          seen,        \* its detections so far: "noise", "box", "model"
          ctl,         \* the event loop
          lines,       \* history: what inference.log holds
          answers,     \* history: how the calls of infer() ended
          overlap,     \* history: an infer() and a release() met
          summaries    \* history: what summary.json got, and the log's lines

modelVars == <<request, providers, initialized, stage1, stage2>>
logVars == <<active, handles, lock, stats>>
inferVars == <<pc, frame, seen>>
history == <<lines, answers, overlap, summaries>>
vars == <<modelVars, logVars, inferVars, ctl, history>>

NoStats == [total |-> 0, s1 |-> 0, named |-> 0]

\* inference.log, yolo_raw.jsonl and stage2_raw.jsonl, as they are opened.
\* infer() has nothing to write to the last two.
Files == 1 .. 3
All(state) == [f \in Files |-> state]

Init ==
    /\ request \in Requests /\ providers = <<>>
    /\ initialized = FALSE /\ stage1 = FALSE /\ stage2 = FALSE
    /\ active = FALSE /\ handles = All("none") /\ lock = "free" /\ stats = NoStats
    /\ pc = "idle" /\ frame = [short |-> FALSE] /\ seen = "noise"
    /\ ctl = "new"
    /\ lines = <<>> /\ answers = <<>> /\ overlap = FALSE /\ summaries = <<>>
-----------------------------------------------------------------------------
(* initialize() *)

\* The accelerators that are there, by their place in the order of preference.
Usable(r) == {i \in DOMAIN Accelerators : Accelerators[i] \in r.available}

\* What the models are loaded with: the provider asked for by its own name,
\* the best one for "auto", the one a short name stands for; else the CPU.
ProvidersFor(r) ==
    IF r.device \in r.available THEN <<r.device, Cpu>>
    ELSE IF r.device = "auto" /\ Usable(r) # {} THEN <<Accelerators[Min(Usable(r))], Cpu>>
    ELSE IF r.device \in DOMAIN Names /\ Names[r.device] \in r.available
         THEN <<Names[r.device], Cpu>>
    ELSE <<Cpu>>

\* A model file may be missing: the exception leaves the instance half loaded,
\* and the framework does not keep it.
Initialize ==
    /\ ctl = "new"
    /\ providers' = ProvidersFor(request)
    /\ \E s1, s2 \in BOOLEAN :
          /\ s2 => s1
          /\ stage1' = s1 /\ stage2' = s2
          /\ initialized' = s2
          /\ ctl' = IF s2 THEN "ready" ELSE "failed"
    /\ UNCHANGED <<request, logVars, inferVars, history>>

\* health_check
Healthy == initialized /\ stage1 /\ stage2
-----------------------------------------------------------------------------
(* The inference thread: infer(), _ensure_logging and _write_log. *)

Return(answer) ==
    /\ pc' = "idle"
    /\ answers' = Append(answers, [answer |-> answer, short |-> frame.short, overlap |-> overlap])
    /\ UNCHANGED <<frame, seen>>

Goto(p) == pc' = p /\ UNCHANGED <<frame, seen, answers>>

\* The framework calls infer() on a component it has loaded; it may be
\* released by the time the call is made.
Infer(short) ==
    /\ pc = "idle" /\ ctl \notin {"new", "failed"} /\ Len(answers) < MaxInfers
    /\ overlap' = (overlap \/ ctl # "ready")
    /\ frame' = [short |-> short] /\ seen' = "noise" /\ pc' = "begin"
    /\ UNCHANGED <<modelVars, logVars, ctl, lines, answers, summaries>>

Begin ==
    /\ pc = "begin"
    /\ IF initialized THEN Goto("ensure") ELSE Return("not initialized")
    /\ UNCHANGED <<modelVars, logVars, ctl, lines, overlap, summaries>>

\* The first look at _logging_active, without the lock, and taking the lock.
EnsureLogging ==
    /\ pc = "ensure"
    /\ IF active THEN Goto("stft") /\ UNCHANGED lock
       ELSE lock = "free" /\ lock' = "infer" /\ Goto("open")
    /\ UNCHANGED <<modelVars, active, handles, stats, ctl, lines, overlap, summaries>>

\* The first n files are opened and, if that is not all of them, an exception
\* ends infer(): nothing closes the ones opened, and the next attempt puts new
\* files in their place.
OpenFiles(n) ==
    /\ handles' = [f \in Files |-> IF f <= n THEN "open" ELSE handles[f]]
    /\ lines' = IF n = 0 THEN lines ELSE <<>>
    /\ IF n = 3 THEN Goto("mark") /\ UNCHANGED lock
       ELSE lock' = "free" /\ Return("no log")

OpenLogEarly ==   \* faulty: the log counts as active before its files are open
    /\ pc = "open"
    /\ active' = TRUE
    /\ \E n \in 0 .. 3 : OpenFiles(n)
    /\ UNCHANGED <<modelVars, stats, ctl, overlap, summaries>>

\* Under the lock: the directory, the three files and the first one's header
\* line; the file system may refuse any of them.  The log is not active until
\* they are all open.
OpenLog ==
    /\ pc = "open"
    /\ \E n \in 0 .. 3 : OpenFiles(n)
    /\ UNCHANGED <<modelVars, active, stats, ctl, overlap, summaries>>

MarkActiveLocked ==   \* faulty: the lock is not given back
    /\ pc = "mark"
    /\ active' = TRUE /\ stats' = NoStats
    /\ Goto("stft")
    /\ UNCHANGED <<modelVars, handles, lock, ctl, lines, overlap, summaries>>

MarkActive ==
    /\ pc = "mark"
    /\ active' = TRUE /\ stats' = NoStats /\ lock' = "free"
    /\ Goto("stft")
    /\ UNCHANGED <<modelVars, handles, ctl, lines, overlap, summaries>>

\* iq_to_spectrogram refuses a frame of less than 600 000 samples.
Stft ==
    /\ pc = "stft"
    /\ IF frame.short THEN Return("too short") ELSE Goto("stage1")
    /\ UNCHANGED <<modelVars, logVars, ctl, lines, overlap, summaries>>

Stage1 ==
    /\ pc = "stage1"
    /\ IF ~stage1 THEN Return("no model")
       ELSE \E s \in {"noise", "box"} :
               /\ seen' = s /\ pc' = IF s = "box" THEN "stage2" ELSE "log"
               /\ UNCHANGED <<frame, answers>>
    /\ UNCHANGED <<modelVars, logVars, ctl, lines, overlap, summaries>>

\* Boxes too small to be cut out are skipped, without a look at the model.
Stage2 ==
    /\ pc = "stage2"
    /\ \/ Goto("log")
       \/ IF ~stage2 THEN Return("no model")
          ELSE seen' = "model" /\ pc' = "log" /\ UNCHANGED <<frame, answers>>
    /\ UNCHANGED <<modelVars, logVars, ctl, lines, overlap, summaries>>

\* _write_log: without the lock.  Lines are buffered; writing them to disk is
\* taken to succeed.
WriteLog ==
    /\ pc = "log"
    /\ IF active THEN Goto("line") ELSE Return("result")
    /\ UNCHANGED <<modelVars, logVars, ctl, lines, overlap, summaries>>

WriteLine ==
    /\ pc = "line"
    /\ IF handles[1] = "open" THEN lines' = Append(lines, seen) /\ Goto("count")
       ELSE UNCHANGED lines /\ Return("log closed")
    /\ UNCHANGED <<modelVars, logVars, ctl, overlap, summaries>>

Tick(b) == IF b THEN 1 ELSE 0

CountFinal ==   \* faulty: frames with boxes are counted when a model was named
    /\ pc = "count"
    /\ stats' = [total |-> stats.total + 1,
                 s1 |-> stats.s1 + Tick(seen = "model"),
                 named |-> stats.named + Tick(seen = "model")]
    /\ Return("result")
    /\ UNCHANGED <<modelVars, active, handles, lock, ctl, lines, overlap, summaries>>

\* Not under the lock either, so that release() may count this frame or not.
Count ==
    /\ pc = "count"
    /\ stats' = [total |-> stats.total + 1,
                 s1 |-> stats.s1 + Tick(seen # "noise"),
                 named |-> stats.named + Tick(seen = "model")]
    /\ Return("result")
    /\ UNCHANGED <<modelVars, active, handles, lock, ctl, lines, overlap, summaries>>
-----------------------------------------------------------------------------
(* The event loop: release() and _stop_logging. *)

Release ==
    /\ ctl = "ready" /\ ctl' = "stop"
    /\ overlap' = (overlap \/ pc # "idle")
    /\ UNCHANGED <<modelVars, logVars, inferVars, lines, answers, summaries>>

StopLogging ==
    /\ ctl = "stop"
    /\ IF active THEN lock = "free" /\ lock' = "release" /\ ctl' = "close"
       ELSE UNCHANGED lock /\ ctl' = "drop"
    /\ UNCHANGED <<modelVars, active, handles, stats, inferVars, history>>

CloseLog ==
    /\ ctl = "close" /\ ctl' = "summary"
    /\ active' = FALSE /\ handles' = All("closed")
    /\ UNCHANGED <<modelVars, lock, stats, inferVars, history>>

\* A summary that cannot be written ends release() with the models in place;
\* the framework drops the instance all the same.
WriteSummary ==
    /\ ctl = "summary" /\ lock' = "free"
    /\ \/ /\ ctl' = "drop" /\ handles' = All("none")
          /\ summaries' = Append(summaries,
                            [stats |-> stats, lines |-> lines, overlap |-> overlap])
       \/ ctl' = "raised" /\ UNCHANGED <<handles, summaries>>
    /\ UNCHANGED <<modelVars, active, stats, inferVars, lines, answers, overlap>>

DropModels ==
    /\ ctl = "drop" /\ ctl' = "released"
    /\ stage1' = FALSE /\ stage2' = FALSE /\ initialized' = FALSE
    /\ UNCHANGED <<request, providers, logVars, inferVars, history>>
-----------------------------------------------------------------------------
InferStep ==
    \/ Begin \/ EnsureLogging \/ OpenLog \/ MarkActive
    \/ Stft \/ Stage1 \/ Stage2
    \/ WriteLog \/ WriteLine \/ Count

ReleaseStep == StopLogging \/ CloseLog \/ WriteSummary \/ DropModels

Next ==
    \/ Initialize \/ Release
    \/ \E short \in BOOLEAN : Infer(short)
    \/ InferStep
    \/ ReleaseStep

Spec == Init /\ [][Next]_vars

\* Both threads run on; nobody has to call infer() or release().
FairSpec == Spec /\ WF_vars(InferStep) /\ WF_vars(ReleaseStep)
-----------------------------------------------------------------------------
(* Type invariant. *)
TypeOK ==
    /\ request \in Requests
    /\ {initialized, stage1, stage2, active, overlap, frame.short} \subseteq BOOLEAN
    /\ handles \in [Files -> {"none", "open", "closed"}] /\ lock \in {"free", "infer", "release"}
    /\ (lock = "infer") <=> pc \in {"open", "mark"}
    /\ (lock = "release") <=> ctl \in {"close", "summary"}
    /\ stats \in [total : 0 .. MaxInfers, s1 : 0 .. MaxInfers, named : 0 .. MaxInfers]
    /\ seen \in {"noise", "box", "model"} /\ Len(answers) <= MaxInfers
    /\ ToSet(lines) \subseteq {"noise", "box", "model"}

(* The models are always given a provider that is there, with the CPU to   *)
(* fall back to; a provider that is asked for and there is the one used,   *)
(* and "auto" leaves an accelerator idle only if there is a better one     *)
(* (_map_device_to_onnx_providers 258-311).                                *)
ProvidersAreUsable ==
    providers # <<>> =>
        /\ Last(providers) = Cpu
        /\ Head(providers) \in request.available \cup {Cpu}
        /\ request.device \in request.available => Head(providers) = request.device
        /\ request.device = "auto" =>
              \A p \in request.available \ {Cpu} :
                  \E i, j \in DOMAIN Accelerators :
                      i <= j /\ Accelerators[i] = Head(providers) /\ Accelerators[j] = p

(* An infer() on a frame of full length that met no release() gives a      *)
(* result, unless the file system refused the log: models, log and         *)
(* counters never fail it otherwise, however earlier calls ended.          *)
ResultUnlessReleased ==
    \A i \in DOMAIN answers :
        answers[i].answer \in {"result", "no log"} \/ answers[i].short \/ answers[i].overlap

(* Together: an instance that was initialised infers.                      *)
InferWorks == TypeOK /\ ProvidersAreUsable /\ ResultUnlessReleased

\* What the counters should say of a log: its lines, those with boxes and
\* those with a model's name.
LinesOf(log, what) == Cardinality({i \in DOMAIN log : log[i] \in what})
CountsOf(log) == [total |-> Len(log),
                  s1 |-> LinesOf(log, {"box", "model"}), named |-> LinesOf(log, {"model"})]

\* The last call of infer() was refused its log.
LogRefused == answers # <<>> /\ Last(answers).answer = "no log"

SomeOpen == \E f \in Files : handles[f] = "open"

(* A log that is closed with no infer() under way has a summary that       *)
(* counts exactly its lines, and there is never a second summary: the      *)
(* counters are kept without the lock (_write_log 122-152, _stop_logging   *)
(* 154-175).  An instance released with no infer() under way has a file    *)
(* left open only if its last infer() was refused the log: release() does  *)
(* not look at files that were opened without the log becoming active.     *)
SummaryIsTrue ==
    /\ ctl = "released" /\ ~overlap /\ SomeOpen => LogRefused
    /\ Len(summaries) <= 1
    /\ \A i \in DOMAIN summaries :
          ~summaries[i].overlap => summaries[i].stats = CountsOf(summaries[i].lines)

(* release() returns or raises, whatever infer() does: the lock it may     *)
(* wait for is given back, also when the log cannot be opened              *)
(* (_ensure_logging 98-120, _stop_logging 154-175).                        *)
ReleaseReturns == (ctl = "stop") ~> (ctl \in {"released", "raised"})
=============================================================================
