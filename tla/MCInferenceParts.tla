--------------------------- MODULE MCInferenceParts ---------------------------
(* The two parts of the inference side on small instances: the two-stage    *)
(* component (RfuavComponent: three accelerators, devices asked for by      *)
(* short name, by provider name, by "auto" and by an unknown name, three    *)
(* calls of infer), and the framework that runs a component                 *)
(* (InferenceFramework: two components, so that one is loaded over or after *)
(* another, and two threads, so that it is stopped and started again).      *)
(*                                                                          *)
(* The framework's component is any component: it may answer, raise, hang,  *)
(* or fail to initialise.  The modules therefore share no variable, a       *)
(* behaviour is one of each, interleaved, and a property of one of them can *)
(* be checked on the behaviours in which only that part moves: "part" says  *)
(* which.                                                                   *)
EXTENDS RfuavComponent

CONSTANTS Components, Threads, None, Frames, Capacity, MaxPuts

VARIABLES component, life, fwLock, running, thread, fwCtl, loading,
          fwPc, using, inferred, errors, discarded, joinExpired,
          queue, received, dropped, open, wait, accepted, taken, out,
          part

frameworkVars == <<component, life, fwLock, running, thread, fwCtl, loading, fwPc,
                   using, inferred, errors, discarded, joinExpired,
                   queue, received, dropped, open, wait, accepted, taken, out>>

F == INSTANCE InferenceFramework WITH lock <- fwLock, ctl <- fwCtl, pc <- fwPc

ASSUME NoneAssumption == None \notin Components \cup Threads

MCAccelerators == <<"CUDA", "Dml", "QNN">>
MCNames == [cuda |-> "CUDA", dml |-> "Dml", qnn |-> "QNN"]
MCRequests ==
    [device : {"auto", "cuda", "Dml", "gpu"},
     available : {{"CPU"}, {"CPU", "Dml", "QNN"}, {"CPU", "CUDA", "QNN"}}]

\* A part that does not move starts in one state.
MCInit ==
    /\ part \in {"framework", "component"}
    /\ Init /\ F!Init
    /\ part # "component" => request = CHOOSE r \in Requests : TRUE

FrameworkMoves == part = "framework" /\ F!Next /\ UNCHANGED <<vars, part>>
ComponentMoves == part = "component" /\ Next /\ UNCHANGED <<frameworkVars, part>>

MCNext == FrameworkMoves \/ ComponentMoves

\* Each part's own fairness; of a part that has not begun to move no fair
\* action is enabled.
MCSpec ==
    /\ MCInit /\ [][MCNext]_<<vars, frameworkVars, part>>
    /\ WF_vars(InferStep) /\ WF_vars(ReleaseStep)
    /\ F!Fairness

(* One live inference thread exactly while the framework runs               *)
(* (InferenceFramework).                                                    *)
LoopsMatchState == F!LoopsMatchState

(* The framework loses track of no component (InferenceFramework).          *)
NoComponentLeak == F!NoComponentLeak

(* No component is released under a running infer() (InferenceFramework).   *)
NoReleaseDuringInfer == F!NoReleaseDuringInfer

(* Stopping comes to an end, for the caller and for the inference thread    *)
(* (InferenceFramework).                                                    *)
StopEnds == F!StopEnds

(* A frame put while the framework runs is taken (InferenceFramework).      *)
FramesAreServed == F!FramesAreServed
=============================================================================
