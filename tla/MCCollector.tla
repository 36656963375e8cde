----------------------------- MODULE MCCollector -----------------------------
(* Collector on small instances with two requests at a time: two sessions   *)
(* and two threads, so that one acquisition follows another, or, where all  *)
(* overlaps are allowed, one of each.                                       *)
EXTENDS Collector

\* The invariants say nothing of behaviours once a start has crossed another
\* request, and a crossing is not undone: those behaviours need no states.
UncrossedSpec == Init /\ [][Next /\ ~crossed']_vars
=============================================================================
