----------------------------- MODULE ResultHistory -----------------------------
(***************************************************************************)
(* backend/main.py (_on_result, _format_result, get_inference_history) and *)
(* its readers in backend/api/session.py and backend/socketio/server.py:   *)
(* the inference results a session keeps.                                  *)
(*                                                                         *)
(* The inference thread appends to the list and cuts it back in a second   *)
(* step, without a lock, while the event loop goes through the same list   *)
(* to count.  A list iterator holds an index: when the list is cut, it     *)
(* goes on at the same index of the shorter list.  The Socket.IO push of   *)
(* each result is left out.                                                *)
(***************************************************************************)
EXTENDS Integers, Sequences, SequencesExt

CONSTANTS Limit,      \* results kept, 1000 in the code
          MaxResults  \* bound: results of the session

VARIABLES made,     \* history: results the inference thread has produced
          first,    \* history: how many of them came before the list existed
          kept,     \* whether _inference_history has the session
          history,  \* the session's list: numbers of results
          reading,  \* whether _compute_stats_from_history is running
          index,    \* its list iterator: elements gone past
          count,    \* inference_count
          visited,  \* history: the results it has counted, in order
          latest,   \* history: the last answer of latest_result, 0 for null
          answer    \* history: limit and results of the last get_history

listVars == <<made, first, kept, history>>
readVars == <<reading, index, count, visited>>
vars == <<listVars, readVars, latest, answer>>

Init ==
    /\ made = 0 /\ first = 0 /\ kept = FALSE
    /\ history = <<>>
    /\ reading = FALSE /\ index = 0 /\ count = 0 /\ visited = <<>>
    /\ latest = 0
    /\ answer = [limit |-> 1, results |-> <<>>]
-----------------------------------------------------------------------------
(* start_session makes the list, after the inference thread has started.   *)

Install ==
    /\ ~kept
    /\ kept' = TRUE
    /\ history' = <<>>
    /\ UNCHANGED <<made, first, readVars, latest, answer>>
-----------------------------------------------------------------------------
(* The inference thread: _on_result. *)

\* len(history) > 1000: the list is cut before the next result.
TooLong == Len(history) > Limit

InsertFront(r) == history' = <<r>> \o history   \* faulty: newest first

Store(r) == history' = Append(history, r)

\* A result that comes too early is dropped.
OnResult ==
    /\ made < MaxResults /\ ~TooLong
    /\ made' = made + 1
    /\ IF kept THEN Store(made') /\ UNCHANGED first
               ELSE first' = first + 1 /\ UNCHANGED history
    /\ UNCHANGED <<kept, readVars, latest, answer>>

DropAll(s) == <<s[Len(s)]>>   \* faulty: starts over with the newest result

Cut(s) == SubSeq(s, Len(s) - Limit + 1, Len(s))

Trim ==
    /\ TooLong
    /\ history' = Cut(history)
    /\ UNCHANGED <<made, first, kept, readVars, latest, answer>>
-----------------------------------------------------------------------------
(* The event loop. *)

\* inference_stats: the length is read first.
BeginCount ==
    /\ ~reading
    /\ reading' = TRUE
    /\ count' = Len(history)
    /\ index' = 0 /\ visited' = <<>>
    /\ UNCHANGED <<listVars, latest, answer>>

\* The next element, wherever the iterator's index is by now.
CountNext ==
    /\ reading /\ index < Len(history)
    /\ index' = index + 1
    /\ visited' = Append(visited, history[index'])
    /\ UNCHANGED <<listVars, reading, count, latest, answer>>

EndCount ==
    /\ reading /\ index >= Len(history)
    /\ reading' = FALSE
    /\ UNCHANGED <<listVars, index, count, visited, latest, answer>>

Newest(s) == IF s = <<>> THEN 0 ELSE Last(s)

LatestResult ==
    /\ ~reading
    /\ latest' = Newest(history)
    /\ UNCHANGED <<listVars, readVars, answer>>

\* history[-limit:], where -0 is 0.
Slice(s, limit) ==
    IF limit > 0 THEN SubSeq(s, Len(s) - limit + 1, Len(s)) ELSE SubSeq(s, 1 - limit, Len(s))

Lowest(a, b) == IF a < b THEN a ELSE b

GetHistory(limit) ==
    /\ ~reading
    /\ answer' = [limit |-> limit,
                  results |-> Slice(history, Lowest(limit, Lowest(Limit, Len(history))))]
    /\ UNCHANGED <<listVars, readVars, latest>>
-----------------------------------------------------------------------------
EventLoop ==
    \/ Install
    \/ BeginCount \/ CountNext \/ EndCount
    \/ LatestResult
    \/ \E limit \in 0 .. Limit + 1 : GetHistory(limit)

Next == EventLoop \/ OnResult \/ Trim

Spec == Init /\ [][Next]_vars
-----------------------------------------------------------------------------
Results == 1 .. MaxResults

(* Type invariant. *)
TypeOK ==
    /\ made \in 0 .. MaxResults /\ first \in 0 .. made /\ kept \in BOOLEAN
    /\ history \in Seq(Results) /\ Len(history) <= Limit + 1
    /\ reading \in BOOLEAN /\ index \in 0 .. Limit + 1 /\ count \in 0 .. Limit + 1
    /\ visited \in Seq(Results)
    /\ latest \in 0 .. MaxResults
    /\ answer \in [limit : Int, results : Seq(Results)]

(* The list holds the newest results in order, without a gap, and it is    *)
(* full once that many came after it was made (main.py 747-752), and it    *)
(* still ends with what a poll of latest_result has seen or a newer one.   *)
HistoryIsNewest ==
    LET n == Len(history) IN
    /\ TypeOK
    /\ latest <= Newest(history)
    /\ n >= Lowest(made - first, Limit)
    /\ \A i \in 1 .. n : history[i] = made - n + i

(* Whatever arrives while the statistics are computed: no result is        *)
(* counted twice, results are counted in order, and those counted are as   *)
(* many as the list held when the count began, one less if it was cut just *)
(* then, and never more than the list can hold.                            *)
CountedOnce ==
    /\ \A i, j \in DOMAIN visited : i < j => visited[i] < visited[j]
    /\ Len(visited) <= Limit + 1
    /\ ~reading => Len(visited) >= Lowest(count, Limit)

(* get_history answers with results that follow one another, and not with  *)
(* more than were asked for, unless none were: then it answers all.        *)
AnswerIsTrue ==
    LET a == answer.results IN
    /\ \A i \in DOMAIN a : a[i] = a[1] + i - 1
    /\ answer.limit > 0 => Len(a) <= answer.limit

(* Together: what the readers see of a list that changes under them.       *)
ReadersAreTrue == CountedOnce /\ AnswerIsTrue
=============================================================================
