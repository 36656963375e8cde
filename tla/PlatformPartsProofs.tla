-------------------------- MODULE PlatformPartsProofs --------------------------
(***************************************************************************)
(* What holds of three parts of the Platform for any instance of them: the *)
(* list of devices, the configuration of a session, and its results.  They *)
(* share no variable; each is proved about by itself.                      *)
(***************************************************************************)
EXTENDS MCPlatformParts, SequenceTheorems, TLAPS

(***************************************************************************)
(* The device list, for any radios and any number of refreshes that        *)
(* overlap in any way.                                                     *)
(*                                                                         *)
(* Neither half of ListIsTrue is inductive by itself.  That a refresh      *)
(* alone returns what it found needs the list to be empty all the while it *)
(* waits (AloneInv); that the last scan is listed needs to know what the   *)
(* list holds while other refreshes are still under way (LastInv).         *)
(***************************************************************************)

\* Nothing is under way before startup() has scanned.
StartInv == starting => last = None /\ \A r \in Refreshes : pc[r] = "new"

\* A refresh that has met no other one waits with an empty list.
AloneInv ==
    \A r \in Refreshes : alone[r] =>
        /\ r \in Underway => Underway = {r} /\ devices = {}
        /\ pc[r] = "done" => result[r] = found[r]

\* What the refresh that began last has found stays listed once it returned.
LastInv ==
    last # None =>
        /\ pc[last] # "new"
        /\ pc[last] = "done" => found[last] \subseteq devices

ListInv == TypeOK /\ StartInv /\ AloneInv /\ LastInv
-----------------------------------------------------------------------------
LEMMA ListInit == Init => ListInv
<1> SUFFICES ASSUME Init PROVE ListInv
  OBVIOUS
<1>1. TypeOK
  BY DEF Init, TypeOK, Ids
<1>2. StartInv /\ AloneInv /\ LastInv
  BY DEF Init, StartInv, AloneInv, LastInv, Underway
<1> QED
  BY <1>1, <1>2 DEF ListInv

LEMMA TypeStep == TypeOK /\ [Next]_vars => TypeOK'
<1> SUFFICES ASSUME TypeOK, [Next]_vars
             PROVE  TypeOK'
  OBVIOUS
<1> USE DEF TypeOK, Ids, Scans
<1>1. CASE Startup
  BY <1>1 DEF Startup
<1>2. ASSUME NEW d \in Radios, Change(d)
      PROVE  TypeOK'
  BY <1>2 DEF Change
<1>3. ASSUME NEW r \in Refreshes, Refresh(r)
      PROVE  TypeOK'
  BY <1>3 DEF Refresh, Clear
<1>4. ASSUME NEW r \in Refreshes, Answer(r)
      PROVE  TypeOK'
  BY <1>4 DEF Answer
<1>5. ASSUME NEW r \in Refreshes, Fill(r)
      PROVE  TypeOK'
  BY <1>5 DEF Fill, Filled
<1>6. CASE UNCHANGED vars
  BY <1>6 DEF vars
<1> QED
  BY <1>1, <1>2, <1>3, <1>4, <1>5, <1>6 DEF Next

LEMMA StartStep == ListInv /\ [Next]_vars => StartInv'
<1> SUFFICES ASSUME ListInv, [Next]_vars
             PROVE  StartInv'
  OBVIOUS
<1> USE DEF ListInv, TypeOK, StartInv
<1>1. CASE Startup
  BY <1>1 DEF Startup
<1>2. ASSUME NEW d \in Radios, Change(d)
      PROVE  StartInv'
  BY <1>2 DEF Change
<1>3. ASSUME NEW r \in Refreshes, Refresh(r) \/ Answer(r) \/ Fill(r)
      PROVE  StartInv'
  BY <1>3 DEF Refresh, Answer, Fill
<1>4. CASE UNCHANGED vars
  BY <1>4 DEF vars
<1> QED
  BY <1>1, <1>2, <1>3, <1>4 DEF Next

LEMMA AloneStep == ListInv /\ [Next]_vars => AloneInv'
<1> SUFFICES ASSUME ListInv, [Next]_vars, NEW q \in Refreshes, alone'[q]
             PROVE  /\ q \in Underway' => Underway' = {q} /\ devices' = {}
                    /\ pc'[q] = "done" => result'[q] = found'[q]
  BY DEF AloneInv, Underway
<1> USE DEF ListInv, TypeOK, AloneInv, Underway
<1>1. CASE Startup
  BY <1>1 DEF Startup, StartInv
<1>2. ASSUME NEW d \in Radios, Change(d)
      PROVE  /\ q \in Underway' => Underway' = {q} /\ devices' = {}
             /\ pc'[q] = "done" => result'[q] = found'[q]
  BY <1>2 DEF Change
<1>3. ASSUME NEW r \in Refreshes, Refresh(r)
      PROVE  /\ q \in Underway' => Underway' = {q} /\ devices' = {}
             /\ pc'[q] = "done" => result'[q] = found'[q]
  <2>1. alone[q] /\ (q \in Underway \cup {r} => Underway = {})
    BY <1>3 DEF Refresh
  <2>2. Underway' = Underway \cup {r}
    BY <1>3 DEF Refresh
  <2> QED
    BY <1>3, <2>1, <2>2 DEF Refresh, Clear
<1>4. ASSUME NEW r \in Refreshes, Answer(r)
      PROVE  /\ q \in Underway' => Underway' = {q} /\ devices' = {}
             /\ pc'[q] = "done" => result'[q] = found'[q]
  <2>1. Underway' = Underway
    BY <1>4 DEF Answer
  <2> QED
    BY <1>4, <2>1 DEF Answer
\* The refresh that returns now met no other one only if it alone was under
\* way, and then the list was empty until now.
<1>5. ASSUME NEW r \in Refreshes, Fill(r)
      PROVE  /\ q \in Underway' => Underway' = {q} /\ devices' = {}
             /\ pc'[q] = "done" => result'[q] = found'[q]
  <2>1. Underway' = Underway \ {r} /\ r \in Underway
    BY <1>5 DEF Fill
  <2>2. alone[q] /\ found'[q] = found[q]
    BY <1>5 DEF Fill
  <2>3. CASE q = r
    <3>1. devices = {}
      BY <2>1, <2>2, <2>3
    <3> QED
      BY <1>5, <2>1, <2>2, <2>3, <3>1 DEF Fill, Filled
  <2>4. CASE q # r
    BY <1>5, <2>1, <2>2, <2>4 DEF Fill
  <2> QED
    BY <2>3, <2>4
<1>6. CASE UNCHANGED vars
  BY <1>6 DEF vars
<1> QED
  BY <1>1, <1>2, <1>3, <1>4, <1>5, <1>6 DEF Next

LEMMA LastStep == ListInv /\ [Next]_vars => LastInv'
<1> SUFFICES ASSUME ListInv, [Next]_vars
             PROVE  LastInv'
  OBVIOUS
<1> USE DEF ListInv, TypeOK, LastInv
<1>1. CASE Startup
  BY <1>1 DEF Startup, StartInv
<1>2. ASSUME NEW d \in Radios, Change(d)
      PROVE  LastInv'
  BY <1>2 DEF Change
<1>3. ASSUME NEW r \in Refreshes, Refresh(r)
      PROVE  LastInv'
  BY <1>3 DEF Refresh
<1>4. ASSUME NEW r \in Refreshes, Answer(r)
      PROVE  LastInv'
  BY <1>4 DEF Answer
\* The list only grows when a refresh returns.
<1>5. ASSUME NEW r \in Refreshes, Fill(r)
      PROVE  LastInv'
  <2>1. devices' = devices \cup found[r] /\ last' = last /\ found' = found
    BY <1>5 DEF Fill, Filled
  <2> QED
    BY <1>5, <2>1 DEF Fill
<1>6. CASE UNCHANGED vars
  BY <1>6 DEF vars
<1> QED
  BY <1>1, <1>2, <1>3, <1>4, <1>5, <1>6 DEF Next
-----------------------------------------------------------------------------
(* A refresh that met no other one returns what its scan found, and once   *)
(* all have returned the list has everything that the one which began last *)
(* has found (refresh_devices, main.py 569-585).                           *)
THEOREM ListIsTrueHolds == Spec => []ListIsTrue
<1>1. Init => ListInv
  BY ListInit
<1>2. ListInv /\ [Next]_vars => ListInv'
  BY TypeStep, StartStep, AloneStep, LastStep DEF ListInv
<1>3. ListInv => ListIsTrue
  <2> SUFFICES ASSUME ListInv PROVE ListIsTrue
    OBVIOUS
  <2>1. RefreshIsTrue
    BY DEF ListInv, AloneInv, RefreshIsTrue
  <2>2. LastScanIsListed
    BY DEF ListInv, TypeOK, LastInv, LastScanIsListed, Underway
  <2> QED
    BY <2>1, <2>2 DEF ListInv, ListIsTrue
<1> QED
  BY <1>1, <1>2, <1>3, PTL DEF Spec
-----------------------------------------------------------------------------
(***************************************************************************)
(* The results of a session, for any limit and any number of results.      *)
(*                                                                         *)
(* What the readers have seen is about the past; that it stays true needs  *)
(* to know where the iterator stands in a list that is appended to and cut *)
(* under it (IteratorInv): each element gone past is no newer than the one *)
(* that its place holds now, so that the next one is newer than all.       *)
(***************************************************************************)

\* Before the list exists nothing is kept.
KeptInv == ~kept => history = <<>> /\ first = made

\* The iterator's index is the number of elements gone past; each of them
\* came before the one that its place in the list holds now.
IteratorInv ==
    /\ index = Len(visited)
    /\ \A i \in 1 .. index : visited[i] <= made - Len(history) + i
    /\ reading => Len(history) >= H!Lowest(count, Limit)

HistoryInv == H!HistoryIsNewest /\ H!ReadersAreTrue /\ KeptInv /\ IteratorInv
-----------------------------------------------------------------------------
LEMMA HistoryInit == H!Init => HistoryInv
<1> SUFFICES ASSUME H!Init PROVE HistoryInv
  OBVIOUS
<1> USE LimitAssumption DEF H!Init
<1>1. H!TypeOK
  <2>1. /\ <<>> \in Seq(H!Results) /\ Len(history) = 0
        /\ answer \in [limit : Int, results : Seq(H!Results)]
    OBVIOUS
  <2>2. 0 \in 0 .. MaxResults /\ 0 \in 0 .. 0 /\ 0 \in 0 .. Limit + 1 /\ 0 <= Limit + 1
    OBVIOUS
  <2> QED
    BY <2>1, <2>2 DEF H!TypeOK
<1>2. H!HistoryIsNewest
  BY <1>1 DEF H!HistoryIsNewest, H!Newest, H!Lowest
<1>3. H!ReadersAreTrue
  BY DEF H!ReadersAreTrue, H!CountedOnce, H!AnswerIsTrue, H!Lowest
<1>4. KeptInv /\ IteratorInv
  BY DEF KeptInv, IteratorInv
<1> QED
  BY <1>2, <1>3, <1>4 DEF HistoryInv

\* What the cut leaves: the last Limit results.
LEMMA CutKeepsNewest ==
  ASSUME NEW R, NEW s \in Seq(R), Len(s) = Limit + 1
  PROVE  /\ H!Cut(s) \in Seq(R) /\ Len(H!Cut(s)) = Limit
         /\ \A i \in 1 .. Limit : H!Cut(s)[i] = s[i + 1]
<1>1. Limit \in Nat /\ Len(s) - Limit + 1 = 2 /\ \A i \in 2 .. Len(s) : s[i] \in R
  BY LimitAssumption
<1> QED
  BY <1>1, SubSeqProperties, LimitAssumption DEF H!Cut

\* What a poll of the newest results is answered with: the end of the list.
LEMMA SliceIsEnd ==
  ASSUME NEW R, NEW s \in Seq(R), NEW n \in 0 .. Len(s)
  PROVE  /\ H!Slice(s, n) \in Seq(R)
         /\ n > 0 => Len(H!Slice(s, n)) = n
         /\ n = 0 => H!Slice(s, n) = s
         /\ \A i \in 1 .. Len(H!Slice(s, n)) : H!Slice(s, n)[i] = s[Len(s) - Len(H!Slice(s, n)) + i]
<1>1. CASE n = 0
  <2>1. H!Slice(s, n) = SubSeq(s, 1, Len(s))
    BY <1>1 DEF H!Slice
  <2> QED
    BY <1>1, <2>1, SubSeqFull
<1>2. CASE n > 0
  <2>1. Len(s) \in Nat /\ n \in 1 .. Len(s) /\ \A i \in Len(s) - n + 1 .. Len(s) : s[i] \in R
    BY <1>2
  <2>2. H!Slice(s, n) = SubSeq(s, Len(s) - n + 1, Len(s))
    BY <1>2 DEF H!Slice
  <2>3. /\ H!Slice(s, n) \in Seq(R) /\ Len(H!Slice(s, n)) = n
        /\ \A i \in 1 .. n : H!Slice(s, n)[i] = s[Len(s) - n + i]
    BY <2>1, <2>2, SubSeqProperties
  <2> QED
    BY <2>1, <2>3
<1> QED
  BY <1>1, <1>2

\* A list of consecutive results that ends with m has m as its newest.
LEMMA NewestIsEnd ==
  ASSUME NEW R, NEW s \in Seq(R), NEW m \in Nat,
         \A i \in 1 .. Len(s) : s[i] = m - Len(s) + i
  PROVE  H!Newest(s) = IF s = <<>> THEN 0 ELSE m
<1>1. CASE s = <<>>
  BY <1>1 DEF H!Newest
<1>2. CASE s # <<>>
  <2>1. Len(s) \in Nat /\ Len(s) \in 1 .. Len(s)
    BY <1>2
  <2>2. s[Len(s)] = m
    BY <2>1
  <2> QED
    BY <1>2, <2>2 DEF H!Newest, H!Last
<1> QED
  BY <1>1, <1>2

\* The inference thread appends the next result, or drops one that comes too
\* early.
LEMMA OnResultKeeps == HistoryInv /\ H!OnResult => HistoryInv'
<1> SUFFICES ASSUME HistoryInv, H!OnResult PROVE HistoryInv'
  OBVIOUS
<1> USE LimitAssumption
<1>1. /\ made \in Nat /\ made < MaxResults /\ made' = made + 1 /\ made' \in H!Results
      /\ history \in Seq(H!Results) /\ Len(history) \in Nat /\ Len(history) <= Limit
      /\ first \in 0 .. made
  BY DEF HistoryInv, H!HistoryIsNewest, H!TypeOK, H!OnResult, H!TooLong, H!Results
<1>2. UNCHANGED <<kept, reading, index, count, visited, latest, answer>>
  BY DEF H!OnResult, H!readVars
<1>3. H!ReadersAreTrue'
  BY <1>2 DEF HistoryInv, H!ReadersAreTrue, H!CountedOnce, H!AnswerIsTrue, H!Lowest
<1>4. latest <= (IF history = <<>> THEN 0 ELSE made) /\ latest \in 0 .. MaxResults
  BY <1>1, NewestIsEnd DEF HistoryInv, H!HistoryIsNewest, H!TypeOK
<1>5. index \in Nat /\ count \in Nat /\ \A i \in 1 .. index : visited[i] \in Int
  BY DEF HistoryInv, H!HistoryIsNewest, H!TypeOK, H!Results, IteratorInv
<1>6. CASE kept
  <2>1. history' = Append(history, made') /\ first' = first
    BY <1>6 DEF H!OnResult, H!Store
  <2>2. /\ history' \in Seq(H!Results) /\ Len(history') = Len(history) + 1
        /\ \A i \in 1 .. Len(history) : history'[i] = history[i]
        /\ history'[Len(history) + 1] = made'
    BY <1>1, <2>1, AppendProperties
  <2>3. H!TypeOK'
    BY <1>1, <1>2, <2>1, <2>2 DEF HistoryInv, H!HistoryIsNewest, H!TypeOK
  <2>4. \A i \in 1 .. Len(history') : history'[i] = made' - Len(history') + i
    BY <1>1, <2>2 DEF HistoryInv, H!HistoryIsNewest
  <2>5. H!Newest(history') = made'
    BY <1>1, <2>2, <2>4, NewestIsEnd
  <2>6. latest' <= H!Newest(history')
    BY <1>1, <1>2, <1>4, <2>5
  <2>7. Len(history') >= H!Lowest(made' - first', Limit)
    BY <1>1, <2>1, <2>2 DEF HistoryInv, H!HistoryIsNewest, H!Lowest
  <2>8. KeptInv'
    BY <1>2, <1>6 DEF KeptInv
  <2>9. made' - Len(history') = made - Len(history) /\ Len(history') >= Len(history)
        /\ Len(history') \in Nat
    BY <1>1, <2>2
  <2>10. IteratorInv'
    BY <1>1, <1>2, <1>5, <2>9 DEF HistoryInv, IteratorInv, H!Lowest
  <2> QED
    BY <1>3, <2>3, <2>4, <2>6, <2>7, <2>8, <2>10
       DEF HistoryInv, H!HistoryIsNewest
<1>7. CASE ~kept
  <2>1. history' = history /\ history = <<>> /\ first' = first + 1 /\ first = made
    BY <1>7 DEF H!OnResult, HistoryInv, KeptInv
  <2>2. H!TypeOK'
    BY <1>1, <1>2, <2>1 DEF HistoryInv, H!HistoryIsNewest, H!TypeOK
  <2>3. H!HistoryIsNewest'
    BY <1>1, <1>2, <2>1, <2>2 DEF HistoryInv, H!HistoryIsNewest, H!Newest, H!Lowest
  <2>4. KeptInv' /\ IteratorInv'
    BY <1>1, <1>2, <1>5, <1>7, <2>1 DEF HistoryInv, KeptInv, IteratorInv, H!Lowest
  <2> QED
    BY <1>3, <2>3, <2>4 DEF HistoryInv
<1> QED
  BY <1>6, <1>7

\* The list is cut to its last Limit results.
LEMMA TrimKeeps == HistoryInv /\ H!Trim => HistoryInv'
<1> SUFFICES ASSUME HistoryInv, H!Trim PROVE HistoryInv'
  OBVIOUS
<1> USE LimitAssumption
<1>1. /\ made \in Nat /\ history \in Seq(H!Results) /\ Len(history) = Limit + 1
      /\ index \in Nat /\ count \in Nat /\ \A i \in 1 .. index : visited[i] \in Int
  <2>1. H!TypeOK /\ index = Len(visited) /\ Len(history) > Limit
    BY DEF HistoryInv, H!HistoryIsNewest, H!Trim, H!TooLong, IteratorInv
  <2>2. \A i \in 1 .. index : visited[i] \in Int
    BY <2>1 DEF H!TypeOK, H!Results
  <2> QED
    BY <2>1, <2>2 DEF H!TypeOK
<1>2. UNCHANGED <<made, first, kept, reading, index, count, visited, latest, answer>>
  BY DEF H!Trim, H!readVars
<1>3. /\ history' \in Seq(H!Results) /\ Len(history') = Limit
      /\ \A i \in 1 .. Limit : history'[i] = history[i + 1]
  BY <1>1, CutKeepsNewest DEF H!Trim
<1>4. H!TypeOK'
  BY <1>2, <1>3 DEF HistoryInv, H!HistoryIsNewest, H!TypeOK
<1>5. \A i \in 1 .. Len(history') : history'[i] = made - Len(history') + i
  BY <1>1, <1>3 DEF HistoryInv, H!HistoryIsNewest
<1>6. history # <<>> /\ history' # <<>>
  BY <1>1, <1>3
<1>7. H!Newest(history) = made /\ H!Newest(history') = made
  BY <1>1, <1>3, <1>5, <1>6, NewestIsEnd DEF HistoryInv, H!HistoryIsNewest
<1>8. H!HistoryIsNewest'
  BY <1>1, <1>2, <1>3, <1>4, <1>5, <1>7 DEF HistoryInv, H!HistoryIsNewest, H!TypeOK, H!Lowest
<1>9. H!ReadersAreTrue'
  BY <1>2 DEF HistoryInv, H!ReadersAreTrue, H!CountedOnce, H!AnswerIsTrue, H!Lowest
<1>10. KeptInv'
  BY <1>2, <1>6 DEF HistoryInv, KeptInv
<1>11. IteratorInv'
  BY <1>1, <1>2, <1>3 DEF HistoryInv, IteratorInv, H!Lowest
<1> QED
  BY <1>8, <1>9, <1>10, <1>11 DEF HistoryInv

\* start_session makes the list, which had nothing in it.
LEMMA InstallKeeps == HistoryInv /\ H!Install => HistoryInv'
<1> SUFFICES ASSUME HistoryInv, H!Install PROVE HistoryInv'
  OBVIOUS
<1>1. history' = history /\ kept' = TRUE
  BY DEF HistoryInv, KeptInv, H!Install
<1>2. UNCHANGED <<made, first, reading, index, count, visited, latest, answer>>
  BY DEF H!Install, H!readVars
<1>3. H!TypeOK'
  BY <1>1, <1>2 DEF HistoryInv, H!HistoryIsNewest, H!TypeOK
<1>4. H!HistoryIsNewest'
  BY <1>1, <1>2, <1>3 DEF HistoryInv, H!HistoryIsNewest, H!Newest, H!Lowest
<1>5. H!ReadersAreTrue'
  BY <1>2 DEF HistoryInv, H!ReadersAreTrue, H!CountedOnce, H!AnswerIsTrue, H!Lowest
<1>6. KeptInv' /\ IteratorInv'
  BY <1>1, <1>2 DEF HistoryInv, KeptInv, IteratorInv, H!Lowest
<1> QED
  BY <1>4, <1>5, <1>6 DEF HistoryInv

\* A count begins, with the iterator before the first element, or has ended.
LEMMA CountKeeps == HistoryInv /\ (H!BeginCount \/ H!EndCount) => HistoryInv'
<1> SUFFICES ASSUME HistoryInv, H!BeginCount \/ H!EndCount PROVE HistoryInv'
  OBVIOUS
<1> USE LimitAssumption
<1>1. /\ made \in Nat /\ Len(history) \in 0 .. Limit + 1
      /\ index \in Nat /\ count \in Nat /\ index = Len(visited)
  BY DEF HistoryInv, H!HistoryIsNewest, H!TypeOK, IteratorInv
<1>2. UNCHANGED <<made, first, kept, history, latest, answer>>
  BY DEF H!BeginCount, H!EndCount, H!listVars
<1>3. CASE H!BeginCount
  <2>1. /\ reading' = TRUE /\ count' = Len(history) /\ index' = 0 /\ visited' = <<>>
        /\ <<>> \in Seq(H!Results)
    BY <1>3 DEF H!BeginCount
  <2>2. H!HistoryIsNewest'
    BY <1>1, <1>2, <2>1 DEF HistoryInv, H!HistoryIsNewest, H!TypeOK, H!Newest, H!Lowest
  <2>3. H!ReadersAreTrue'
    BY <1>2, <2>1 DEF HistoryInv, H!ReadersAreTrue, H!CountedOnce, H!AnswerIsTrue
  <2>4. KeptInv' /\ IteratorInv'
    BY <1>1, <1>2, <2>1 DEF HistoryInv, KeptInv, IteratorInv, H!Lowest
  <2> QED
    BY <2>2, <2>3, <2>4 DEF HistoryInv
<1>4. CASE H!EndCount
  <2>1. /\ reading /\ reading' = FALSE /\ index >= Len(history)
        /\ UNCHANGED <<index, count, visited>>
    BY <1>4 DEF H!EndCount
  <2>2. H!HistoryIsNewest'
    BY <1>2, <2>1 DEF HistoryInv, H!HistoryIsNewest, H!TypeOK, H!Newest, H!Lowest
  <2>3. Len(visited) >= H!Lowest(count, Limit)
    BY <1>1, <2>1 DEF HistoryInv, IteratorInv, H!Lowest
  <2>4. H!ReadersAreTrue'
    BY <1>2, <2>1, <2>3 DEF HistoryInv, H!ReadersAreTrue, H!CountedOnce, H!AnswerIsTrue, H!Lowest
  <2>5. KeptInv' /\ IteratorInv'
    BY <1>2, <2>1 DEF HistoryInv, KeptInv, IteratorInv, H!Lowest
  <2> QED
    BY <2>2, <2>4, <2>5 DEF HistoryInv
<1> QED
  BY <1>3, <1>4

\* The iterator goes past one more element: a newer one than all before it.
LEMMA CountNextKeeps == HistoryInv /\ H!CountNext => HistoryInv'
<1> SUFFICES ASSUME HistoryInv, H!CountNext PROVE HistoryInv'
  OBVIOUS
<1> USE LimitAssumption
<1> DEFINE r == history[index + 1]
<1>1. /\ made \in Nat /\ Len(history) \in 0 .. Limit + 1 /\ history \in Seq(H!Results)
      /\ index \in Nat /\ index = Len(visited) /\ visited \in Seq(H!Results)
      /\ reading /\ index < Len(history)
  BY DEF HistoryInv, H!HistoryIsNewest, H!TypeOK, IteratorInv, H!CountNext
<1>2. UNCHANGED <<made, first, kept, history, reading, count, latest, answer>>
  BY DEF H!CountNext, H!listVars
<1>3. index' = index + 1 /\ visited' = Append(visited, r)
  BY DEF H!CountNext
<1>4. index + 1 \in 1 .. Len(history) /\ r \in H!Results /\ r = made - Len(history) + index + 1
  BY <1>1 DEF HistoryInv, H!HistoryIsNewest
<1> HIDE DEF r
<1>5. /\ visited' \in Seq(H!Results) /\ Len(visited') = index + 1
      /\ \A i \in 1 .. index : visited'[i] = visited[i]
      /\ visited'[index + 1] = r
  BY <1>1, <1>3, <1>4, AppendProperties
<1>6. \A i \in 1 .. index : visited[i] \in Int /\ visited[i] <= made - Len(history) + i
  BY <1>1 DEF HistoryInv, IteratorInv, H!Results
<1>7. H!HistoryIsNewest'
  BY <1>1, <1>2, <1>3, <1>5 DEF HistoryInv, H!HistoryIsNewest, H!TypeOK, H!Newest, H!Lowest
<1>8. \A i, j \in DOMAIN visited' : i < j => visited'[i] < visited'[j]
  <2>1. DOMAIN visited' = 1 .. index + 1 /\ DOMAIN visited = 1 .. index
    BY <1>1, <1>5
  <2>2. \A i, j \in 1 .. index : i < j => visited[i] < visited[j]
    BY <2>1 DEF HistoryInv, H!ReadersAreTrue, H!CountedOnce
  <2>3. \A i \in 1 .. index : visited[i] < r
    BY <1>1, <1>4, <1>6
  <2> QED
    BY <1>1, <1>5, <2>1, <2>2, <2>3
<1>9. H!ReadersAreTrue'
  BY <1>1, <1>2, <1>5, <1>8 DEF HistoryInv, H!ReadersAreTrue, H!CountedOnce, H!AnswerIsTrue
<1>10. KeptInv'
  BY <1>2 DEF HistoryInv, KeptInv
<1>11. IteratorInv'
  <2>1. \A i \in 1 .. index + 1 : visited'[i] <= made - Len(history) + i
    BY <1>1, <1>4, <1>5, <1>6
  <2> QED
    BY <1>1, <1>2, <1>3, <1>5, <2>1 DEF HistoryInv, IteratorInv, H!Lowest
<1> QED
  BY <1>7, <1>9, <1>10, <1>11 DEF HistoryInv

\* The answers of latest_result and get_history.
LEMMA AnswersKeep ==
  HistoryInv /\ (H!LatestResult \/ \E limit \in 0 .. Limit + 1 : H!GetHistory(limit)) => HistoryInv'
<1> SUFFICES ASSUME HistoryInv PROVE H!LatestResult \/ (\E limit \in 0 .. Limit + 1 : H!GetHistory(limit)) => HistoryInv'
  OBVIOUS
<1> USE LimitAssumption
<1>1. /\ made \in 0 .. MaxResults /\ Len(history) \in 0 .. Limit + 1 /\ history \in Seq(H!Results)
      /\ \A i \in 1 .. Len(history) : history[i] = made - Len(history) + i
  BY DEF HistoryInv, H!HistoryIsNewest, H!TypeOK
<1>2. ASSUME H!LatestResult PROVE HistoryInv'
  <2>1. UNCHANGED <<made, first, kept, history, reading, index, count, visited, answer>>
    BY <1>2 DEF H!LatestResult, H!listVars, H!readVars
  <2>2. latest' = H!Newest(history) /\ H!Newest(history) \in 0 .. MaxResults
    <3>1. made \in Nat /\ 0 \in 0 .. MaxResults
      BY <1>1
    <3>2. H!Newest(history) = IF history = <<>> THEN 0 ELSE made
      BY <1>1, <3>1, NewestIsEnd
    <3> QED
      BY <1>1, <1>2, <3>1, <3>2 DEF H!LatestResult
  <2>3. H!Newest(history)' = H!Newest(history)
    BY <2>1 DEF H!Newest
  <2>4. H!HistoryIsNewest'
    BY <2>1, <2>2, <2>3 DEF HistoryInv, H!HistoryIsNewest, H!TypeOK, H!Lowest
  <2>5. H!ReadersAreTrue'
    BY <2>1 DEF HistoryInv, H!ReadersAreTrue, H!CountedOnce, H!AnswerIsTrue, H!Lowest
  <2>6. KeptInv' /\ IteratorInv'
    BY <2>1 DEF HistoryInv, KeptInv, IteratorInv, H!Lowest
  <2> QED
    BY <2>4, <2>5, <2>6 DEF HistoryInv
<1>3. ASSUME NEW limit \in 0 .. Limit + 1, H!GetHistory(limit) PROVE HistoryInv'
  <2> DEFINE n == H!Lowest(limit, H!Lowest(Limit, Len(history)))
             a == H!Slice(history, n)
  <2>1. UNCHANGED <<made, first, kept, history, reading, index, count, visited, latest>>
    BY <1>3 DEF H!GetHistory, H!listVars, H!readVars
  <2>2. n \in 0 .. Len(history) /\ n <= limit /\ (limit > 0 /\ n = 0 => Len(history) = 0)
    BY <1>1 DEF H!Lowest
  <2>3. answer' = [limit |-> limit, results |-> a]
    BY <1>3 DEF H!GetHistory
  <2> HIDE DEF n
  <2>4. /\ a \in Seq(H!Results)
        /\ n > 0 => Len(a) = n
        /\ n = 0 => a = history
        /\ \A i \in 1 .. Len(a) : a[i] = history[Len(history) - Len(a) + i]
    BY <1>1, <2>2, SliceIsEnd
  <2> HIDE DEF a
  <2>5. Len(a) \in 0 .. Len(history) /\ DOMAIN a = 1 .. Len(a)
    BY <1>1, <2>2, <2>4
  <2>6. \A i \in DOMAIN a : a[i] = made - Len(a) + i
    <3> SUFFICES ASSUME NEW i \in 1 .. Len(a) PROVE a[i] = made - Len(a) + i
      BY <2>5
    <3>1. Len(history) - Len(a) + i \in 1 .. Len(history)
      BY <1>1, <2>5
    <3>2. history[Len(history) - Len(a) + i] = made - Len(history) + (Len(history) - Len(a) + i)
      BY <1>1, <3>1
    <3>3. made \in Int /\ Len(history) \in Int /\ Len(a) \in Int
      BY <1>1, <2>5
    <3> QED
      BY <2>4, <3>2, <3>3
  <2>7. \A i \in DOMAIN a : a[i] = a[1] + i - 1
    <3> SUFFICES ASSUME NEW i \in 1 .. Len(a) PROVE a[i] = a[1] + i - 1
      BY <2>5
    <3>1. 1 \in DOMAIN a /\ i \in DOMAIN a /\ made \in Int /\ Len(a) \in Int
      BY <1>1, <2>5
    <3> QED
      BY <2>6, <3>1
  <2>8. limit > 0 => Len(a) <= limit
    BY <1>1, <2>2, <2>4
  <2>9. answer' \in [limit : Int, results : Seq(H!Results)]
        /\ answer'.limit = limit /\ answer'.results = a
    BY <2>3, <2>4
  <2>10. H!HistoryIsNewest'
    BY <2>1, <2>9 DEF HistoryInv, H!HistoryIsNewest, H!TypeOK, H!Newest, H!Lowest
  <2>11. H!AnswerIsTrue'
    BY <2>7, <2>8, <2>9 DEF H!AnswerIsTrue
  <2>12. H!ReadersAreTrue'
    BY <2>1, <2>11 DEF HistoryInv, H!ReadersAreTrue, H!CountedOnce, H!Lowest
  <2>13. KeptInv' /\ IteratorInv'
    BY <2>1 DEF HistoryInv, KeptInv, IteratorInv, H!Lowest
  <2> QED
    BY <2>10, <2>12, <2>13 DEF HistoryInv
<1> QED
  BY <1>2, <1>3
-----------------------------------------------------------------------------
LEMMA HistoryStep == HistoryInv /\ [H!Next]_(H!vars) => HistoryInv'
<1> SUFFICES ASSUME HistoryInv, [H!Next]_(H!vars) PROVE HistoryInv'
  OBVIOUS
<1>1. CASE H!Next
  BY <1>1, OnResultKeeps, TrimKeeps, InstallKeeps, CountKeeps, CountNextKeeps, AnswersKeep
     DEF H!Next, H!EventLoop
<1>2. CASE UNCHANGED H!vars
  BY <1>2 DEF H!vars, H!listVars, H!readVars, HistoryInv, KeptInv, IteratorInv, H!HistoryIsNewest,
       H!TypeOK, H!Newest, H!Lowest, H!ReadersAreTrue, H!CountedOnce, H!AnswerIsTrue
<1> QED
  BY <1>1, <1>2

\* The inductive invariant.
THEOREM HistoryInvHolds == H!Spec => []HistoryInv
BY HistoryInit, HistoryStep, PTL DEF H!Spec

(* The list is the newest results without a gap, however it is appended to *)
(* and cut, and never older than what a poll has seen (_on_result,         *)
(* main.py 747-752).                                                       *)
THEOREM HistoryIsNewestHolds == H!Spec => []HistoryIsNewest
<1>1. HistoryInv => HistoryIsNewest
  BY DEF HistoryInv, HistoryIsNewest
<1> QED
  BY <1>1, HistoryInvHolds, PTL

(* Whoever goes through the list while it is appended to and cut counts no *)
(* result twice and misses none of those the list still holds, and the     *)
(* answers of get_history follow one another (session.py, server.py).      *)
THEOREM ReadersAreTrueHolds == H!Spec => []ReadersAreTrue
<1>1. HistoryInv => ReadersAreTrue
  BY DEF HistoryInv, ReadersAreTrue
<1> QED
  BY <1>1, HistoryInvHolds, PTL
-----------------------------------------------------------------------------
(***************************************************************************)
(* The configuration of a session, for any parameters, ranges and wishes.  *)
(*                                                                         *)
(* A session that was not patched has what start_session has worked out    *)
(* from what is still there (StartedInv); the rest is what merge()         *)
(* returns, stated as lemmas about its operators.                          *)
(***************************************************************************)

\* What start_session works out: the configuration, and what it warns of.
Started == C!Overlaid(C!Merge(wishes, C!Combined), input)
Warned  == C!Warnings(wishes, C!Combined)

\* A session that was not patched has it.
StartedInv ==
    /\ patched => stage = "running"
    /\ stage = "running" /\ ~patched =>
        current = Started /\ warnings = Warned

ConfigInv == C!TypeOK /\ StartedInv /\ C!NothingIsMissing /\ C!PatchedIsLegal
-----------------------------------------------------------------------------
\* The values of a dictionary over K.
LEMMA DictsAre ==
  ASSUME NEW K, NEW d \in C!Dicts(K)
  PROVE  DOMAIN d \subseteq K /\ \A k \in DOMAIN d : d[k] \in Values /\ d[k] \in Int
<1>1. PICK D \in SUBSET K : d \in [D -> Values]
  BY DEF C!Dicts
<1> QED
  BY <1>1, RangeAssumption

\* The value a wish is degraded to is the nearest one of the range.
LEMMA ClampIsNearest ==
  ASSUME NEW v \in Int, NEW cap, cap.lo = Lo, cap.hi = Hi
  PROVE  /\ C!Clamp(v, cap) = C!Nearest(v)
         /\ C!Clamp(v, cap) \in Lo .. Hi
         /\ v # C!Clamp(v, cap) <=> (v < Lo \/ v > Hi)
<1> USE RangeAssumption
<1> DEFINE Distance(w) == IF w < v THEN v - w ELSE w - v
           w0 == C!Clamp(v, cap)
           w1 == C!Nearest(v)
<1>1. w0 \in Lo .. Hi /\ (v # w0 <=> (v < Lo \/ v > Hi))
  BY DEF C!Clamp
<1>2. \A x \in Lo .. Hi : Distance(w0) <= Distance(x)
  BY DEF C!Clamp
<1>3. w1 \in Lo .. Hi /\ \A x \in Lo .. Hi : Distance(w1) <= Distance(x)
  BY <1>1, <1>2 DEF C!Nearest
<1>4. w0 = w1
  <2>1. Distance(w1) <= Distance(w0) /\ Distance(w0) <= Distance(w1)
    BY <1>1, <1>2, <1>3
  <2>2. v < Lo => w0 = Lo
    BY DEF C!Clamp
  <2>3. v > Hi => w0 = Hi
    BY DEF C!Clamp
  <2>4. v \in Lo .. Hi => w0 = v
    BY DEF C!Clamp
  <2> HIDE DEF w0, w1
  <2> QED
    BY <1>1, <1>3, <2>1, <2>2, <2>3, <2>4
<1> QED
  BY <1>1, <1>4

\* The built-in capabilities: a range or a fixed value for each key.
LEMMA DefaultsAre ==
  /\ DOMAIN C!DefaultCapabilities = C!Keys
  /\ \A k \in Tunable : /\ C!DefaultCapabilities[k].kind = "range"
                        /\ C!DefaultCapabilities[k].lo = Lo
                        /\ C!DefaultCapabilities[k].hi = Hi
                        /\ C!DefaultCapabilities[k].default = Default
  /\ \A k \in FixedKeys : C!DefaultCapabilities[k].value = FixedValue
BY KeyAssumption DEF C!DefaultCapabilities, C!Keys, C!Ranged, C!Fixed

\* What merge() makes of a wish and a range.
LEMMA RangedMerge ==
  ASSUME NEW reqs \in C!Dicts(Tunable), NEW caps, NEW k \in Tunable, k \in DOMAIN caps,
         caps[k].kind = "range", caps[k].lo = Lo, caps[k].hi = Hi
  PROVE  /\ k \in DOMAIN reqs =>
              /\ C!MergedValue(k, reqs, caps) = C!Nearest(reqs[k])
              /\ C!MergedValue(k, reqs, caps) \in Lo .. Hi
              /\ reqs[k] # C!Nearest(reqs[k])
                    <=> \E w \in {"low", "high"} : w \in C!MergeWarnings(k, reqs, caps)
         /\ k \notin DOMAIN reqs => C!MergedValue(k, reqs, caps) = caps[k].default
         /\ "missing" \notin C!MergeWarnings(k, reqs, caps)
<1>1. ASSUME k \in DOMAIN reqs
      PROVE  /\ C!MergedValue(k, reqs, caps) = C!Nearest(reqs[k])
             /\ C!MergedValue(k, reqs, caps) \in Lo .. Hi
             /\ reqs[k] # C!Nearest(reqs[k])
                   <=> \E w \in {"low", "high"} : w \in C!MergeWarnings(k, reqs, caps)
  <2>1. reqs[k] \in Int
    BY <1>1, DictsAre
  <2>2. C!MergedValue(k, reqs, caps) = C!Clamp(reqs[k], caps[k])
    BY <1>1 DEF C!MergedValue
  <2>3. /\ C!Clamp(reqs[k], caps[k]) = C!Nearest(reqs[k])
        /\ C!Clamp(reqs[k], caps[k]) \in Lo .. Hi
        /\ reqs[k] # C!Clamp(reqs[k], caps[k]) <=> (reqs[k] < Lo \/ reqs[k] > Hi)
    BY <2>1, ClampIsNearest
  <2>4. /\ "low" \in C!MergeWarnings(k, reqs, caps) <=> reqs[k] < Lo
        /\ "high" \in C!MergeWarnings(k, reqs, caps) <=> reqs[k] > Hi
    BY <1>1 DEF C!MergeWarnings
  <2> QED
    BY <2>2, <2>3, <2>4
<1>2. k \notin DOMAIN reqs => C!MergedValue(k, reqs, caps) = caps[k].default
  BY DEF C!MergedValue
<1>3. "missing" \notin C!MergeWarnings(k, reqs, caps)
  BY DEF C!MergeWarnings
<1> QED
  BY <1>1, <1>2, <1>3

\* What the discovery has left, and what the user's input makes of it.
LEMMA CombinedIs ==
  ASSUME C!TypeOK
  PROVE  /\ DOMAIN C!Combined = DOMAIN cached \cup DOMAIN input
         /\ DOMAIN cached # {} => cached = C!DefaultCapabilities
         /\ DOMAIN cached # {} => \A k \in Tunable :
               /\ k \in DOMAIN C!Combined
               /\ C!Combined[k].kind = "range"
               /\ C!Combined[k].lo = Lo /\ C!Combined[k].hi = Hi
               /\ C!Combined[k].default = IF k \in DOMAIN input THEN input[k] ELSE Default
<1>1. DOMAIN C!Combined = DOMAIN cached \cup DOMAIN input
  BY DEF C!Combined
<1>2. DOMAIN cached # {} => cached = C!DefaultCapabilities
  BY DEF C!TypeOK, C!NoCapabilities
<1>3. ASSUME DOMAIN cached # {}, NEW k \in Tunable
      PROVE  /\ k \in DOMAIN C!Combined
             /\ C!Combined[k].kind = "range"
             /\ C!Combined[k].lo = Lo /\ C!Combined[k].hi = Hi
             /\ C!Combined[k].default = IF k \in DOMAIN input THEN input[k] ELSE Default
  <2>1. k \in DOMAIN cached
    BY <1>2, <1>3, DefaultsAre DEF C!Keys
  <2>2. /\ cached[k].kind = "range" /\ cached[k].lo = Lo /\ cached[k].hi = Hi
        /\ cached[k].default = Default
    BY <1>2, <1>3, DefaultsAre
  <2>3. C!Combined[k] = IF k \notin DOMAIN input THEN cached[k] ELSE C!Ranged(input[k])
    BY <1>1, <2>1, <2>2 DEF C!Combined
  <2> QED
    BY <1>1, <2>1, <2>2, <2>3 DEF C!Ranged
<1> QED
  BY <1>1, <1>2, <1>3

\* merge() falls back to the built-in capabilities.
LEMMA EffectiveIs ==
  ASSUME C!TypeOK
  PROVE  /\ C!Effective(cached) = C!DefaultCapabilities
         /\ DOMAIN cached \cup DOMAIN input # {} => C!Effective(C!Combined) = C!Combined
         /\ DOMAIN cached \cup DOMAIN input = {} => C!Effective(C!Combined) = C!DefaultCapabilities
<1>1. DOMAIN cached # {} => C!Effective(cached) = cached
  BY DEF C!Effective
<1>2. DOMAIN cached = {} => C!Effective(cached) = C!DefaultCapabilities
  BY DEF C!Effective
<1>3. DOMAIN C!Combined # {} => C!Effective(C!Combined) = C!Combined
  BY DEF C!Effective
<1>4. DOMAIN C!Combined = {} /\ DOMAIN cached = {} => C!Effective(C!Combined) = C!DefaultCapabilities
  BY DEF C!Effective
<1> QED
  BY <1>1, <1>2, <1>3, <1>4, CombinedIs

\* What merge() returns for a tunable parameter and for a fixed one.
LEMMA MergeIs ==
  ASSUME NEW reqs, NEW caps
  PROVE  /\ Tunable \subseteq DOMAIN C!Merge(reqs, caps)
         /\ DOMAIN C!Merge(reqs, caps) \subseteq C!Keys
         /\ \A k \in Tunable : C!Merge(reqs, caps)[k] = C!MergedValue(k, reqs, C!Effective(caps))
         /\ \A k \in FixedKeys \cap DOMAIN C!Effective(caps) :
               k \in DOMAIN C!Merge(reqs, caps) /\ C!Merge(reqs, caps)[k] = C!Effective(caps)[k].value
BY KeyAssumption DEF C!Merge, C!Keys

LEMMA OverlaidIs ==
  ASSUME NEW d, NEW e
  PROVE  /\ DOMAIN C!Overlaid(d, e) = DOMAIN d \cup DOMAIN e
         /\ \A k \in DOMAIN e : C!Overlaid(d, e)[k] = e[k]
         /\ \A k \in DOMAIN d \ DOMAIN e : C!Overlaid(d, e)[k] = d[k]
BY DEF C!Overlaid

LEMMA WarningsAre ==
  ASSUME NEW reqs, NEW caps
  PROVE  /\ C!Warnings(reqs, caps) \subseteq Tunable \X {"low", "high", "missing"}
         /\ \A k \in Tunable : \A w \in {"low", "high", "missing"} :
               <<k, w>> \in C!Warnings(reqs, caps) <=> w \in C!MergeWarnings(k, reqs, C!Effective(caps))
<1>1. C!Warnings(reqs, caps) \subseteq Tunable \X {"low", "high", "missing"}
  BY DEF C!Warnings
<1>2. ASSUME NEW k \in Tunable, NEW w \in {"low", "high", "missing"}
      PROVE  <<k, w>> \in C!Warnings(reqs, caps) <=> w \in C!MergeWarnings(k, reqs, C!Effective(caps))
  <2>1. <<k, w>> \in Tunable \X {"low", "high", "missing"} /\ <<k, w>>[1] = k /\ <<k, w>>[2] = w
    BY <1>2
  <2> QED
    BY <2>1 DEF C!Warnings
<1> QED
  BY <1>1, <1>2
-----------------------------------------------------------------------------
LEMMA ConfigInit == C!Init => ConfigInv
<1> SUFFICES ASSUME C!Init PROVE ConfigInv
  OBVIOUS
<1>1. DOMAIN C!NoCapabilities = {}
  BY DEF C!NoCapabilities
<1> QED
  BY <1>1 DEF C!Init, ConfigInv, C!TypeOK, StartedInv, C!NothingIsMissing, C!PatchedIsLegal

LEMMA DiscoverKeeps == ConfigInv /\ C!Discover => ConfigInv'
BY DEF ConfigInv, C!Discover, C!TypeOK, StartedInv, C!NothingIsMissing, C!PatchedIsLegal

\* What a session starts with: a value for each parameter, unless it is refused.
LEMMA StartKeeps == ConfigInv /\ C!StartSession => ConfigInv'
<1> SUFFICES ASSUME ConfigInv, C!StartSession PROVE ConfigInv'
  OBVIOUS
<1> DEFINE merged == C!Merge(wishes, C!Combined)
           warned == C!Warnings(wishes, C!Combined)
           E      == C!Effective(C!Combined)
<1>1. C!TypeOK /\ wishes \in C!Dicts(Tunable) /\ input \in C!Dicts(C!Keys) /\ stage = "idle"
  BY DEF ConfigInv, C!TypeOK, C!StartSession
<1>2. UNCHANGED <<cached, wishes, input, patched>> /\ UNCHANGED C!Combined
  BY DEF C!StartSession, C!Combined
<1>3. UNCHANGED <<Started, Warned>>
  BY <1>2 DEF Started, Warned, C!Overlaid, C!Merge, C!Warnings, C!Effective, C!DefaultCapabilities, C!MergedValue,
       C!MergeWarnings
\* A parameter with a known range is never missing.
<1>4. ASSUME NEW k \in Tunable, DOMAIN cached # {} \/ DOMAIN input = {}
      PROVE  /\ <<k, "missing">> \notin warned
             /\ k \notin DOMAIN input => merged[k] \in Int
  <2>1. /\ k \in DOMAIN E /\ E[k].kind = "range" /\ E[k].lo = Lo /\ E[k].hi = Hi
        /\ k \notin DOMAIN input => E[k].default = Default
    BY <1>1, <1>4, CombinedIs, EffectiveIs, DefaultsAre DEF C!Keys
  <2>2. /\ "missing" \notin C!MergeWarnings(k, wishes, E)
        /\ k \in DOMAIN wishes => C!MergedValue(k, wishes, E) \in Lo .. Hi
        /\ k \notin DOMAIN wishes => C!MergedValue(k, wishes, E) = E[k].default
    BY <1>1, <2>1, RangedMerge
  <2>3. merged[k] = C!MergedValue(k, wishes, E)
    BY MergeIs
  <2>4. <<k, "missing">> \notin warned
    BY <2>2, WarningsAre
  <2> QED
    BY <2>1, <2>2, <2>3, <2>4, RangeAssumption
<1>5. CASE \E w \in warned : w[2] = "missing"
  <2>1. stage' = "refused" /\ UNCHANGED <<current, warnings>>
    BY <1>5 DEF C!StartSession
  <2>2. DOMAIN cached = {} /\ DOMAIN input # {}
    <3>1. PICK w \in warned : w[2] = "missing"
      BY <1>5
    <3>2. w = <<w[1], "missing">> /\ w[1] \in Tunable
      BY <3>1, WarningsAre
    <3> QED
      BY <1>4, <3>1, <3>2
  <2> QED
    BY <1>1, <1>2, <2>1, <2>2
       DEF ConfigInv, C!TypeOK, StartedInv, C!NothingIsMissing, C!PatchedIsLegal
<1>6. CASE ~\E w \in warned : w[2] = "missing"
  <2>1. stage' = "running" /\ current' = C!Overlaid(merged, input) /\ warnings' = warned
    BY <1>6 DEF C!StartSession
  <2>2. patched' = FALSE
    BY <1>1, <1>2 DEF ConfigInv, StartedInv, C!TypeOK
  <2>3. DOMAIN current' = DOMAIN merged \cup DOMAIN input /\ DOMAIN input \subseteq C!Keys
    BY <1>1, <2>1, OverlaidIs, DictsAre
  <2>4. C!TypeOK'
    <3>1. DOMAIN current' \subseteq C!Keys
      BY <2>3, MergeIs
    <3>2. warnings' \subseteq Tunable \X {"low", "high", "missing"}
      BY <2>1, WarningsAre
    <3> QED
      BY <1>1, <1>2, <2>1, <3>1, <3>2 DEF C!TypeOK
  <2>5. StartedInv'
    BY <1>3, <2>1 DEF StartedInv, Started, Warned
  <2>6. ASSUME NEW k \in Tunable
        PROVE  k \in DOMAIN current' /\ current'[k] \in Int
    <3>1. k \in DOMAIN merged /\ merged[k] = C!MergedValue(k, wishes, E)
      BY MergeIs
    <3>2. CASE k \in DOMAIN input
      <4>1. input[k] \in Int
        BY <1>1, <3>2, DictsAre
      <4>2. k \in DOMAIN C!Overlaid(merged, input) /\ C!Overlaid(merged, input)[k] = input[k]
        BY <3>2 DEF C!Overlaid
      <4> QED
        BY <2>1, <4>1, <4>2
    <3>3. CASE k \notin DOMAIN input
      <4>1. merged[k] \in Int
        <5>1. CASE DOMAIN cached # {} \/ DOMAIN input = {}
          BY <1>4, <3>3, <5>1
        <5>2. CASE DOMAIN cached = {} /\ DOMAIN input # {}
          <6>1. k \notin DOMAIN E
            BY <1>1, <3>3, <5>2, CombinedIs, EffectiveIs
          <6>2. <<k, "missing">> \notin warned
            <7>1. <<k, "missing">>[2] = "missing"
              OBVIOUS
            <7> QED
              BY <1>6, <7>1
          <6>3. "missing" \notin C!MergeWarnings(k, wishes, E)
            BY <6>2, WarningsAre
          <6>4. k \in DOMAIN wishes
            BY <6>1, <6>3 DEF C!MergeWarnings
          <6>5. C!MergedValue(k, wishes, E) = wishes[k]
            BY <6>1, <6>4 DEF C!MergedValue
          <6> QED
            BY <1>1, <3>1, <6>4, <6>5, DictsAre
        <5> QED
          BY <5>1, <5>2
      <4> QED
        BY <2>1, <3>1, <3>3, <4>1, OverlaidIs
    <3> QED
      BY <3>2, <3>3
  <2>7. C!NothingIsMissing'
    BY <2>1, <2>6, RangeAssumption DEF C!NothingIsMissing
  <2>8. C!PatchedIsLegal'
    BY <1>2, <2>2 DEF C!PatchedIsLegal
  <2> QED
    BY <2>4, <2>5, <2>7, <2>8 DEF ConfigInv
<1> QED
  BY <1>5, <1>6

\* A PATCH is merged with the built-in capabilities, whatever discovery found.
LEMMA PatchKeeps ==
  ASSUME ConfigInv, NEW config \in C!Dicts(Tunable), C!UpdateSessionConfig(config)
  PROVE  ConfigInv'
<1> DEFINE merged == C!Merge(config, cached)
           warned == C!Warnings(config, cached)
<1>1. C!TypeOK /\ stage = "running" /\ C!Effective(cached) = C!DefaultCapabilities
  BY EffectiveIs DEF ConfigInv, C!UpdateSessionConfig
<1>2. /\ current' = C!Overlaid(current, merged) /\ warnings' = warnings \cup warned
      /\ patched' = TRUE /\ UNCHANGED <<cached, wishes, input, stage>>
  BY DEF C!UpdateSessionConfig
<1>3. ASSUME NEW k \in Tunable
      PROVE  k \in DOMAIN current' /\ current'[k] \in Lo .. Hi
  <2>1. /\ k \in DOMAIN C!DefaultCapabilities /\ C!DefaultCapabilities[k].kind = "range"
        /\ C!DefaultCapabilities[k].lo = Lo /\ C!DefaultCapabilities[k].hi = Hi
        /\ C!DefaultCapabilities[k].default = Default
    BY DefaultsAre DEF C!Keys
  <2>2. C!MergedValue(k, config, C!DefaultCapabilities) \in Lo .. Hi
    BY <2>1, RangedMerge, RangeAssumption
  <2>3. k \in DOMAIN merged /\ merged[k] \in Lo .. Hi
    BY <1>1, <2>2, MergeIs
  <2> QED
    BY <1>2, <2>3 DEF C!Overlaid
<1>4. ASSUME NEW k \in FixedKeys
      PROVE  current'[k] = FixedValue
  <2>1. k \in DOMAIN C!DefaultCapabilities /\ C!DefaultCapabilities[k].value = FixedValue
    BY DefaultsAre DEF C!Keys
  <2>2. k \in DOMAIN merged /\ merged[k] = FixedValue
    BY <1>1, <2>1, MergeIs
  <2> QED
    BY <1>2, <2>2 DEF C!Overlaid
<1>5. C!TypeOK'
  <2>1. DOMAIN current' \subseteq C!Keys
    BY <1>1, <1>2, MergeIs, OverlaidIs DEF C!TypeOK
  <2>2. warnings' \subseteq Tunable \X {"low", "high", "missing"}
    BY <1>1, <1>2, WarningsAre DEF C!TypeOK
  <2> QED
    BY <1>1, <1>2, <2>1, <2>2 DEF C!TypeOK
<1>6. StartedInv' /\ C!NothingIsMissing' /\ C!PatchedIsLegal'
  BY <1>1, <1>2, <1>3, <1>4, RangeAssumption
     DEF StartedInv, C!NothingIsMissing, C!PatchedIsLegal
<1> QED
  BY <1>5, <1>6 DEF ConfigInv

LEMMA ConfigStep == ConfigInv /\ [C!Next]_(C!vars) => ConfigInv'
<1> SUFFICES ASSUME ConfigInv, [C!Next]_(C!vars) PROVE ConfigInv'
  OBVIOUS
<1>1. CASE C!Next
  BY <1>1, DiscoverKeeps, StartKeeps, PatchKeeps DEF C!Next
<1>2. CASE UNCHANGED C!vars
  <2>1. UNCHANGED <<Started, Warned>>
    BY <1>2 DEF C!vars, Started, Warned, C!Overlaid, C!Merge, C!Warnings, C!Effective, C!Combined,
         C!DefaultCapabilities, C!MergedValue, C!MergeWarnings
  <2> QED
    BY <1>2, <2>1 DEF C!vars, ConfigInv, C!TypeOK, StartedInv, C!NothingIsMissing, C!PatchedIsLegal
<1> QED
  BY <1>1, <1>2

\* What was worked out is the nearest the hardware allows, and honestly warned of.
LEMMA StartedIsClamped == ConfigInv => C!WishesAreClamped
<1> SUFFICES ASSUME ConfigInv, stage = "running", ~patched, DOMAIN cached # {},
                    NEW k \in Tunable, k \in DOMAIN wishes
             PROVE  /\ k \notin DOMAIN input => current[k] = C!Nearest(wishes[k])
                    /\ wishes[k] # C!Nearest(wishes[k])
                          <=> (<<k, "low">> \in warnings \/ <<k, "high">> \in warnings)
  BY DEF C!WishesAreClamped
<1> DEFINE merged == C!Merge(wishes, C!Combined)
<1>1. C!TypeOK /\ current = C!Overlaid(merged, input) /\ warnings = C!Warnings(wishes, C!Combined)
  BY DEF ConfigInv, StartedInv, Started, Warned
<1>2. /\ k \in DOMAIN C!Combined /\ C!Combined[k].kind = "range"
      /\ C!Combined[k].lo = Lo /\ C!Combined[k].hi = Hi
      /\ C!Effective(C!Combined) = C!Combined
  BY <1>1, CombinedIs, EffectiveIs
<1>3. /\ C!MergedValue(k, wishes, C!Combined) = C!Nearest(wishes[k])
      /\ wishes[k] # C!Nearest(wishes[k])
            <=> \E w \in {"low", "high"} : w \in C!MergeWarnings(k, wishes, C!Combined)
  BY <1>1, <1>2, RangedMerge DEF C!TypeOK
<1>4. k \in DOMAIN merged /\ merged[k] = C!Nearest(wishes[k])
  BY <1>2, <1>3, MergeIs
<1>5. k \notin DOMAIN input => current[k] = C!Nearest(wishes[k])
  BY <1>1, <1>4 DEF C!Overlaid
<1>6. wishes[k] # C!Nearest(wishes[k]) <=> (<<k, "low">> \in warnings \/ <<k, "high">> \in warnings)
  BY <1>1, <1>2, <1>3, WarningsAre
<1> QED
  BY <1>5, <1>6

\* The inductive invariant.
THEOREM ConfigInvHolds == C!Spec => []ConfigInv
BY ConfigInit, ConfigStep, PTL DEF C!Spec

(* A session starts with its component's wishes degraded to the nearest    *)
(* values the hardware allows, is warned exactly of those, and has a value *)
(* for each parameter (merge, config_manager.py 59-154, and start_session).*)
THEOREM StartIsLegalHolds == C!Spec => []StartIsLegal
<1>1. ConfigInv => StartIsLegal
  BY StartedIsClamped DEF ConfigInv, StartIsLegal, C!StartIsLegal
<1> QED
  BY <1>1, ConfigInvHolds, PTL

(* A PATCH leaves only values the hardware allows, whatever the session    *)
(* was started with (update_session_config, main.py 508-529).              *)
THEOREM PatchedIsLegalHolds == C!Spec => []PatchedIsLegal
<1>1. ConfigInv => PatchedIsLegal
  BY DEF ConfigInv, PatchedIsLegal
<1> QED
  BY <1>1, ConfigInvHolds, PTL
=============================================================================
