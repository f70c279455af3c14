----------------------- MODULE ScheduleMeetingsProofs -----------------------
(***************************************************************************)
(* Proofs about the backtracking search (BacktrackSearch), for every       *)
(* problem, budget and bound, and about a request from end to end          *)
(* (ScheduleMeetings), for every set of requests and number of slots.      *)
(* The second part rests on the first: the search of a request is one of   *)
(* the searches that the first part is about, and its positions are the    *)
(* positions of the request.                                               *)
(***************************************************************************)
EXTENDS ScheduleMeetings, TimeRangesProofs

-----------------------------------------------------------------------------
(* The order of the solution tree.                                         *)

\* Two ranges compare Equal exactly when they share a slot, so contains_key
\* answers the question the search asks.
LEMMA EqualIffOverlap ==
    ASSUME NEW a \in TimeRange, NEW b \in TimeRange
    PROVE  InternalCmp(a, b) = "Equal" <=> Overlap(a, b)
BY DEF TimeRange, InternalCmp, Overlap

\* Swapping the arguments turns Less into Greater.
LEMMA CmpAntisymmetric ==
    ASSUME NEW a \in TimeRange, NEW b \in TimeRange
    PROVE  InternalCmp(a, b) = "Less" <=> InternalCmp(b, a) = "Greater"
BY DEF TimeRange, InternalCmp

\* Less is transitive, so that disjoint keys are totally ordered: what a tree
\* keyed by a relation that is not transitive on "Equal" needs.
LEMMA CmpTransitive ==
    ASSUME NEW a \in TimeRange, NEW b \in TimeRange, NEW c \in TimeRange,
           InternalCmp(a, b) = "Less", InternalCmp(b, c) = "Less"
    PROVE  InternalCmp(a, c) = "Less"
BY DEF TimeRange, InternalCmp

-----------------------------------------------------------------------------
(* Windows and placements.                                                 *)

\* What a meeting of a problem is made of.
LEMMA MeetingType ==
    ASSUME NEW ms \in Seq(Meeting), NEW n \in DOMAIN ms
    PROVE  /\ ms[n].id \in Ids
           /\ ms[n].windows \in Seq(TimeRange)
           /\ Len(ms[n].windows) \in Nat
<1>1. ms[n] \in Meeting
  OBVIOUS
<1>2. ms[n].windows \in Seq(TimeRange) /\ ms[n].id \in Ids
  BY <1>1 DEF Meeting
<1> QED
  BY <1>2

\* A window of a meeting is a range.
LEMMA WindowType ==
    ASSUME NEW ms \in Seq(Meeting), NEW n \in DOMAIN ms,
           NEW i \in 0 .. Len(ms[n].windows) - 1
    PROVE  Window(ms, n, i) \in TimeRange
<1>1. ms[n].windows \in Seq(TimeRange)
  BY MeetingType
<1>2. i + 1 \in 1 .. Len(ms[n].windows)
  BY <1>1
<1> QED
  BY <1>1, <1>2 DEF Window

\* The indices of a placement are indices of windows.
LEMMA PlacementType ==
    ASSUME NEW ms \in Seq(Meeting), NEW f \in Placements(ms), NEW n \in DOMAIN ms
    PROVE  f[n] \in 0 .. Len(ms[n].windows) - 1
<1>1. f \in [DOMAIN ms -> WindowIndices(ms)] /\ f[n] < Len(ms[n].windows)
  BY DEF Placements
<1>2. PICK m \in DOMAIN ms : f[n] \in 0 .. Len(ms[m].windows) - 1
  BY <1>1 DEF WindowIndices
<1>3. Len(ms[m].windows) \in Nat /\ Len(ms[n].windows) \in Nat
  BY MeetingType
<1> QED
  BY <1>1, <1>2, <1>3

\* A choice of windows without a shared slot is a placement.
LEMMA PlacementIntro ==
    ASSUME NEW ms \in Seq(Meeting), NEW f,
           f = [n \in DOMAIN ms |-> f[n]],
           \A n \in DOMAIN ms : f[n] \in 0 .. Len(ms[n].windows) - 1,
           \A m, n \in DOMAIN ms :
               m < n => ~Overlap(Window(ms, m, f[m]), Window(ms, n, f[n]))
    PROVE  f \in Placements(ms)
<1>1. \A n \in DOMAIN ms : f[n] \in WindowIndices(ms)
  BY DEF WindowIndices
<1>2. f \in [DOMAIN ms -> WindowIndices(ms)]
  BY <1>1
<1>3. \A n \in DOMAIN ms : f[n] < Len(ms[n].windows)
  BY MeetingType
<1> QED
  BY <1>2, <1>3 DEF Placements

-----------------------------------------------------------------------------
(* The inductive invariant.                                                *)

\* A search begins in a state of its invariant, whatever it is given.
LEMMA BeginInv ==
    /\ Begin
    /\ meetings \in Seq(Meeting) /\ len \in Nat /\ Len(meetings) <= len /\ limit \in Limits
    => IInv
<1> SUFFICES ASSUME Begin, meetings \in Seq(Meeting), len \in Nat, Len(meetings) <= len,
                    limit \in Limits
             PROVE  IInv
  OBVIOUS
<1> USE DEF Begin
<1>1. Len(meetings) \in Nat
  OBVIOUS
<1>3. TypeOK
  <2>1. state \in [1 .. len -> Nat]
    OBVIOUS
  <2>2. result \in Outcome
    BY DEF Outcome
  <2>3. lastKey \in Seq(TimeRange)
    OBVIOUS
  <2>4. nth \in 0 .. Len(meetings) + 1
    BY <1>1
  <2> QED
    BY <1>1, <2>1, <2>2, <2>3, <2>4 DEF TypeOK
<1>4. TreeMatchesStack
  BY DEF TreeMatchesStack
<1>5. Bookkeeping
  BY DEF Bookkeeping, NoOutcome
<1>6. NoPlacementPassedBy
  <2> SUFFICES ASSUME NEW f \in Placements(meetings) PROVE Untried(f)
    BY DEF NoPlacementPassedBy
  <2>1. AgreesBefore(f, 1)
    BY DEF AgreesBefore
  <2>2. 1 \in DOMAIN meetings => f[1] >= state[1]
    BY <1>1, PlacementType, MeetingType
  <2> QED
    BY <2>1, <2>2 DEF Untried
<1> QED
  BY <1>3, <1>4, <1>5, <1>6 DEF IInv

\* The invariant holds when schedule_setup starts.
LEMMA InitInv == Init => IInv
<1> SUFFICES ASSUME Init PROVE IInv
  OBVIOUS
<1>1. Begin /\ limit \in Limits /\ meetings \in Seq(Meeting) /\ Len(meetings) \in Nat
  BY ProblemsAssumption DEF Init
<1>2. len \in Nat /\ Len(meetings) <= len
  BY <1>1, BoundsAssumption DEF Init
<1> QED
  BY <1>1, <1>2, BeginInv

\* A step that leaves the search position alone keeps everything that is
\* said about it.
LEMMA PositionFrame ==
    ASSUME TreeMatchesStack, NoPlacementPassedBy,
           UNCHANGED <<meetings, nth, state, solution, lastKey>>
    PROVE  TreeMatchesStack' /\ NoPlacementPassedBy'
<1>1. TreeMatchesStack'
  BY DEF TreeMatchesStack
<1>2. NoPlacementPassedBy'
  BY DEF NoPlacementPassedBy, Untried, AgreesBefore
<1> QED
  BY <1>1, <1>2

\* In a pass, the times given away are those of the meetings before nth.
LEMMA TakenTimes ==
    ASSUME IInv, nth > 0, NEW w \in TimeRange
    PROVE  ContainsKey(w) <=>
              \E n \in 1 .. nth - 1 : Overlap(w, Window(meetings, n, state[n]))
<1>1. DOMAIN lastKey = 1 .. nth - 1
  BY DEF IInv, TypeOK, TreeMatchesStack
<1>2. \A n \in 1 .. nth - 1 :
          /\ lastKey[n] = Window(meetings, n, state[n])
          /\ lastKey[n] \in TimeRange
  BY <1>1 DEF IInv, TypeOK, Bookkeeping
<1>3. ContainsKey(w) <=> \E n \in 1 .. nth - 1 : InternalCmp(w, lastKey[n]) = "Equal"
  <2>1. solution = {[key |-> lastKey[n], id |-> meetings[n].id] : n \in 1 .. nth - 1}
    BY <1>1 DEF IInv, TreeMatchesStack
  <2>2. ASSUME NEW e \in solution, InternalCmp(w, e.key) = "Equal"
        PROVE  \E n \in 1 .. nth - 1 : InternalCmp(w, lastKey[n]) = "Equal"
    <3>1. PICK n \in 1 .. nth - 1 : e = [key |-> lastKey[n], id |-> meetings[n].id]
      BY <2>1
    <3> QED
      BY <2>2, <3>1
  <2>3. ASSUME NEW n \in 1 .. nth - 1, InternalCmp(w, lastKey[n]) = "Equal"
        PROVE  \E e \in solution : InternalCmp(w, e.key) = "Equal"
    <3>1. [key |-> lastKey[n], id |-> meetings[n].id] \in solution
      BY <2>1
    <3>2. InternalCmp(w, [key |-> lastKey[n], id |-> meetings[n].id].key) = "Equal"
      BY <2>3
    <3> QED
      BY <3>1, <3>2
  <2> QED
    BY <2>2, <2>3 DEF ContainsKey
<1> QED
  BY <1>2, <1>3, EqualIffOverlap

\* Sharing a slot does not depend on which range is asked.
LEMMA OverlapSymmetric ==
    ASSUME NEW a \in TimeRange, NEW b \in TimeRange
    PROVE  Overlap(a, b) <=> Overlap(b, a)
BY DEF TimeRange, Overlap

\* A placement that agrees with the search so far, and is not before it, gives
\* the meeting at hand a window that is still free.
LEMMA PlacementIsFree ==
    ASSUME IInv, nth > 0, nth \in DOMAIN meetings,
           NEW f \in Placements(meetings), AgreesBefore(f, nth), f[nth] >= state[nth]
    PROVE  f[nth] \in Free(nth)
<1>1. meetings \in Seq(Meeting) /\ nth \in Nat /\ state[nth] \in Nat
  BY DEF IInv, TypeOK
<1>2. f[nth] \in 0 .. Len(meetings[nth].windows) - 1
  BY <1>1, PlacementType
<1>3. f[nth] \in state[nth] .. Len(meetings[nth].windows) - 1
  BY <1>1, <1>2, MeetingType
<1> DEFINE w == Window(meetings, nth, f[nth])
<1>4. w \in TimeRange
  BY <1>1, <1>2, WindowType
<1>5. ASSUME NEW n \in 1 .. nth - 1
      PROVE  ~Overlap(w, Window(meetings, n, state[n]))
  <2>1. n \in DOMAIN meetings /\ n < nth /\ f[n] = state[n]
    BY <1>1 DEF AgreesBefore
  <2>2. ~Overlap(Window(meetings, n, f[n]), w)
    BY <2>1 DEF Placements
  <2>3. f[n] \in 0 .. Len(meetings[n].windows) - 1
    BY <1>1, <2>1, PlacementType
  <2>4. Window(meetings, n, f[n]) \in TimeRange
    BY <1>1, <2>1, <2>3, WindowType
  <2> QED
    BY <1>4, <2>1, <2>2, <2>4, OverlapSymmetric
<1>6. ~ContainsKey(w)
  BY <1>4, <1>5, TakenTimes
<1> QED
  BY <1>3, <1>6 DEF Free
-----------------------------------------------------------------------------
(* Placing a meeting.                                                      *)

\* Giving a meeting its first free window preserves the invariant.
LEMMA PlaceInv ==
    ASSUME IInv, Place
    PROVE  IInv'
<1>1. /\ meetings \in Seq(Meeting) /\ Len(meetings) \in Nat
      /\ nth \in 1 .. Len(meetings) /\ nth \in DOMAIN meetings
      /\ len \in Nat /\ Len(meetings) <= len
      /\ state \in [1 .. len -> Nat]
      /\ pc = "pass" /\ result.kind = "None"
  BY DEF IInv, TypeOK, Bookkeeping, Place
<1>0. \A n \in 1 .. len : n > nth \/ n > Len(meetings) => state[n] = 0
  BY DEF IInv, Bookkeeping
<1>2. PICK i \in FirstFree(nth) :
         /\ state' = [state EXCEPT ![nth] = i]
         /\ solution' = solution \cup
               {[key |-> Window(meetings, nth, i), id |-> meetings[nth].id]}
         /\ lastKey' = Append(lastKey, Window(meetings, nth, i))
  BY DEF Place
<1>3. /\ nth' = nth + 1
      /\ UNCHANGED <<meetings, len, limit, countIter, pc, result, shouldStop>>
  BY DEF Place, input
<1> DEFINE time == Window(meetings, nth, i)
<1>4. /\ i \in Nat /\ i >= state[nth]
      /\ i \in 0 .. Len(meetings[nth].windows) - 1
      /\ ~ContainsKey(time)
      /\ \A j \in Free(nth) : i <= j
  <2>1. Len(meetings[nth].windows) \in Nat
    BY <1>1, MeetingType
  <2> QED
    BY <1>1, <2>1 DEF FirstFree, Free
<1>5. time \in TimeRange /\ meetings[nth].id \in Ids
  BY <1>1, <1>4, WindowType, MeetingType
<1>6. /\ state' \in [1 .. len -> Nat] /\ state'[nth] = i
      /\ \A n \in 1 .. len : n # nth => state'[n] = state[n]
  BY <1>1, <1>2, <1>4
<1>7. lastKey \in Seq(TimeRange) /\ Len(lastKey) = nth - 1
  BY <1>1 DEF IInv, TypeOK, TreeMatchesStack
<1>8. /\ lastKey' \in Seq(TimeRange)
      /\ DOMAIN lastKey = 1 .. nth - 1 /\ DOMAIN lastKey' = 1 .. nth
      /\ Len(lastKey') = nth
      /\ lastKey'[nth] = time
      /\ \A n \in 1 .. nth - 1 : lastKey'[n] = lastKey[n]
  <2> HIDE DEF time
  <2>1. lastKey' = Append(lastKey, time)
    BY <1>2 DEF time
  <2> QED
    BY <1>1, <1>5, <1>7, <2>1
<1>9. TypeOK'
  <2>1. solution' \subseteq Entry
    BY <1>2, <1>5 DEF IInv, TypeOK, Entry
  <2>2. result' \in Outcome'
    BY <1>3 DEF IInv, TypeOK, Outcome
  <2>3. nth' \in 0 .. Len(meetings') + 1
    BY <1>1, <1>3
  <2> QED
    BY <1>1, <1>3, <1>6, <1>8, <2>1, <2>2, <2>3 DEF IInv, TypeOK
<1>10. TreeMatchesStack'
  <2>1. Len(lastKey') = nth' - 1
    BY <1>1, <1>3, <1>8
  <2>2. solution' = {[key |-> lastKey'[n], id |-> meetings'[n].id] : n \in DOMAIN lastKey'}
    <3>1. solution = {[key |-> lastKey[n], id |-> meetings[n].id] : n \in 1 .. nth - 1}
      BY <1>8 DEF IInv, TreeMatchesStack
    <3>2. solution = {[key |-> lastKey'[n], id |-> meetings'[n].id] : n \in 1 .. nth - 1}
      BY <1>3, <1>8, <3>1
    <3>3. 1 .. nth = (1 .. nth - 1) \cup {nth}
      BY <1>1
    <3>4. solution' = solution \cup {[key |-> lastKey'[nth], id |-> meetings'[nth].id]}
      BY <1>2, <1>3, <1>8
    <3> QED
      BY <1>8, <3>2, <3>3, <3>4
  <2>3. ASSUME NEW m \in 1 .. nth, NEW n \in 1 .. nth, m < n
        PROVE  ~Overlap(lastKey'[m], lastKey'[n])
    <3>1. CASE n < nth
      <4>1. m \in 1 .. nth - 1 /\ n \in 1 .. nth - 1
        BY <1>1, <2>3, <3>1
      <4> QED
        BY <1>8, <2>3, <4>1 DEF IInv, TreeMatchesStack
    <3>2. CASE n = nth
      <4>1. m \in 1 .. nth - 1
        BY <1>1, <2>3, <3>2
      <4>2. lastKey[m] = Window(meetings, m, state[m]) /\ lastKey[m] \in TimeRange
        BY <1>7, <1>8, <4>1 DEF IInv, Bookkeeping
      <4>3. ~Overlap(time, lastKey[m])
        BY <1>1, <1>4, <1>5, <4>1, <4>2, TakenTimes
      <4> QED
        BY <1>5, <1>8, <3>2, <4>1, <4>2, <4>3, OverlapSymmetric
    <3> QED
      BY <1>1, <3>1, <3>2
  <2> QED
    BY <1>8, <2>1, <2>2, <2>3 DEF TreeMatchesStack
<1>11. Bookkeeping'
  <2>1. \A n \in 1 .. len' : n > nth' \/ n > Len(meetings') => state'[n] = 0
    <3>1. len' = len /\ nth' = nth + 1 /\ meetings' = meetings
      BY <1>3
    <3>2. ASSUME NEW n \in 1 .. len, n > nth + 1 \/ n > Len(meetings)
          PROVE  state'[n] = 0
      <4>1. n > nth /\ n # nth
        BY <1>1, <3>2
      <4> QED
        BY <1>0, <1>6, <4>1
    <3> QED
      BY <3>1, <3>2
  <2>2. ASSUME NEW n \in 1 .. nth' - 1
        PROVE  /\ n \in DOMAIN meetings'
               /\ n \in DOMAIN lastKey'
               /\ state'[n] < Len(meetings'[n].windows)
               /\ lastKey'[n] = Window(meetings', n, state'[n])
    <3>1. CASE n < nth
      <4>1. n \in 1 .. nth - 1 /\ n \in 1 .. nth /\ n \in 1 .. len /\ n # nth
        BY <1>1, <2>2, <3>1
      <4>2. /\ n \in DOMAIN meetings
            /\ state[n] < Len(meetings[n].windows)
            /\ lastKey[n] = Window(meetings, n, state[n])
        BY <4>1 DEF IInv, Bookkeeping
      <4>3. state'[n] = state[n] /\ lastKey'[n] = lastKey[n] /\ meetings' = meetings
        BY <1>3, <1>6, <1>8, <4>1
      <4> QED
        BY <1>8, <4>1, <4>2, <4>3
    <3>2. CASE n = nth
      <4>1. i < Len(meetings[nth].windows)
        <5>1. Len(meetings[nth].windows) \in Nat
          BY <1>1, MeetingType
        <5> QED
          BY <1>4, <5>1
      <4>2. state'[nth] = i /\ lastKey'[nth] = time /\ meetings' = meetings
        BY <1>1, <1>3, <1>6, <1>8
      <4>3. nth \in DOMAIN meetings /\ nth \in DOMAIN lastKey'
        BY <1>1, <1>8
      <4> QED
        BY <3>2, <4>1, <4>2, <4>3
    <3> QED
      BY <1>1, <1>3, <2>2, <3>1, <3>2
  <2>3. nth' > 0
    BY <1>1, <1>3
  <2>4. pc' = "pass" /\ countIter' > 0 /\ result'.kind = "None"
    BY <1>1, <1>3 DEF IInv, Bookkeeping
  <2> QED
    BY <2>1, <2>2, <2>3, <2>4 DEF Bookkeeping
<1>12. NoPlacementPassedBy'
  <2> SUFFICES ASSUME NEW f \in Placements(meetings) PROVE Untried(f)'
    BY <1>3 DEF NoPlacementPassedBy
  <2> DEFINE Agrees(k) == \A m \in 1 .. k - 1 : f[m] = state'[m]
  <2>1. Untried(f) /\ nth > 0
    BY <1>1 DEF IInv, NoPlacementPassedBy
  <2>2. \A n \in 1 .. nth : AgreesBefore(f, n) => Agrees(n)
    BY <1>1, <1>6 DEF AgreesBefore
  <2>3. ASSUME NEW n \in 1 .. nth, Agrees(n), f[n] > state'[n]
        PROVE  Untried(f)'
    <3>1. nth' > 0 /\ n \in 1 .. nth' - 1
      BY <1>1, <1>3
    <3> QED
      BY <2>3, <3>1 DEF Untried, AgreesBefore
  <2>4. CASE AgreesBefore(f, nth) /\ f[nth] >= state[nth]
    <3>1. f[nth] \in Free(nth) /\ f[nth] \in Nat
      BY <1>1, <2>4, PlacementIsFree, PlacementType
    <3>2. i <= f[nth]
      BY <1>4, <3>1
    <3>3. Agrees(nth)
      BY <1>1, <2>2, <2>4
    <3>4. CASE f[nth] = i
      <4>1. Agrees(nth + 1)
        <5>1. \A m \in 1 .. nth : m \in 1 .. nth - 1 \/ m = nth
          BY <1>1
        <5>2. f[nth] = state'[nth]
          BY <1>6, <3>4
        <5>3. (nth + 1) - 1 = nth
          BY <1>1
        <5> QED
          BY <3>3, <5>1, <5>2, <5>3
      <4>2. ASSUME nth + 1 \in DOMAIN meetings
            PROVE  f[nth + 1] >= state'[nth + 1]
        <5>1. nth + 1 \in 1 .. len /\ nth + 1 > nth /\ nth + 1 # nth
          BY <1>1, <4>2
        <5>2. state'[nth + 1] = 0
          BY <1>0, <1>6, <5>1
        <5>3. f[nth + 1] \in 0 .. Len(meetings[nth + 1].windows) - 1
          BY <1>1, <4>2, PlacementType
        <5> QED
          BY <1>1, <4>2, <5>2, <5>3, MeetingType
      <4>3. nth' = nth + 1 /\ nth' > 0 /\ meetings' = meetings
        BY <1>1, <1>3
      <4> QED
        BY <4>1, <4>2, <4>3 DEF Untried, AgreesBefore
    <3>5. CASE f[nth] > i
      <4>1. nth \in 1 .. nth /\ f[nth] > state'[nth]
        BY <1>1, <1>6, <3>5
      <4> QED
        BY <2>3, <3>3, <4>1
    <3> QED
      BY <1>4, <3>1, <3>2, <3>4, <3>5
  <2>5. CASE \E n \in 1 .. nth - 1 : AgreesBefore(f, n) /\ f[n] > state[n]
    <3>1. PICK n \in 1 .. nth - 1 : AgreesBefore(f, n) /\ f[n] > state[n]
      BY <2>5
    <3>2. n \in 1 .. nth /\ n \in 1 .. len /\ n # nth
      BY <1>1, <3>1
    <3>3. Agrees(n) /\ f[n] > state'[n]
      BY <1>6, <2>2, <3>1, <3>2
    <3> QED
      BY <2>3, <3>2, <3>3
  <2> QED
    BY <1>1, <2>1, <2>4, <2>5 DEF Untried
<1> QED
  BY <1>9, <1>10, <1>11, <1>12 DEF IInv
-----------------------------------------------------------------------------
(* Taking the last meeting back.                                           *)

\* Removing by "Equal" takes out the last time given away and no other.
LEMMA WithoutLast ==
    ASSUME IInv, nth > 1
    PROVE  /\ Len(lastKey) = nth - 1
           /\ Without(lastKey[Len(lastKey)]) =
                 {[key |-> lastKey[n], id |-> meetings[n].id] : n \in 1 .. nth - 2}
<1>1. /\ nth \in Nat /\ Len(lastKey) = nth - 1 /\ DOMAIN lastKey = 1 .. nth - 1
      /\ solution = {[key |-> lastKey[n], id |-> meetings[n].id] : n \in 1 .. nth - 1}
      /\ \A m, n \in 1 .. nth - 1 : m < n => ~Overlap(lastKey[m], lastKey[n])
      /\ \A n \in 1 .. nth - 1 : lastKey[n] \in TimeRange
  <2>1. meetings \in Seq(Meeting) /\ nth \in Nat /\ lastKey \in Seq(TimeRange)
    BY DEF IInv, TypeOK
  <2>2. Len(lastKey) = nth - 1
    BY <2>1 DEF IInv, TreeMatchesStack
  <2>3. DOMAIN lastKey = 1 .. nth - 1
    BY <2>1, <2>2
  <2>4. TreeMatchesStack
    BY DEF IInv
  <2>5. solution = {[key |-> lastKey[n], id |-> meetings[n].id] : n \in 1 .. nth - 1}
    BY <2>3, <2>4, Zenon DEF TreeMatchesStack
  <2>6. \A m, n \in 1 .. nth - 1 : m < n => ~Overlap(lastKey[m], lastKey[n])
    BY <2>3, <2>4, Zenon DEF TreeMatchesStack
  <2>7. \A n \in 1 .. nth - 1 : lastKey[n] \in TimeRange
    BY <2>1, <2>3
  <2> QED
    BY <2>1, <2>2, <2>3, <2>5, <2>6, <2>7
<1> DEFINE last == lastKey[nth - 1]
           Given(n) == [key |-> lastKey[n], id |-> meetings[n].id]
<1>2. nth - 1 \in 1 .. nth - 1 /\ last \in TimeRange
  BY <1>1
<1>3. InternalCmp(last, last) = "Equal"
  BY <1>2, EqualIffOverlap DEF Overlap, TimeRange
<1>4. ASSUME NEW n \in 1 .. nth - 2
      PROVE  InternalCmp(last, lastKey[n]) # "Equal"
  <2>1. n \in 1 .. nth - 1 /\ n < nth - 1
    BY <1>1
  <2>2. ~Overlap(lastKey[n], last) /\ lastKey[n] \in TimeRange
    BY <1>1, <1>2, <2>1
  <2> QED
    BY <1>2, <2>2, EqualIffOverlap, OverlapSymmetric
<1>5. ASSUME NEW e \in Without(last)
      PROVE  e \in {Given(n) : n \in 1 .. nth - 2}
  <2>1. e \in solution /\ InternalCmp(last, e.key) # "Equal"
    BY DEF Without
  <2>2. PICK n \in 1 .. nth - 1 : e = Given(n)
    BY <1>1, <2>1
  <2>3. e.key = lastKey[n]
    BY <2>2
  <2>4. n # nth - 1
    BY <1>3, <2>1, <2>3
  <2>5. n \in 1 .. nth - 2
    BY <1>1, <2>4
  <2> QED
    BY <2>2, <2>5
<1>6. ASSUME NEW n \in 1 .. nth - 2
      PROVE  Given(n) \in Without(last)
  <2>1. n \in 1 .. nth - 1
    BY <1>1
  <2>2. Given(n) \in solution
    BY <1>1, <2>1
  <2>3. Given(n).key = lastKey[n]
    OBVIOUS
  <2>4. InternalCmp(last, Given(n).key) # "Equal"
    BY <1>4, <2>3
  <2> QED
    BY <2>2, <2>4 DEF Without
<1>7. Without(last) = {Given(n) : n \in 1 .. nth - 2}
  BY <1>5, <1>6
<1> QED
  BY <1>1, <1>7

\* So does backtracking: no placement is passed by.
LEMMA BacktrackInv ==
    ASSUME IInv, Backtrack
    PROVE  IInv'
<1>1. /\ meetings \in Seq(Meeting) /\ Len(meetings) \in Nat
      /\ nth \in 1 .. Len(meetings) /\ nth \in DOMAIN meetings
      /\ len \in Nat /\ Len(meetings) <= len
      /\ state \in [1 .. len -> Nat]
      /\ pc = "pass" /\ result.kind = "None" /\ countIter > 0
      /\ Free(nth) = {}
  <2>1. /\ pc = "pass" /\ nth <= Len(meetings) /\ Free(nth) = {}
    BY DEF Backtrack
  <2>2. TypeOK /\ nth > 0 /\ result.kind = "None" /\ countIter > 0
    BY <2>1 DEF IInv, Bookkeeping
  <2>3. /\ meetings \in Seq(Meeting) /\ len \in Nat /\ Len(meetings) <= len
        /\ nth \in 0 .. Len(meetings) + 1
        /\ state \in [1 .. len -> Nat]
    BY <2>2 DEF TypeOK
  <2>4. Len(meetings) \in Nat /\ DOMAIN meetings = 1 .. Len(meetings)
    BY <2>3
  <2>5. nth \in 1 .. Len(meetings)
    BY <2>1, <2>2, <2>3, <2>4
  <2> QED
    BY <2>1, <2>2, <2>3, <2>4, <2>5, Zenon
<1>2. /\ nth' = nth - 1
      /\ pc' = IF nth = 1 THEN "exhausted" ELSE "head"
      /\ UNCHANGED <<meetings, len, limit, countIter, result, shouldStop>>
  BY DEF Backtrack, input
<1>3. /\ state' \in [1 .. len -> Nat]
      /\ state'[nth] = 0
      /\ nth > 1 => state'[nth - 1] = state[nth - 1] + 1
      /\ \A n \in 1 .. len : n # nth /\ n # nth - 1 => state'[n] = state[n]
  <2>1. state' = Rewound
    BY DEF Backtrack
  <2>2. nth \in 1 .. len /\ (nth > 1 => nth - 1 \in 1 .. len)
    BY <1>1
  <2> QED
    BY <1>1, <2>1, <2>2 DEF Rewound
<1>4. /\ lastKey \in Seq(TimeRange) /\ Len(lastKey) = nth - 1
      /\ DOMAIN lastKey = 1 .. nth - 1
  BY <1>1 DEF IInv, TypeOK, TreeMatchesStack
<1>5. /\ lastKey' \in Seq(TimeRange)
      /\ DOMAIN lastKey' = 1 .. nth - 2
      /\ nth > 1 => Len(lastKey') = nth - 2
      /\ nth = 1 => lastKey' = <<>>
      /\ \A n \in 1 .. nth - 2 : lastKey'[n] = lastKey[n]
      /\ solution' = {[key |-> lastKey[n], id |-> meetings[n].id] : n \in 1 .. nth - 2}
  <2>1. CASE nth = 1
    <3>1. lastKey = <<>>
      BY <1>4, <2>1
    <3>2. lastKey' = lastKey /\ solution' = solution
      BY <3>1 DEF Backtrack
    <3>3. solution = {[key |-> lastKey[n], id |-> meetings[n].id] : n \in 1 .. nth - 1}
      BY <1>4 DEF IInv, TreeMatchesStack
    <3>4. 1 .. nth - 1 = {} /\ 1 .. nth - 2 = {}
      BY <2>1
    <3>5. solution' = {[key |-> lastKey[n], id |-> meetings[n].id] : n \in 1 .. nth - 2}
      BY <3>2, <3>3, <3>4
    <3> QED
      BY <1>4, <2>1, <3>1, <3>2, <3>4, <3>5
  <2>2. CASE nth > 1
    <3>1. lastKey # <<>>
      <4>1. Len(lastKey) > 0
        BY <1>1, <1>4, <2>2
      <4> QED
        BY <1>4, <4>1, EmptySeq
    <3>2. /\ lastKey' = SubSeq(lastKey, 1, nth - 2)
          /\ solution' = Without(lastKey[Len(lastKey)])
      <4>1. /\ lastKey' = SubSeq(lastKey, 1, Len(lastKey) - 1)
            /\ solution' = Without(lastKey[Len(lastKey)])
        BY <3>1 DEF Backtrack
      <4>2. Len(lastKey) - 1 = nth - 2
        BY <1>1, <1>4
      <4> QED
        BY <4>1, <4>2
    <3>3. solution' = {[key |-> lastKey[n], id |-> meetings[n].id] : n \in 1 .. nth - 2}
      BY <2>2, <3>2, WithoutLast
    <3>4. nth - 2 \in 0 .. Len(lastKey)
      BY <1>1, <1>4, <2>2
    <3>5. /\ lastKey' \in Seq(TimeRange)
          /\ Len(lastKey') = nth - 2
          /\ \A n \in 1 .. nth - 2 : lastKey'[n] = lastKey[n]
      <4>1. \A n \in 1 .. nth - 2 : lastKey[n] \in TimeRange
        BY <1>1, <1>4
      <4> HIDE <3>2
      <4>2. /\ SubSeq(lastKey, 1, nth - 2) \in Seq(TimeRange)
            /\ Len(SubSeq(lastKey, 1, nth - 2)) = nth - 2
            /\ \A n \in 1 .. nth - 2 : SubSeq(lastKey, 1, nth - 2)[n] = lastKey[n]
        BY <1>1, <2>2, <4>1, SubSeqProperties
      <4> QED
        BY <3>2, <4>2
    <3>6. DOMAIN lastKey' = 1 .. nth - 2
      BY <3>5
    <3> QED
      BY <2>2, <3>3, <3>5, <3>6
  <2>3. nth = 1 \/ nth > 1
    BY <1>1
  <2> QED
    BY <2>1, <2>2, <2>3, Zenon
<1>6. TypeOK'
  <2>1. solution' \subseteq Entry
    <3>1. \A n \in 1 .. nth - 2 : lastKey[n] \in TimeRange /\ meetings[n].id \in Ids
      <4>1. ASSUME NEW n \in 1 .. nth - 2
            PROVE  n \in DOMAIN meetings /\ n \in DOMAIN lastKey
        <5>1. n \in 1 .. nth - 1 /\ n \in 1 .. Len(meetings)
          BY <1>1
        <5>2. DOMAIN meetings = 1 .. Len(meetings)
          BY <1>1
        <5> QED
          BY <1>4, <5>1, <5>2, Zenon
      <4>2. \A n \in DOMAIN meetings : meetings[n].id \in Ids
        BY <1>1, MeetingType
      <4>3. \A n \in DOMAIN lastKey : lastKey[n] \in TimeRange
        BY <1>4
      <4> QED
        BY <4>1, <4>2, <4>3, Zenon
    <3> QED
      BY <1>5, <3>1 DEF Entry
  <2>2. result' \in Outcome'
    BY <1>2 DEF IInv, TypeOK, Outcome
  <2>3. nth' \in 0 .. Len(meetings') + 1
    BY <1>1, <1>2
  <2>4. pc' \in {"head", "looked", "pass", "exhausted", "done"}
    BY <1>2
  <2> QED
    BY <1>1, <1>2, <1>3, <1>5, <2>1, <2>2, <2>3, <2>4 DEF IInv, TypeOK
<1>7. TreeMatchesStack'
  <2>1. nth' > 0 => Len(lastKey') = nth' - 1
    <3>1. nth \in Nat /\ nth >= 1 /\ nth' = nth - 1
      BY <1>1, <1>2
    <3>2. nth' > 0 => nth > 1 /\ nth' - 1 = nth - 2
      BY <3>1
    <3> QED
      BY <1>5, <3>2, Zenon
  <2>2. solution' = {[key |-> lastKey'[n], id |-> meetings'[n].id] : n \in DOMAIN lastKey'}
    BY <1>2, <1>5
  <2>3. \A m, n \in DOMAIN lastKey' : m < n => ~Overlap(lastKey'[m], lastKey'[n])
    <3>1. \A n \in 1 .. nth - 2 : n \in DOMAIN lastKey
      BY <1>1, <1>4
    <3> QED
      BY <1>5, <3>1 DEF IInv, TreeMatchesStack
  <2> QED
    BY <2>1, <2>2, <2>3 DEF TreeMatchesStack
<1>8. Bookkeeping'
  <2>1. ASSUME NEW n \in 1 .. len, n > nth - 1 \/ n > Len(meetings)
        PROVE  state'[n] = 0
    <3>1. CASE n = nth
      BY <1>3, <3>1
    <3>2. CASE n > nth
      <4>1. state[n] = 0
        BY <3>2 DEF IInv, Bookkeeping
      <4> QED
        BY <1>1, <1>3, <3>2, <4>1
    <3> QED
      BY <1>1, <2>1, <3>1, <3>2
  <2>2. ASSUME NEW n \in 1 .. nth - 2
        PROVE  /\ n \in DOMAIN meetings'
               /\ n \in DOMAIN lastKey'
               /\ state'[n] < Len(meetings'[n].windows)
               /\ lastKey'[n] = Window(meetings', n, state'[n])
    <3>1. n \in 1 .. nth - 1 /\ n \in 1 .. len /\ n # nth /\ n # nth - 1
      <4>1. nth \in Nat /\ len \in Nat /\ Len(meetings) \in Nat
        BY <1>1
      <4>2. nth <= Len(meetings) /\ Len(meetings) <= len
        BY <1>1
      <4> QED
        BY <4>1, <4>2, SMT
    <3>2. /\ n \in DOMAIN meetings
          /\ state[n] < Len(meetings[n].windows)
          /\ lastKey[n] = Window(meetings, n, state[n])
      BY <3>1 DEF IInv, Bookkeeping
    <3>3. state'[n] = state[n] /\ meetings' = meetings /\ lastKey'[n] = lastKey[n]
      BY <1>2, <1>3, <1>5, <3>1
    <3> QED
      BY <1>5, <3>2, <3>3
  <2>3. nth' - 1 = nth - 2 /\ len' = len
    BY <1>1, <1>2
  <2>4. nth' = 0 => lastKey' = <<>>
    BY <1>1, <1>2, <1>5
  <2>5. /\ pc' \in {"head", "looked", "pass"} => nth' > 0
        /\ pc' = "exhausted" => nth' = 0
        /\ countIter' > 0 /\ pc' # "done" /\ result'.kind = "None"
    BY <1>1, <1>2
  <2>6. \A n \in 1 .. len' : n > nth' \/ n > Len(meetings') => state'[n] = 0
    BY <1>2, <2>1
  <2>7. \A n \in 1 .. nth' - 1 :
           /\ n \in DOMAIN meetings'
           /\ n \in DOMAIN lastKey'
           /\ state'[n] < Len(meetings'[n].windows)
           /\ lastKey'[n] = Window(meetings', n, state'[n])
    BY <2>2, <2>3
  <2> QED
    BY <2>4, <2>5, <2>6, <2>7 DEF Bookkeeping
<1>9. NoPlacementPassedBy'
  <2> SUFFICES ASSUME NEW f \in Placements(meetings) PROVE Untried(f)'
    BY <1>2 DEF NoPlacementPassedBy
  <2>1. Untried(f)
    BY <1>1 DEF IInv, NoPlacementPassedBy
  <2>2. ~(AgreesBefore(f, nth) /\ f[nth] >= state[nth])
    BY <1>1, PlacementIsFree
  <2>3. PICK n \in 1 .. nth - 1 : AgreesBefore(f, n) /\ f[n] > state[n]
    BY <1>1, <2>1, <2>2 DEF Untried
  <2>4. \A m \in 1 .. n - 1 : f[m] = state'[m]
    <3>1. \A m \in 1 .. n - 1 : m \in 1 .. len /\ m # nth /\ m # nth - 1
      BY <1>1, <2>3
    <3> QED
      BY <1>3, <2>3, <3>1 DEF AgreesBefore
  <2>5. nth > 1 /\ nth' > 0 /\ nth' = nth - 1
    BY <1>1, <1>2, <2>3
  <2>6. CASE n = nth - 1
    <3>1. n \in DOMAIN meetings /\ state[n] \in Nat
      BY <1>1, <2>3
    <3>2. f[n] \in Nat
      BY <1>1, <3>1, PlacementType
    <3>3. f[n] >= state'[n]
      BY <1>3, <2>3, <2>5, <2>6, <3>1, <3>2
    <3> QED
      BY <2>4, <2>5, <2>6, <3>3 DEF Untried, AgreesBefore
  <2>7. CASE n < nth - 1
    <3>1. n \in 1 .. nth' - 1 /\ n \in 1 .. len /\ n # nth /\ n # nth - 1
      BY <1>1, <2>3, <2>5, <2>7
    <3>2. f[n] > state'[n]
      BY <1>3, <2>3, <3>1
    <3> QED
      BY <2>4, <2>5, <3>1, <3>2 DEF Untried, AgreesBefore
  <2> QED
    BY <1>1, <2>3, <2>6, <2>7
<1> QED
  BY <1>6, <1>7, <1>8, <1>9 DEF IInv
-----------------------------------------------------------------------------
(* The steps that only move the control state or return.                   *)

\* So do the steps that only start a pass or return.
LEMMA ControlInv ==
    ASSUME IInv,
           ObserveStop \/ PassFlag \/ GiveUp \/ BeginPass \/ ReportOk \/ ReportNoSolution
              \/ OtherSearchDecides
    PROVE  IInv'
<1>1. UNCHANGED <<meetings, len, limit, nth, state, solution, lastKey>>
  BY DEF ObserveStop, PassFlag, GiveUp, BeginPass, ReportOk, ReportNoSolution, OtherSearchDecides, input
<1>2. TreeMatchesStack' /\ NoPlacementPassedBy'
  BY <1>1, PositionFrame DEF IInv
<1>3. /\ countIter \in Nat /\ result \in Outcome /\ shouldStop \in BOOLEAN
      /\ limit \in Limits /\ state \in [1 .. len -> Nat] /\ solution \subseteq Entry
      /\ pc \in {"head", "looked", "pass", "exhausted", "done"}
      /\ nth \in 0 .. Len(meetings) + 1 /\ meetings \in Seq(Meeting)
  BY DEF IInv, TypeOK
<1>4. Outcome' = Outcome
  BY <1>1 DEF Outcome
<1>5. /\ countIter' \in Nat /\ shouldStop' \in BOOLEAN /\ result' \in Outcome
      /\ pc' \in {"head", "looked", "pass", "exhausted", "done"}
      /\ pc' \in {"pass", "exhausted"} => countIter' > 0
      /\ pc' # "done" <=> result'.kind = "None"
      /\ pc' \in {"head", "looked", "pass"} => nth > 0
      /\ pc' = "exhausted" => nth = 0
      /\ result'.kind = "Ok" => /\ nth = Len(meetings) + 1
                               /\ result'.results = solution
                               /\ result'.indices = state
  <2>0. /\ pc \in {"head", "looked", "pass"} => nth > 0
        /\ pc = "exhausted" => nth = 0
        /\ pc \in {"pass", "exhausted"} => countIter > 0
        /\ pc # "done" <=> result.kind = "None"
        /\ result.kind = "Ok" => /\ nth = Len(meetings) + 1
                                /\ result.results = solution
                                /\ result.indices = state
    BY DEF IInv, Bookkeeping
  <2>1. CASE ObserveStop
    BY <1>3, <2>0, <2>1 DEF ObserveStop, Outcome
  <2>2. CASE GiveUp
    <3>1. result' \in Outcome
      BY <1>3, <2>2 DEF GiveUp, Outcome
    <3> QED
      BY <1>3, <2>0, <2>2, <3>1 DEF GiveUp
  <2>3. CASE BeginPass
    BY <1>3, <2>0, <2>3 DEF BeginPass
  <2>4. CASE ReportOk
    <3>1. result' = [kind |-> "Ok", count |-> countIter, results |-> solution,
                     indices |-> state]
      BY <2>4 DEF ReportOk
    <3>2. result' \in Outcome
      BY <1>3, <3>1 DEF Outcome
    <3>3. nth = Len(meetings) + 1 /\ countIter' = countIter /\ pc' = "done"
      BY <1>3, <2>4 DEF ReportOk
    <3>4. shouldStop' \in BOOLEAN
      BY <1>3, <2>4, ParallelAssumption DEF ReportOk
    <3> QED
      BY <1>3, <3>1, <3>2, <3>3, <3>4
  <2>5. CASE ReportNoSolution
    <3>1. shouldStop' \in BOOLEAN
      BY <1>3, <2>5, ParallelAssumption DEF ReportNoSolution
    <3>2. result' \in Outcome
      BY <2>5 DEF ReportNoSolution, Outcome
    <3> QED
      BY <1>3, <2>0, <2>5, <3>1, <3>2 DEF ReportNoSolution
  <2>6. CASE OtherSearchDecides
    BY <1>3, <2>0, <2>6 DEF OtherSearchDecides
  <2>7. CASE PassFlag
    BY <1>3, <2>0, <2>7 DEF PassFlag
  <2> QED
    BY <2>1, <2>2, <2>3, <2>4, <2>5, <2>6, <2>7
<1>6. TypeOK'
  BY <1>1, <1>4, <1>5 DEF IInv, TypeOK
<1>7. Bookkeeping'
  BY <1>1, <1>5 DEF IInv, Bookkeeping
<1> QED
  BY <1>2, <1>6, <1>7 DEF IInv

\* Every step preserves the invariant.
LEMMA NextInv == IInv /\ [Next]_vars => IInv'
<1> SUFFICES ASSUME IInv, [Next]_vars PROVE IInv'
  OBVIOUS
<1>1. CASE Place
  BY <1>1, PlaceInv
<1>2. CASE Backtrack
  BY <1>2, BacktrackInv
<1>3. CASE ObserveStop \/ PassFlag \/ GiveUp \/ BeginPass \/ ReportOk \/ ReportNoSolution
              \/ OtherSearchDecides
  BY <1>3, ControlInv
<1>4. CASE UNCHANGED vars
  <2>1. UNCHANGED <<meetings, len, limit, nth, countIter, state, solution, lastKey,
                    pc, result, shouldStop>>
    BY <1>4 DEF vars
  <2>2. TreeMatchesStack' /\ NoPlacementPassedBy'
    BY <2>1, PositionFrame DEF IInv
  <2>3. TypeOK' /\ Bookkeeping'
    BY <2>1 DEF IInv, TypeOK, Outcome, Bookkeeping
  <2> QED
    BY <2>2, <2>3 DEF IInv
<1> QED
  BY <1>1, <1>2, <1>3, <1>4 DEF Next, Step

\* The invariant holds in every state of every search.
THEOREM InductiveInvariant == Spec => []IInv
<1>1. Init => IInv
  BY InitInv
<1>2. IInv /\ [Next]_vars => IInv'
  BY NextInv
<1> QED
  BY <1>1, <1>2, PTL DEF Spec

\* Every variable of the search keeps its type.
THEOREM TypeCorrect == Spec => []TypeOK
<1>1. IInv => TypeOK
  BY DEF IInv
<1> QED
  BY <1>1, InductiveInvariant, PTL

\* The solution tree never holds two overlapping times, and always holds the
\* times on the stack: a backtrack frees the last meeting's time and no other.
THEOREM TreeIsConsistent == Spec => []TreeMatchesStack
<1>1. IInv => TreeMatchesStack
  BY DEF IInv
<1> QED
  BY <1>1, InductiveInvariant, PTL

\* No conflict-free placement is passed by.
THEOREM SearchIsComplete == Spec => []NoPlacementPassedBy
<1>1. IInv => NoPlacementPassedBy
  BY DEF IInv
<1> QED
  BY <1>1, InductiveInvariant, PTL
-----------------------------------------------------------------------------
(* What an answer is worth.                                                *)

\* When every meeting has a time, the indices are a placement and the tree is
\* its timetable.
LEMMA CompletePlacement ==
    ASSUME IInv, nth = Len(meetings) + 1
    PROVE  LET f == [n \in DOMAIN meetings |-> state[n]]
           IN  f \in Placements(meetings) /\ solution = Timetable(meetings, f)
<1> DEFINE f == [n \in DOMAIN meetings |-> state[n]]
<1>1. /\ meetings \in Seq(Meeting) /\ Len(meetings) \in Nat
      /\ DOMAIN meetings = 1 .. Len(meetings)
      /\ len \in Nat /\ Len(meetings) <= len
      /\ state \in [1 .. len -> Nat]
  BY DEF IInv, TypeOK
<1>2. DOMAIN lastKey = DOMAIN meetings
  <2>1. Len(lastKey) = Len(meetings) /\ lastKey \in Seq(TimeRange)
    BY <1>1 DEF IInv, TypeOK, TreeMatchesStack
  <2> QED
    BY <1>1, <2>1
<1>3. \A n \in DOMAIN meetings :
         /\ f[n] \in Nat /\ f[n] < Len(meetings[n].windows)
         /\ lastKey[n] = Window(meetings, n, f[n])
  <2>1. \A n \in DOMAIN meetings : n \in 1 .. nth - 1 /\ n \in 1 .. len
    BY <1>1
  <2> QED
    BY <1>1, <2>1 DEF IInv, Bookkeeping
<1>4. \A m, n \in DOMAIN meetings :
         m < n => ~Overlap(Window(meetings, m, f[m]), Window(meetings, n, f[n]))
  BY <1>2, <1>3 DEF IInv, TreeMatchesStack
<1>5. \A n \in DOMAIN meetings : f[n] \in 0 .. Len(meetings[n].windows) - 1
  <2>1. \A n \in DOMAIN meetings : Len(meetings[n].windows) \in Nat
    BY <1>1, MeetingType
  <2> QED
    BY <1>3, <2>1
<1>6. f \in Placements(meetings)
  <2>1. f = [n \in DOMAIN meetings |-> f[n]]
    OBVIOUS
  <2> HIDE DEF f
  <2> QED
    BY <1>1, <1>4, <1>5, <2>1, PlacementIntro
<1>7. solution = Timetable(meetings, f)
  <2>1. solution = {[key |-> lastKey[n], id |-> meetings[n].id] : n \in DOMAIN meetings}
    BY <1>2 DEF IInv, TreeMatchesStack
  <2> QED
    BY <1>3, <2>1 DEF Timetable
<1> QED
  BY <1>6, <1>7

\* The answer Ok is the first conflict-free timetable in search order.
THEOREM AnswerIsFirstFit == Spec => []FirstFit
<1>1. IInv => FirstFit
  <2> SUFFICES ASSUME IInv, result.kind = "Ok" PROVE FirstFit
    BY DEF FirstFit
  <2>1. /\ nth = Len(meetings) + 1 /\ result.results = solution
        /\ result.indices = state
        /\ \A n \in 1 .. len : n > nth \/ n > Len(meetings) => state[n] = 0
    BY DEF IInv, Bookkeeping
  <2>2. /\ meetings \in Seq(Meeting) /\ Len(meetings) \in Nat
        /\ DOMAIN meetings = 1 .. Len(meetings)
        /\ len \in Nat /\ Len(meetings) <= len
        /\ state \in [1 .. len -> Nat]
    BY DEF IInv, TypeOK
  <2>3. Chosen = [n \in DOMAIN meetings |-> state[n]]
    BY <2>1 DEF Chosen
  <2>4. Chosen \in Placements(meetings) /\ result.results = Timetable(meetings, Chosen)
    BY <2>1, <2>3, CompletePlacement
  <2>5. ASSUME NEW g \in Placements(meetings), TriedBefore(g, Chosen)
        PROVE  FALSE
    <3>1. DOMAIN g = DOMAIN meetings /\ \A n \in DOMAIN meetings : g[n] \in Nat
      <4>1. DOMAIN g = DOMAIN meetings
        BY DEF Placements
      <4>2. \A n \in DOMAIN meetings : g[n] \in 0 .. Len(meetings[n].windows) - 1
        BY <2>2, PlacementType
      <4> QED
        BY <4>1, <4>2
    <3>2. PICK n \in DOMAIN meetings :
             (\A m \in 1 .. n - 1 : g[m] = state[m]) /\ g[n] < state[n]
      <4>1. PICK n \in DOMAIN meetings :
               (\A m \in 1 .. n - 1 : g[m] = Chosen[m]) /\ g[n] < Chosen[n]
        BY <2>3, <2>5 DEF TriedBefore
      <4>2. \A m \in 1 .. n : m \in DOMAIN meetings
        BY <2>2
      <4>3. n \in 1 .. n
        BY <2>2
      <4> QED
        BY <2>3, <4>1, <4>2, <4>3
    <3>3. Untried(g)
      BY DEF IInv, NoPlacementPassedBy
    <3>4. n \in 1 .. nth - 1 /\ state[n] \in Nat
      BY <2>1, <2>2
    <3>5. CASE AgreesBefore(g, nth)
      BY <3>1, <3>2, <3>4, <3>5 DEF AgreesBefore
    <3>6. CASE \E k \in 1 .. nth - 1 : AgreesBefore(g, k) /\ g[k] > state[k]
      <4>1. PICK k \in 1 .. nth - 1 : AgreesBefore(g, k) /\ g[k] > state[k]
        BY <3>6
      <4>2. k \in DOMAIN meetings /\ k \in 1 .. len
        BY <2>1, <2>2
      <4>3. g[k] \in Nat /\ state[k] \in Nat /\ g[n] \in Nat
        BY <2>2, <3>1, <4>2
      <4>4. CASE k < n
        <5>1. k \in 1 .. n - 1
          BY <2>2, <4>4
        <5>2. g[k] = state[k]
          BY <3>2, <5>1
        <5> QED
          BY <4>1, <4>3, <5>2
      <4>5. CASE k = n
        BY <3>2, <3>4, <4>1, <4>3, <4>5
      <4>6. CASE n < k
        <5>1. n \in 1 .. k - 1
          BY <2>2, <3>4, <4>6
        <5>2. g[n] = state[n]
          BY <4>1, <5>1 DEF AgreesBefore
        <5> QED
          BY <3>2, <3>4, <4>3, <5>2
      <4> QED
        BY <2>2, <4>2, <4>4, <4>5, <4>6
    <3> QED
      BY <3>3, <3>5, <3>6 DEF Untried
  <2>6. \A n \in Len(meetings) + 1 .. len : result.indices[n] = 0
    BY <2>1, <2>2
  <2> QED
    BY <2>4, <2>5, <2>6 DEF FirstFit
<1> QED
  BY <1>1, InductiveInvariant, PTL

\* The search only moves forward through the placements.
THEOREM NeverLooksTwice == Spec => SearchAdvances
<1> DEFINE bound == IF nth > len THEN len ELSE nth
           Forward == nth' > 0 =>
              \/ TriedBefore(Frontier, Frontier')
              \/ \A n \in DOMAIN Frontier : n \in DOMAIN Frontier' /\ Frontier'[n] = Frontier[n]
<1>1. ASSUME IInv, [Next]_vars
      PROVE  [Forward]_vars
  <2>1. /\ meetings \in Seq(Meeting) /\ Len(meetings) \in Nat
        /\ nth \in 0 .. Len(meetings) + 1
        /\ len \in Nat /\ Len(meetings) <= len
        /\ state \in [1 .. len -> Nat]
    BY <1>1 DEF IInv, TypeOK
  <2>2. DOMAIN Frontier = 1 .. bound /\ \A n \in 1 .. bound : Frontier[n] = state[n]
    BY DEF Frontier
  <2>3. CASE Place
    <3>1. PICK i \in FirstFree(nth) : state' = [state EXCEPT ![nth] = i]
      BY <2>3 DEF Place
    <3>2. /\ nth' = nth + 1 /\ len' = len /\ nth <= Len(meetings) /\ nth > 0
      BY <1>1, <2>3 DEF Place, input, IInv, Bookkeeping
    <3>3. i \in Nat /\ i >= state[nth]
      <4>1. state[nth] \in Nat /\ Len(meetings[nth].windows) \in Nat
        BY <2>1, <3>2, MeetingType
      <4> QED
        BY <4>1 DEF FirstFree, Free
    <3>4. DOMAIN Frontier = 1 .. nth /\ 1 .. nth \subseteq 1 .. len
      BY <2>1, <2>2, <3>2
    <3>5. /\ 1 .. nth \subseteq DOMAIN Frontier'
          /\ \A n \in 1 .. nth : Frontier'[n] = state'[n]
      BY <2>1, <3>2 DEF Frontier
    <3>6. \A n \in 1 .. nth - 1 : Frontier'[n] = Frontier[n]
      <4>1. \A n \in 1 .. nth - 1 : n \in 1 .. nth /\ n \in 1 .. bound /\ n # nth /\ n \in 1 .. len
        BY <2>1, <3>2
      <4> QED
        BY <2>1, <2>2, <3>1, <3>5, <4>1
    <3>7. Frontier[nth] = state[nth] /\ Frontier'[nth] = i
      BY <2>1, <2>2, <3>1, <3>2, <3>3, <3>4, <3>5
    <3>8. CASE i = state[nth]
      BY <2>1, <3>4, <3>5, <3>6, <3>7, <3>8
    <3>9. CASE i > state[nth]
      <4>1. nth \in DOMAIN Frontier \cap DOMAIN Frontier'
        BY <2>1, <3>2, <3>4, <3>5
      <4>2. Frontier[nth] < Frontier'[nth]
        BY <3>7, <3>9, <3>3, <2>1, <3>2
      <4> QED
        BY <3>6, <4>1, <4>2 DEF TriedBefore
    <3> QED
      BY <2>1, <3>2, <3>3, <3>8, <3>9
  <2>4. CASE Backtrack
    <3> SUFFICES ASSUME nth' > 0 PROVE TriedBefore(Frontier, Frontier')
      OBVIOUS
    <3>1. /\ nth' = nth - 1 /\ len' = len /\ nth <= Len(meetings) /\ state' = Rewound
      BY <2>4 DEF Backtrack, input
    <3>2. nth > 1 /\ nth - 1 \in 1 .. len
      BY <2>1, <3>1
    <3>3. /\ DOMAIN Frontier' = 1 .. nth - 1
          /\ \A n \in 1 .. nth - 1 : Frontier'[n] = state'[n]
      BY <2>1, <3>1, <3>2 DEF Frontier
    <3>4. DOMAIN Frontier = 1 .. nth
      BY <2>1, <2>2, <3>1
    <3>5. state'[nth - 1] = state[nth - 1] + 1
      BY <2>1, <3>1, <3>2 DEF Rewound
    <3>6. \A n \in 1 .. nth - 2 : Frontier[n] = Frontier'[n]
      <4>1. ASSUME NEW n \in 1 .. nth - 2
            PROVE  n \in 1 .. len /\ n # nth /\ n # nth - 1 /\ n \in 1 .. nth - 1 /\ n \in 1 .. bound
        BY <2>1, <3>1, <3>2
      <4> QED
        BY <2>1, <2>2, <3>1, <3>3, <4>1 DEF Rewound
    <3>7. Frontier[nth - 1] = state[nth - 1] /\ Frontier'[nth - 1] = state[nth - 1] + 1
      BY <2>1, <2>2, <3>1, <3>2, <3>3, <3>5
    <3>8. nth - 1 \in DOMAIN Frontier \cap DOMAIN Frontier'
      BY <2>1, <3>2, <3>3, <3>4
    <3>9. Frontier[nth - 1] < Frontier'[nth - 1]
      BY <2>1, <3>2, <3>7
    <3>10. \A m \in 1 .. nth - 1 - 1 : Frontier[m] = Frontier'[m]
      BY <2>1, <3>6
    <3> QED
      BY <3>8, <3>9, <3>10 DEF TriedBefore
  <2>5. CASE ObserveStop \/ PassFlag \/ GiveUp \/ BeginPass \/ ReportOk \/ ReportNoSolution
                \/ OtherSearchDecides
    <3>1. UNCHANGED <<nth, len, state>>
      BY <2>5 DEF ObserveStop, PassFlag, GiveUp, BeginPass, ReportOk, ReportNoSolution,
                  OtherSearchDecides, input
    <3>2. Frontier' = Frontier
      BY <3>1 DEF Frontier
    <3> QED
      BY <3>2
  <2> QED
    BY <1>1, <2>3, <2>4, <2>5 DEF Next, Step
<1>2. IInv /\ [Next]_vars => [Forward]_vars
  BY <1>1
<1>3. Spec => [][Next]_vars
  BY DEF Spec
<1>4. Spec => [][Forward]_vars
  BY <1>2, <1>3, InductiveInvariant, PTL
<1> QED
  BY <1>4 DEF SearchAdvances
-----------------------------------------------------------------------------
(* The search keeps its contract.                                          *)

\* A search starts as its contract says.
LEMMA ContractInit == Init => Contract!Init
BY DEF Init, Begin, Contract!Init, Reported, NoOutcome, Contract!NoOutcome

\* Every step of the search is a step of the contract or changes nothing that
\* the contract speaks of.
LEMMA ContractStep ==
    ASSUME IInv, [Next]_vars
    PROVE  [Contract!Next]_(Contract!vars)
<1>1. UNCHANGED <<meetings, limit>>
  BY DEF Next, Step, vars, input, ObserveStop, PassFlag, GiveUp, BeginPass, Place, Backtrack,
         ReportOk, ReportNoSolution, OtherSearchDecides
<1>2. /\ pc # "done" <=> result.kind = "None"
      /\ pc \in {"pass", "exhausted"} => countIter > 0
      /\ pc = "exhausted" => nth = 0
  BY DEF IInv, Bookkeeping
<1>3. /\ result \in Outcome /\ meetings \in Seq(Meeting) /\ Len(meetings) \in Nat
      /\ nth \in 0 .. Len(meetings) + 1 /\ shouldStop \in BOOLEAN
  BY DEF IInv, TypeOK
<1>4. pc # "done" => result = NoOutcome
  BY <1>2, <1>3 DEF Outcome, NoOutcome
<1>5. pc # "done" => Reported = NoOutcome /\ Contract!Running
  BY <1>4 DEF Reported, NoOutcome, Contract!Running, Contract!NoOutcome
<1>6. result' = result => Reported' = Reported
  BY DEF Reported
<1>7. CASE ObserveStop
  <2>1. Reported' = [kind |-> "Interrupted"]
    BY <1>7 DEF ObserveStop, Reported
  <2>2. Contract!Stop
    BY <1>1, <1>5, <1>7, <2>1 DEF ObserveStop, Contract!Stop, Contract!Interrupted
  <2> QED
    BY <2>2 DEF Contract!Next
<1>8. CASE PassFlag
  <2>1. Contract!Look
    BY <1>1, <1>5, <1>6, <1>8 DEF PassFlag, Contract!Look
  <2> QED
    BY <2>1 DEF Contract!Next
<1>9. CASE GiveUp
  <2>1. Reported' = [kind |-> "NoSolutionWithinIteration", limit |-> limit]
    BY <1>9 DEF GiveUp, Reported
  <2>2. Contract!GiveUp
    BY <1>1, <1>5, <1>9, <2>1 DEF GiveUp, Contract!GiveUp, Contract!WithinIteration
  <2> QED
    BY <2>2 DEF Contract!Next
<1>10. CASE BeginPass
  <2>1. Contract!Check
    BY <1>1, <1>5, <1>6, <1>10 DEF BeginPass, Contract!Check
  <2> QED
    BY <2>1 DEF Contract!Next
<1>11. CASE Place \/ Backtrack
  <2>1. /\ UNCHANGED <<countIter, result, shouldStop>>
        /\ pc # "looked" /\ pc' # "looked"
    BY <1>11 DEF Place, Backtrack
  <2> QED
    BY <1>1, <1>6, <2>1 DEF Contract!vars
<1>12. CASE ReportOk
  <2>1. nth = Len(meetings) + 1 /\ pc = "pass"
    BY <1>3, <1>12 DEF ReportOk
  <2>2. Reported' = [kind |-> "Ok", count |-> countIter, results |-> solution]
    <3>1. result' = [kind |-> "Ok", count |-> countIter, results |-> solution,
                     indices |-> state]
      BY <1>12 DEF ReportOk
    <3> QED
      BY <3>1 DEF Reported
  <2>3. PICK f \in Placements(meetings) : solution = Timetable(meetings, f)
    BY <2>1, CompletePlacement
  <2>4. \E g \in Placements(meetings) :
           Reported' = [kind |-> "Ok", count |-> countIter,
                        results |-> Timetable(meetings, g)]
    BY <2>2, <2>3
  <2>5. Reported'.kind = "Ok"
    BY <2>2
  <2>6. /\ shouldStop' = (Parallel \/ shouldStop) /\ UNCHANGED countIter
        /\ Contract!Running /\ countIter > 0
        /\ pc # "looked" /\ pc' # "looked"
    BY <1>2, <1>5, <1>12, <2>1 DEF ReportOk
  <2>7. Contract!Find
    BY <1>1, <2>4, <2>5, <2>6 DEF Contract!Find, Contract!Placements, Contract!Timetable,
       Placements, Timetable, Contract!WindowIndices, WindowIndices, Contract!Window, Window,
       Contract!Overlap, Overlap
  <2> QED
    BY <2>7 DEF Contract!Next
<1>13. CASE ReportNoSolution
  <2>1. pc = "exhausted" /\ nth = 0
    BY <1>2, <1>13 DEF ReportNoSolution
  <2>2. Placements(meetings) = {}
    BY <2>1 DEF IInv, NoPlacementPassedBy, Untried
  <2>3. Reported' = [kind |-> "NoSolution"]
    BY <1>13 DEF ReportNoSolution, Reported
  <2>4. /\ shouldStop' = (Parallel \/ shouldStop) /\ UNCHANGED countIter
        /\ Contract!Running /\ countIter > 0
        /\ pc # "looked" /\ pc' # "looked"
    BY <1>2, <1>5, <1>13, <2>1 DEF ReportNoSolution
  <2>5. ~Contract!Solvable(meetings)
    BY <2>2 DEF Contract!Solvable, Contract!Placements,
       Placements, Contract!WindowIndices, WindowIndices, Contract!Window, Window,
       Contract!Overlap, Overlap
  <2>6. Contract!Exhaust
    BY <1>1, <2>3, <2>4, <2>5 DEF Contract!Exhaust, Contract!NoSolution
  <2> QED
    BY <2>6 DEF Contract!Next
<1>14. CASE OtherSearchDecides
  <2>1. Contract!OtherDecides
    BY <1>1, <1>6, <1>14 DEF OtherSearchDecides, Contract!OtherDecides
  <2> QED
    BY <2>1 DEF Contract!Next
<1>15. CASE UNCHANGED vars
  BY <1>1, <1>6, <1>15 DEF vars, Contract!vars
<1> QED
  BY <1>7, <1>8, <1>9, <1>10, <1>11, <1>12, <1>13, <1>14, <1>15 DEF Next, Step

\* schedule_setup implements the contract of a search, whatever the problem,
\* the budget and the moment at which another search decides.
THEOREM SearchKeepsContract == Spec => ImplementsContract
<1>1. Init => Contract!Init
  BY ContractInit
<1>2. IInv /\ [Next]_vars => [Contract!Next]_(Contract!vars)
  BY ContractStep
<1>3. Spec => Contract!Spec
  BY <1>1, <1>2, InductiveInvariant, PTL DEF Spec, Contract!Spec
<1> QED
  BY <1>3 DEF ImplementsContract
-----------------------------------------------------------------------------
(* What a valid request asks for.                                          *)

\* A range that passes validation.
LEMMA SpeltMeans ==
    ASSUME NEW rs \in Seq(SpeltRange), \A r \in ToSet(rs) : ValidRange(r)
    PROVE  rs \in Seq(SlotRange)
<1>1. PICK n \in Nat : n = Len(rs)
  OBVIOUS
<1>2. ASSUME NEW i \in 1 .. n PROVE rs[i] \in SlotRange
  <2>1. rs[i] \in SpeltRange /\ rs[i] \in ToSet(rs)
    BY <1>1 DEF ToSet
  <2>2. ValidRange(rs[i])
    BY <2>1
  <2> QED
    BY <2>1, <2>2 DEF SpeltRange, SlotRange, ValidRange
<1> QED
  BY <1>1, <1>2

\* A meeting of a valid request.
LEMMA MeetingMeans ==
    ASSUME request \in Requests, ValidRequest, NEW n \in 1 .. Len(request.meetings),
           NEW m, m = request.meetings[n]
    PROVE  /\ m \in ToSet(request.meetings)
           /\ m.id \in Ids /\ m.blockedTimes \in Seq(SlotRange)
           /\ m.duration \in Nat /\ m.duration >= 1 /\ m.duration <= MAX
           /\ request.availability \in Seq(SlotRange)
<1>1. request.meetings \in Seq(SpeltMeeting) /\ request.availability \in Seq(SpeltRange)
  BY RequestsAssumption
<1>2. m \in SpeltMeeting /\ m \in ToSet(request.meetings)
  BY <1>1 DEF ToSet
<1>3. m.id \in Ids /\ m.blockedTimes \in Seq(SpeltRange) /\ m.duration \in Slot
  BY <1>2 DEF SpeltMeeting
<1>4. m.duration >= 1 /\ \A r \in ToSet(m.blockedTimes) : ValidRange(r)
  BY <1>2 DEF ValidRequest, ValidMeeting
<1>5. \A r \in ToSet(request.availability) : ValidRange(r)
  BY DEF ValidRequest
<1>6. m.blockedTimes \in Seq(SlotRange)
  BY <1>3, <1>4, SpeltMeans
<1>7. request.availability \in Seq(SlotRange)
  BY <1>1, <1>5, SpeltMeans
<1>8. m.duration \in Nat /\ m.duration <= MAX
  BY <1>3, MaxAssumption DEF Slot
<1> QED
  BY <1>2, <1>3, <1>4, <1>6, <1>7, <1>8

\* The request's meetings are a sequence with an id each.
LEMMA RequestedMeans ==
    ASSUME request \in Requests
    PROVE  /\ Len(request.meetings) \in Nat /\ DOMAIN request.meetings = 1 .. Len(request.meetings)
           /\ \A m, n \in 1 .. Len(request.meetings) :
                 request.meetings[m].id = request.meetings[n].id => m = n
           /\ ToSet(request.meetings) =
                 {request.meetings[n] : n \in 1 .. Len(request.meetings)}
<1>1. /\ request.meetings \in Seq(SpeltMeeting)
      /\ \A m, n \in DOMAIN request.meetings :
            request.meetings[m].id = request.meetings[n].id => m = n
  BY RequestsAssumption
<1>2. Len(request.meetings) \in Nat /\ DOMAIN request.meetings = 1 .. Len(request.meetings)
  BY <1>1
<1> QED
  BY <1>1, <1>2 DEF ToSet

\* The ranges in which a meeting can be held have exactly its positions, and
\* its windows are these positions, but for the last slot.
LEMMA AvailabilityOfMeans ==
    ASSUME request \in Requests, ValidRequest, NEW n \in 1 .. Len(request.meetings),
           NEW m, m = request.meetings[n], NEW kept, kept = AvailabilityOf(m)
    PROVE  /\ kept \in Seq(SlotRange)
           /\ kept = <<>> <=> Positions(m) = {}
           /\ SlotsOf(kept) = UNION {p.start .. p.end : p \in Positions(m)}
           /\ Windowed(kept, m.duration) \in Seq(SlotRange)
           /\ \A w \in SlotRange :
                 (\E i \in 1 .. Len(Windowed(kept, m.duration)) : Windowed(kept, m.duration)[i] = w)
                    <=> w \in Positions(m) /\ w # LastSlot
<1>1. PICK available, busy, d :
           available = request.availability /\ busy = m.blockedTimes /\ d = m.duration
  OBVIOUS
<1>2. /\ available \in Seq(SlotRange) /\ busy \in Seq(SlotRange)
      /\ d \in Nat /\ d >= 1 /\ d <= MAX
  BY <1>1, MeetingMeans
<1>3. kept = MeetingAvailability(available, busy, d)
  BY <1>1 DEF AvailabilityOf
<1>4. /\ kept \in Seq(SlotRange) /\ Separated(kept)
      /\ \A h \in 1 .. Len(kept) : LongEnough(kept[h], d)
      /\ \A w \in SlotRange :
            (\E h \in 1 .. Len(kept) : Fits(kept[h], d, w))
               <=> /\ w.end - w.start + 1 = d
                   /\ w.start .. w.end \subseteq Unblocked(available, busy)
  BY <1>2, <1>3, AvailabilityMeans
<1>5. Unblocked(available, busy) = FreeSlots(m)
  BY <1>1 DEF Unblocked, FreeSlots
<1>6. ASSUME NEW w \in SlotRange
      PROVE  w \in Positions(m) <=> \E h \in 1 .. Len(kept) : Fits(kept[h], d, w)
  BY <1>1, <1>4, <1>5 DEF Positions, IsPosition
<1>7. \A w \in Positions(m) : w \in SlotRange
  BY DEF Positions
<1>8. PICK k \in Nat : k = Len(kept)
  BY <1>4
<1>9. ASSUME NEW h \in 1 .. k, NEW x \in Nat, kept[h].start <= x, x <= kept[h].end
      PROVE  \E w \in Positions(m) : w.start <= x /\ x <= w.end
  <2>1. PICK a \in Nat, b \in Nat : a = kept[h].start /\ b = kept[h].end /\ a <= b /\ b <= MAX
    BY <1>4, <1>8, RangeMeans
  <2>2. b - a + 1 >= d
    <3>1. b - a + 1 > MAX \/ b - a + 1 >= d
      BY <1>4, <1>8, <2>1 DEF LongEnough
    <3>2. d \in Nat /\ d <= MAX /\ a \in Nat /\ b \in Nat /\ MAX \in Nat
      BY <1>2, MaxAssumption
    <3> QED
      BY <3>1, <3>2
  <2>3. PICK s \in Nat : s = IF x + (d - 1) <= b THEN x ELSE b - (d - 1)
    <3>1. b - (d - 1) \in Nat
      <4>1. d \in Nat /\ b - a + 1 >= d
        BY <1>2, <2>2
      <4> QED
        BY <4>1
    <3>2. x \in Nat
      BY <1>9
    <3> QED
      BY <3>1, <3>2
  <2>4. /\ a <= s /\ s <= x /\ x <= s + (d - 1) /\ s + (d - 1) <= b
    <3>1. a <= x /\ x <= b /\ d \in Nat /\ d >= 1
      BY <1>2, <1>9, <2>1
    <3>2. CASE x + (d - 1) <= b
      BY <2>3, <3>1, <3>2
    <3>3. CASE ~(x + (d - 1) <= b)
      BY <2>2, <2>3, <3>1, <3>3
    <3> QED
      BY <3>2, <3>3
  <2>5. PICK e \in Nat : e = s + (d - 1)
    BY <1>2
  <2>6. PICK w : w = [start |-> s, end |-> e]
    OBVIOUS
  <2>7. w \in SlotRange /\ w.start = s /\ w.end = e
    <3>1. s \in Slot /\ e \in Slot /\ s <= e
      BY <1>2, <2>1, <2>4, <2>5, MaxAssumption DEF Slot
    <3> QED
      BY <2>6, <3>1 DEF SlotRange
  <2>8. Fits(kept[h], d, w)
    BY <2>1, <2>4, <2>5, <2>7 DEF Fits
  <2>9. w \in Positions(m)
    BY <1>6, <1>8, <2>7, <2>8
  <2> QED
    BY <2>4, <2>5, <2>7, <2>9
<1>10. ASSUME NEW w \in Positions(m), NEW x \in w.start .. w.end
       PROVE  x \in SlotsOf(kept)
  <2>1. PICK h \in 1 .. Len(kept) : Fits(kept[h], d, w)
    BY <1>6, <1>7
  <2>2. PICK s \in Nat, e \in Nat : s = w.start /\ e = w.end
    BY <1>7, RangeMeans
  <2>3. PICK a \in Nat, b \in Nat : a = kept[h].start /\ b = kept[h].end
    BY <1>4, RangeMeans
  <2>4. x \in Nat /\ a <= x /\ x <= b
    BY <2>1, <2>2, <2>3 DEF Fits
  <2> QED
    BY <1>4, <2>3, <2>4, SlotsMeans
<1>11. ASSUME NEW x \in SlotsOf(kept) PROVE \E w \in Positions(m) : x \in w.start .. w.end
  <2>1. x \in Nat /\ \E h \in 1 .. k : kept[h].start <= x /\ x <= kept[h].end
    BY <1>4, <1>8, SlotsMeans
  <2>2. PICK w \in Positions(m) : w.start <= x /\ x <= w.end
    BY <1>9, <2>1
  <2>3. w.start \in Nat /\ w.end \in Nat
    BY <1>7, RangeMeans
  <2> QED
    BY <2>1, <2>2, <2>3
<1>12. SlotsOf(kept) = UNION {p.start .. p.end : p \in Positions(m)}
  BY <1>10, <1>11
<1>13. kept = <<>> <=> Positions(m) = {}
  <2>1. ASSUME kept = <<>>, NEW w \in Positions(m) PROVE FALSE
    <3>1. PICK h \in 1 .. Len(kept) : Fits(kept[h], d, w)
      BY <1>6, <1>7
    <3> QED
      BY <2>1, <3>1
  <2>2. ASSUME kept # <<>> PROVE Positions(m) # {}
    <3>1. 1 \in 1 .. k
      BY <1>4, <1>8, <2>2, LastMeans
    <3>2. PICK a \in Nat, b \in Nat : a = kept[1].start /\ b = kept[1].end /\ a <= b
      BY <1>4, <1>8, <3>1, RangeMeans
    <3> QED
      BY <1>9, <3>1, <3>2
  <2> QED
    BY <2>1, <2>2
<1>14. /\ Windowed(kept, d) \in Seq(SlotRange)
       /\ \A w \in SlotRange :
             (\E i \in 1 .. Len(Windowed(kept, d)) : Windowed(kept, d)[i] = w)
                <=> \E h \in 1 .. Len(kept) : Within(kept[h], d, w)
  <2>1. /\ kept \in Seq(SlotRange) /\ Separated(kept)
        /\ \A h \in 1 .. Len(kept) : LongEnough(kept[h], d)
    BY <1>4
  <2> QED
    BY <1>2, <2>1, WindowedMeans, ZenonT(60)
<1>15. ASSUME NEW w \in SlotRange
       PROVE  (\E h \in 1 .. Len(kept) : Within(kept[h], d, w)) <=> w \in Positions(m) /\ w # LastSlot
  <2>1. w = LastSlot <=> w.start = MAX
    <3>1. PICK s \in Nat, e \in Nat : s = w.start /\ e = w.end /\ s <= e /\ e <= MAX
      BY RangeMeans
    <3>2. w = [start |-> s, end |-> e]
      BY <3>1, RangeMeans
    <3>3. s = MAX => e = MAX
      BY <3>1, MaxAssumption
    <3> QED
      BY <3>1, <3>2, <3>3 DEF LastSlot
  <2>2. \A h : Within(kept[h], d, w) <=> Fits(kept[h], d, w) /\ w.start # MAX
    BY DEF Within, Fits
  <2> QED
    BY <1>6, <2>1, <2>2
<1> QED
  BY <1>1, <1>4, <1>12, <1>13, <1>14, <1>15

\* A meeting is among the possible ones if it has a position itself.
LEMMA PossibleMeans ==
    ASSUME request \in Requests, NEW n \in 1 .. Len(request.meetings)
    PROVE  request.meetings[n].id \in Possible <=> Positions(request.meetings[n]) # {}
<1>1. ASSUME request.meetings[n].id \in Possible PROVE Positions(request.meetings[n]) # {}
  <2>1. PICK m \in ToSet(request.meetings) : Positions(m) # {} /\ m.id = request.meetings[n].id
    BY <1>1 DEF Possible
  <2>2. PICK h \in 1 .. Len(request.meetings) : m = request.meetings[h]
    BY RequestedMeans
  <2>3. h = n
    BY <2>1, <2>2, RequestedMeans
  <2> QED
    BY <2>1, <2>2, <2>3
<1>2. ASSUME Positions(request.meetings[n]) # {} PROVE request.meetings[n].id \in Possible
  <2>1. request.meetings[n] \in ToSet(request.meetings)
    BY RequestedMeans
  <2> QED
    BY <1>2, <2>1 DEF Possible
<1> QED
  BY <1>1, <1>2

\* What the search needs to know of a meeting.
Described(m) == [id |-> m.id, duration |-> m.duration, availability |-> AvailabilityOf(m)]

\* infos describes the meetings that have a position, each once: the k-th of
\* them is meeting from[k] of the request.
Picked(infos, from) ==
    /\ infos \in Seq(Info)
    /\ from \in [1 .. Len(infos) -> 1 .. Len(request.meetings)]
    /\ \A k, j \in 1 .. Len(infos) : from[k] = from[j] => k = j
    /\ \A k \in 1 .. Len(infos) : /\ infos[k] = Described(request.meetings[from[k]])
                                  /\ Positions(request.meetings[from[k]]) # {}
    /\ \A n \in 1 .. Len(request.meetings) :
          Positions(request.meetings[n]) # {} => \E k \in 1 .. Len(infos) : from[k] = n

\* A meeting's description, if it has one.
LEMMA InfoOfMeans ==
    ASSUME request \in Requests, ValidRequest, NEW n \in 1 .. Len(request.meetings),
           NEW m, m = request.meetings[n]
    PROVE  /\ Described(m) \in Info
           /\ InfoOf(m) = IF Positions(m) = {} THEN <<>> ELSE <<Described(m)>>
           /\ InfoOf(m) \in Seq(Info)
<1>1. /\ m.id \in Ids /\ m.duration \in Nat /\ m.duration >= 1 /\ m.duration <= MAX
  BY MeetingMeans
<1>2. /\ AvailabilityOf(m) \in Seq(SlotRange)
      /\ AvailabilityOf(m) = <<>> <=> Positions(m) = {}
  BY AvailabilityOfMeans
<1>3. m.duration \in Slot \ {0}
  BY <1>1, MaxAssumption DEF Slot
<1>4. Described(m) \in Info
  BY <1>1, <1>2, <1>3 DEF Described, Info
<1>5. InfoOf(m) = IF Positions(m) = {} THEN <<>> ELSE <<Described(m)>>
  BY <1>2 DEF InfoOf, Described
<1>6. PICK info \in Info : info = Described(m)
  BY <1>4
<1>7. <<info>> \in Seq(Info) /\ <<>> \in Seq(Info)
  OBVIOUS
<1> QED
  BY <1>4, <1>5, <1>6, <1>7

\* setup describes the meetings that have a position, each once.
LEMMA InfosMean ==
    ASSUME request \in Requests, ValidRequest
    PROVE  \E from : Picked(MeetingAvailabilityInfo, from)
<1>0. PICK n \in Nat : n = Len(request.meetings)
  BY RequestedMeans
<1>1. PICK asked : asked = request.meetings /\ n = Len(request.meetings)
  BY <1>0
<1>2. PICK ss : ss = [h \in DOMAIN asked |-> InfoOf(asked[h])]
  OBVIOUS
<1>3. DOMAIN asked = 1 .. n
  BY <1>1, RequestedMeans
<1>4. ASSUME NEW h \in 1 .. n
      PROVE  /\ ss[h] = IF Positions(asked[h]) = {} THEN <<>> ELSE <<Described(asked[h])>>
             /\ ss[h] \in Seq(Info)
  BY <1>1, <1>2, <1>3, InfoOfMeans
<1>5. ss \in [1 .. n -> Seq(Info)]
  BY <1>2, <1>3, <1>4
<1>6. PICK infos : infos = MeetingAvailabilityInfo
  OBVIOUS
<1>7. infos = FlattenSeq(ss)
  BY <1>1, <1>2, <1>6 DEF MeetingAvailabilityInfo
<1>8. infos \in Seq(Info) /\ \E offset \in [1 .. n -> Nat] : Placed(n, ss, infos, offset)
  BY <1>5, <1>7, FlattenPlaces
<1>9. PICK offset \in [1 .. n -> Nat] : Placed(n, ss, infos, offset)
  BY <1>8
<1>10. ASSUME NEW h \in 1 .. n, NEW j \in 1 .. Len(ss[h])
       PROVE  j = 1 /\ Positions(asked[h]) # {} /\ ss[h][j] = Described(asked[h])
  <2>1. CASE Positions(asked[h]) = {}
    <3>1. ss[h] = <<>>
      BY <1>4, <2>1
    <3>2. Len(ss[h]) = 0
      BY <3>1
    <3> QED
      BY <3>2
  <2>2. CASE Positions(asked[h]) # {}
    <3>1. ss[h] = <<Described(asked[h])>>
      BY <1>4, <2>2
    <3> QED
      BY <2>2, <3>1
  <2> QED
    BY <2>1, <2>2
<1>11. ASSUME NEW h \in 1 .. n, Positions(asked[h]) # {} PROVE 1 \in 1 .. Len(ss[h])
  <2>1. ss[h] = <<Described(asked[h])>>
    BY <1>4, <1>11
  <2> QED
    BY <2>1
<1>12. ASSUME NEW k \in 1 .. Len(infos)
       PROVE  \E h \in 1 .. n : /\ k = offset[h] + 1 /\ Positions(asked[h]) # {}
                                /\ infos[k] = Described(asked[h])
  <2>1. PICK h \in 1 .. n : \E j \in 1 .. Len(ss[h]) : k = offset[h] + j
    BY <1>9 DEF Placed
  <2>2. PICK j \in 1 .. Len(ss[h]) : k = offset[h] + j
    BY <2>1
  <2>3. j = 1 /\ Positions(asked[h]) # {} /\ ss[h][j] = Described(asked[h])
    BY <1>10
  <2>4. infos[offset[h] + j] = ss[h][j]
    BY <1>9 DEF Placed
  <2> QED
    BY <2>2, <2>3, <2>4
<1>13. PICK from : from = [k \in 1 .. Len(infos) |->
                             CHOOSE h \in 1 .. n : /\ k = offset[h] + 1 /\ Positions(asked[h]) # {}
                                                   /\ infos[k] = Described(asked[h])]
  OBVIOUS
<1>14. ASSUME NEW k \in 1 .. Len(infos)
       PROVE  /\ from[k] \in 1 .. n /\ k = offset[from[k]] + 1
              /\ Positions(asked[from[k]]) # {} /\ infos[k] = Described(asked[from[k]])
  BY <1>12, <1>13
<1>15. from \in [1 .. Len(infos) -> 1 .. n]
  <2> DEFINE Fitting(k, h) == /\ k = offset[h] + 1 /\ Positions(asked[h]) # {}
                              /\ infos[k] = Described(asked[h])
  <2>1. from = [k \in 1 .. Len(infos) |-> CHOOSE h \in 1 .. n : Fitting(k, h)]
    BY <1>13
  <2>2. \A k \in 1 .. Len(infos) : (CHOOSE h \in 1 .. n : Fitting(k, h)) \in 1 .. n
    BY <1>12
  <2> HIDE DEF Fitting
  <2> QED
    BY <2>1, <2>2
<1>16. \A k, j \in 1 .. Len(infos) : from[k] = from[j] => k = j
  BY <1>14
<1>17. ASSUME NEW h \in 1 .. n, Positions(asked[h]) # {} PROVE \E k \in 1 .. Len(infos) : from[k] = h
  <2>1. 1 \in 1 .. Len(ss[h])
    BY <1>11, <1>17
  <2>2. offset[h] + 1 \in 1 .. Len(infos)
    BY <1>9, <2>1 DEF Placed
  <2>3. PICK k \in 1 .. Len(infos) : k = offset[h] + 1
    BY <2>2
  <2>4. from[k] \in 1 .. n /\ k = offset[from[k]] + 1 /\ Positions(asked[from[k]]) # {}
    BY <1>14
  <2>5. 1 \in 1 .. Len(ss[from[k]])
    BY <1>11, <2>4
  <2>6. from[k] = h
    BY <1>9, <2>1, <2>3, <2>4, <2>5 DEF Placed
  <2> QED
    BY <2>6
<1>18. Picked(infos, from)
  BY <1>1, <1>8, <1>14, <1>15, <1>16, <1>17 DEF Picked
<1> QED
  BY <1>6, <1>18

-----------------------------------------------------------------------------
(* The pigeonhole check.                                                   *)

\* Sums of the same numbers are the same.
LEMMA SamePrefix ==
    ASSUME NEW a, NEW b, Len(a) \in Nat, Len(b) \in Nat, NEW n \in Nat, n <= Len(a), n <= Len(b),
           \A k \in 1 .. n : a[k] = b[k]
    PROVE  SumOf(a)[n] = SumOf(b)[n]
<1>1. PICK la \in Nat, lb \in Nat : la = Len(a) /\ lb = Len(b) /\ n <= la /\ n <= lb
  OBVIOUS
<1>2. PICK p, q : p = SumOf(a) /\ q = SumOf(b)
  OBVIOUS
<1>3. /\ p[0] = 0 /\ q[0] = 0
      /\ \A k \in 0 .. la - 1 : p[k + 1] = p[k] + a[k + 1]
      /\ \A k \in 0 .. lb - 1 : q[k + 1] = q[k] + b[k + 1]
  BY <1>1, <1>2, SumSteps
<1> DEFINE T == {k \in 0 .. n : p[k] = q[k]}
<1>4. 0 \in T
  BY <1>3
<1>5. ASSUME NEW k \in 0 .. n - 1, k \in T PROVE k + 1 \in T
  <2>1. k \in 0 .. la - 1 /\ k \in 0 .. lb - 1 /\ k + 1 \in 1 .. n /\ k + 1 \in 0 .. n
    BY <1>1
  <2>2. p[k + 1] = p[k] + a[k + 1] /\ q[k + 1] = q[k] + b[k + 1] /\ a[k + 1] = b[k + 1]
    BY <1>3, <2>1
  <2>3. p[k] = q[k]
    BY <1>5
  <2> QED
    BY <2>1, <2>2, <2>3
<1> HIDE DEF T
<1>6. 0 .. n \subseteq T
  BY <1>4, <1>5, UpToN
<1>7. n \in T
  BY <1>6
<1> QED
  BY <1>2, <1>7 DEF T

\* The count of pigeons goes up from one meeting to the next.
LEMMA PigeonsMean ==
    ASSUME NEW infos \in Seq(Info)
    PROVE  /\ Pigeons(infos, 0) = 0
           /\ \A k \in 0 .. Len(infos) - 1 :
                 Pigeons(infos, k + 1) = Pigeons(infos, k) + infos[k + 1].duration
           /\ \A k \in 0 .. Len(infos) : Pigeons(infos, k) \in Nat
           /\ \A j, k \in 0 .. Len(infos) : j < k => Pigeons(infos, j) < Pigeons(infos, k)
<1>1. PICK n \in Nat : n = Len(infos) /\ DOMAIN infos = 1 .. n
  OBVIOUS
<1>2. PICK a : a = [k \in DOMAIN infos |-> infos[k].duration]
  OBVIOUS
<1>3. Len(a) = n /\ \A k \in 1 .. n : a[k] = infos[k].duration
  BY <1>1, <1>2
<1>4. PICK p : p = SumOf(a)
  OBVIOUS
<1>5. \A k : Pigeons(infos, k) = p[k]
  BY <1>2, <1>4 DEF Pigeons
<1>6. p[0] = 0 /\ \A k \in 0 .. n - 1 : p[k + 1] = p[k] + a[k + 1]
  BY <1>3, <1>4, SumSteps
<1>7. \A k \in 1 .. n : a[k] \in Nat /\ a[k] >= 1
  <2> SUFFICES ASSUME NEW k \in 1 .. n PROVE a[k] \in Nat /\ a[k] >= 1
    OBVIOUS
  <2>1. infos[k] \in Info
    BY <1>1
  <2>2. infos[k].duration \in Slot \ {0}
    BY <2>1 DEF Info
  <2> QED
    BY <1>3, <2>2, MaxAssumption DEF Slot
<1>8. \A k \in 0 .. n - 1 : p[k + 1] = p[k] + infos[k + 1].duration
  <2> SUFFICES ASSUME NEW k \in 0 .. n - 1 PROVE p[k + 1] = p[k] + infos[k + 1].duration
    OBVIOUS
  <2>1. k + 1 \in 1 .. n
    OBVIOUS
  <2> QED
    BY <1>3, <1>6, <2>1
<1> DEFINE T == {k \in 0 .. n : /\ p[k] \in Nat
                             /\ \A j \in 0 .. k : p[j] \in Nat /\ (j = k \/ p[j] < p[k])}
<1>9. 0 \in T
  BY <1>6
<1>10. ASSUME NEW k \in 0 .. n - 1, k \in T PROVE k + 1 \in T
  <2>1. k + 1 \in 1 .. n /\ k + 1 \in 0 .. n /\ p[k] \in Nat /\ k \in 0 .. k
    BY <1>10
  <2>2. a[k + 1] \in Nat /\ a[k + 1] >= 1 /\ p[k + 1] = p[k] + a[k + 1]
    BY <1>6, <1>7, <2>1
  <2>3. p[k + 1] \in Nat /\ p[k] < p[k + 1]
    BY <2>1, <2>2
  <2>4. ASSUME NEW j \in 0 .. k + 1, j # k + 1 PROVE p[j] \in Nat /\ p[j] < p[k + 1]
    <3>1. j \in 0 .. k
      BY <2>4
    <3>2. p[j] \in Nat /\ (j = k \/ p[j] < p[k])
      BY <1>10, <3>1
    <3> QED
      BY <2>1, <2>3, <3>2
  <2> QED
    BY <2>1, <2>3, <2>4
<1> HIDE DEF T
<1>11. 0 .. n \subseteq T
  BY <1>9, <1>10, UpToN
<1>12. \A k \in 0 .. n : p[k] \in Nat /\ \A j \in 0 .. k : j = k \/ p[j] < p[k]
  BY <1>11 DEF T
<1>13. \A j, k \in 0 .. n : j < k => p[j] < p[k]
  BY <1>12
<1> QED
  BY <1>1, <1>5, <1>6, <1>8, <1>12, <1>13

\* An info is added at the end.
LEMMA PigeonsAppended ==
    ASSUME NEW infos \in Seq(Info), NEW info \in Info
    PROVE  /\ Append(infos, info) \in Seq(Info)
           /\ Pigeons(Append(infos, info), Len(Append(infos, info))) =
                 Pigeons(infos, Len(infos)) + info.duration
<1>1. PICK n \in Nat : n = Len(infos)
  OBVIOUS
<1>2. PICK more \in Seq(Info) : more = Append(infos, info)
  BY AppendProperties
<1>3. Len(more) = n + 1 /\ more[n + 1] = info /\ \A k \in 1 .. n : more[k] = infos[k]
  BY <1>1, <1>2, AppendProperties
<1>4. PICK a, b : a = [k \in DOMAIN infos |-> infos[k].duration] /\ b = [k \in DOMAIN more |-> more[k].duration]
  OBVIOUS
<1>5. Len(a) = n /\ Len(b) = n + 1 /\ \A k \in 1 .. n : a[k] = b[k]
  BY <1>1, <1>3, <1>4
<1>10. Len(a) \in Nat /\ Len(b) \in Nat /\ n <= Len(a) /\ n <= Len(b)
  BY <1>5
<1>6. SumOf(a)[n] = SumOf(b)[n]
  BY <1>5, <1>10, SamePrefix
<1>7. Pigeons(infos, n) = SumOf(a)[n] /\ Pigeons(more, n) = SumOf(b)[n]
  BY <1>4 DEF Pigeons
<1>8. n \in 0 .. Len(more) - 1
  BY <1>3
<1>9. Pigeons(more, n + 1) = Pigeons(more, n) + more[n + 1].duration
  BY <1>8, PigeonsMean
<1> QED
  BY <1>1, <1>2, <1>3, <1>6, <1>7, <1>9

\* What setup counts is what the meetings that have a position ask for.
LEMMA DemandCounted ==
    ASSUME request \in Requests, ValidRequest
    PROVE  Pigeons(MeetingAvailabilityInfo, Len(MeetingAvailabilityInfo)) = Demand
<1>0. PICK n \in Nat : n = Len(request.meetings)
  BY RequestedMeans
<1>1. PICK asked : asked = request.meetings /\ n = Len(request.meetings)
  BY <1>0
<1>2. PICK ss : ss = [h \in DOMAIN asked |-> InfoOf(asked[h])]
  OBVIOUS
<1>3. DOMAIN asked = 1 .. n
  BY <1>1, RequestedMeans
<1>4. ASSUME NEW h \in 1 .. n
      PROVE  /\ Described(asked[h]) \in Info
             /\ ss[h] = IF Positions(asked[h]) = {} THEN <<>> ELSE <<Described(asked[h])>>
             /\ ss[h] \in Seq(Info)
  BY <1>1, <1>2, <1>3, InfoOfMeans
<1>5. ss \in [1 .. n -> Seq(Info)]
  BY <1>2, <1>3, <1>4
<1>6. PICK infos : infos = MeetingAvailabilityInfo
  OBVIOUS
<1>7. infos = FlattenSeq(ss)
  BY <1>1, <1>2, <1>6 DEF MeetingAvailabilityInfo
<1>8. PICK upTo \in [0 .. n -> Seq(Info)] :
         /\ upTo[0] = <<>>
         /\ \A k \in 0 .. n - 1 : upTo[k + 1] = upTo[k] \o ss[k + 1]
         /\ FlattenSeq(ss) = upTo[n]
  BY <1>5, FlattenRun
<1>9. PICK d : d = [h \in DOMAIN asked |-> DemandOf(asked[h])]
  OBVIOUS
<1>10. Len(d) = n /\ \A h \in 1 .. n : d[h] = DemandOf(asked[h])
  BY <1>3, <1>9
<1>11. PICK sum : sum = SumOf(d)
  OBVIOUS
<1>12. sum[0] = 0 /\ \A k \in 0 .. n - 1 : sum[k + 1] = sum[k] + d[k + 1]
  BY <1>10, <1>11, SumSteps
<1>13. Demand = sum[n]
  BY <1>1, <1>9, <1>11 DEF Demand
<1> DEFINE T == {k \in 0 .. n : Pigeons(upTo[k], Len(upTo[k])) = sum[k]}
<1>14. 0 \in T
  <2>1. upTo[0] = <<>> /\ Len(upTo[0]) = 0 /\ upTo[0] \in Seq(Info)
    BY <1>8
  <2>2. Pigeons(upTo[0], 0) = 0
    BY <2>1, PigeonsMean
  <2> QED
    BY <1>12, <2>1, <2>2
<1>15. ASSUME NEW k \in 0 .. n - 1, k \in T PROVE k + 1 \in T
  <2>1. k + 1 \in 1 .. n /\ k + 1 \in 0 .. n /\ k \in 0 .. n
    OBVIOUS
  <2>2. PICK old \in Seq(Info) : old = upTo[k]
    BY <2>1
  <2>3. PICK m : m = asked[k + 1]
    OBVIOUS
  <2>4. upTo[k + 1] = old \o ss[k + 1] /\ sum[k + 1] = sum[k] + DemandOf(m)
    BY <1>8, <1>10, <1>12, <2>1, <2>2, <2>3
  <2>5. Pigeons(old, Len(old)) = sum[k]
    BY <1>15, <2>2
  <2>6. m.id \in Possible <=> Positions(m) # {}
    BY <1>1, <2>1, <2>3, PossibleMeans
  <2>7. Len(old) \in 0 .. Len(old)
    OBVIOUS
  <2>8. sum[k] \in Nat
    BY <2>5, <2>7, PigeonsMean
  <2>9. Pigeons(upTo[k + 1], Len(upTo[k + 1])) = sum[k + 1]
    <3>1. CASE Positions(m) = {}
      <4>1. ss[k + 1] = <<>>
        BY <1>4, <2>1, <2>3, <3>1
      <4>2. upTo[k + 1] = old
        BY <2>4, <4>1, ConcatEmptySeq
      <4>3. sum[k + 1] = sum[k]
        BY <2>4, <2>6, <2>8, <3>1 DEF DemandOf
      <4> QED
        BY <2>5, <4>2, <4>3
    <3>2. CASE Positions(m) # {}
      <4>1. PICK info \in Info : info = Described(m)
        BY <1>4, <2>1, <2>3
      <4>2. ss[k + 1] = <<info>>
        BY <1>4, <2>1, <2>3, <3>2, <4>1
      <4>3. old \o <<info>> = Append(old, info)
        BY AppendIsConcat
      <4>4. upTo[k + 1] = Append(old, info)
        BY <2>4, <4>2, <4>3
      <4>5. info.duration = DemandOf(m)
        BY <2>6, <3>2, <4>1 DEF DemandOf, Described
      <4> QED
        BY <2>4, <2>5, <4>4, <4>5, PigeonsAppended
    <3> QED
      BY <3>1, <3>2
  <2> QED
    BY <2>1, <2>9
<1> HIDE DEF T
<1>16. 0 .. n \subseteq T
  BY <1>14, <1>15, UpToN
<1>17. n \in T
  BY <1>16
<1> QED
  BY <1>6, <1>7, <1>8, <1>13, <1>17 DEF T

\* The slots of the availability that setup lists are those a meeting can use.
LEMMA UsableListed ==
    ASSUME request \in Requests, ValidRequest, NEW infos, infos = MeetingAvailabilityInfo,
           NEW flat, flat = FlattenSeq([n \in DOMAIN infos |-> infos[n].availability])
    PROVE  flat \in Seq(SlotRange) /\ SlotsOf(flat) = Usable
<1>1. PICK from : Picked(infos, from)
  BY InfosMean
<1>2. PICK n \in Nat : n = Len(infos) /\ DOMAIN infos = 1 .. n
  BY <1>1 DEF Picked
<1>3. PICK asked : asked = request.meetings
  OBVIOUS
<1>4. PICK ss : ss = [k \in DOMAIN infos |-> infos[k].availability]
  OBVIOUS
<1>5. ASSUME NEW k \in 1 .. n
      PROVE  /\ from[k] \in 1 .. Len(asked) /\ ss[k] \in Seq(SlotRange)
             /\ SlotsOf(ss[k]) = UNION {p.start .. p.end : p \in Positions(asked[from[k]])}
  <2>1. from[k] \in 1 .. Len(asked) /\ infos[k] = Described(asked[from[k]])
    BY <1>1, <1>2, <1>3 DEF Picked
  <2>2. ss[k] = AvailabilityOf(asked[from[k]])
    BY <1>2, <1>4, <2>1 DEF Described
  <2> QED
    BY <1>3, <2>1, <2>2, AvailabilityOfMeans
<1>6. ss \in [1 .. n -> Seq(SlotRange)]
  BY <1>2, <1>4, <1>5
<1>7. flat \in Seq(SlotRange) /\ SlotsOf(flat) = UNION {SlotsOf(ss[p]) : p \in 1 .. n}
  BY <1>4, <1>6, FlatSlots
<1>8. ASSUME NEW k \in 1 .. n, NEW x \in SlotsOf(ss[k]) PROVE x \in Usable
  <2>1. PICK m : m = asked[from[k]] /\ m \in ToSet(request.meetings)
    BY <1>3, <1>5, RequestedMeans
  <2>2. x \in UNION {p.start .. p.end : p \in Positions(m)}
    BY <1>5, <2>1
  <2> QED
    BY <2>1, <2>2 DEF Usable
<1>9. ASSUME NEW x \in Usable PROVE \E k \in 1 .. n : x \in SlotsOf(ss[k])
  <2>1. PICK m \in ToSet(request.meetings) : x \in UNION {p.start .. p.end : p \in Positions(m)}
    BY DEF Usable
  <2>2. PICK h \in 1 .. Len(asked) : m = asked[h]
    BY <1>3, RequestedMeans
  <2>3. Positions(asked[h]) # {}
    BY <2>1, <2>2
  <2>4. PICK k \in 1 .. n : from[k] = h
    BY <1>1, <1>2, <1>3, <2>3 DEF Picked
  <2>5. x \in SlotsOf(ss[k])
    BY <1>5, <2>1, <2>2, <2>4
  <2> QED
    BY <2>5
<1>10. SlotsOf(flat) = Usable
  BY <1>7, <1>8, <1>9
<1> QED
  BY <1>7, <1>10

\* The holes are the slots that the meetings can use; None stands for all of
\* them, which are one more than N can count.
LEMMA HolesMean ==
    ASSUME request \in Requests, ValidRequest, NEW infos, infos = MeetingAvailabilityInfo
    PROVE  /\ Supply \in Nat
           /\ IsFiniteSet(Usable)
           /\ \/ Holes(infos) = <<>> /\ Supply = MAX + 1
              \/ Holes(infos) = <<Supply>> /\ Supply <= MAX
<1>1. PICK flat : flat = FlattenSeq([n \in DOMAIN infos |-> infos[n].availability])
  OBVIOUS
<1>2. flat \in Seq(SlotRange) /\ SlotsOf(flat) = Usable
  BY <1>1, UsableListed
<1>3. PICK merged : merged = TimeMerge(flat)
  OBVIOUS
<1>4. merged \in Seq(SlotRange) /\ Separated(merged) /\ SlotsOf(merged) = Usable
  BY <1>2, <1>3, MergeMeans
<1>5. Holes(infos) = CountPigeons(merged)
  BY <1>1, <1>3 DEF Holes
<1>6. PICK lengths : lengths = [i \in DOMAIN merged |-> merged[i].end - merged[i].start + 1]
  OBVIOUS
<1>7. IsFiniteSet(Usable) /\ Supply = SumOf(lengths)[Len(merged)]
  BY <1>4, <1>6, LengthsCount DEF Supply
<1>8. Supply \in Nat
  BY <1>7, FS_CardinalityType DEF Supply
<1>9. ASSUME NEW x \in Usable PROVE x \in 0 .. MAX
  <2>1. x \in Nat /\ \E i \in 1 .. Len(merged) : merged[i].start <= x /\ x <= merged[i].end
    BY <1>4, SlotsMeans
  <2>2. PICK i \in 1 .. Len(merged) : x <= merged[i].end
    BY <2>1
  <2>3. merged[i].end \in Nat /\ merged[i].end <= MAX
    BY <1>4, RangeMeans
  <2> QED
    BY <2>1, <2>2, <2>3, MaxAssumption
<1>10. IsFiniteSet(0 .. MAX) /\ Cardinality(0 .. MAX) = MAX + 1
  <2>1. ~(0 > MAX)
    BY MaxAssumption
  <2>2. IsFiniteSet(0 .. MAX) /\ Cardinality(0 .. MAX) = MAX - 0 + 1
    BY <2>1, MaxAssumption, FS_Interval
  <2> QED
    BY <2>2, MaxAssumption
<1>11. Supply <= MAX + 1 /\ (Supply = MAX + 1 => Usable = 0 .. MAX)
  <2>1. Usable \in SUBSET (0 .. MAX)
    BY <1>9
  <2> QED
    BY <1>10, <2>1, FS_Subset DEF Supply
<1>12. CASE \E r \in ToSet(merged) : r.end - r.start + 1 > MAX
  <2>1. PICK i \in 1 .. Len(merged) : merged[i].end - merged[i].start + 1 > MAX
    BY <1>4, <1>12 DEF ToSet
  <2>2. PICK a \in Nat, b \in Nat : a = merged[i].start /\ b = merged[i].end /\ b <= MAX
    BY <1>4, RangeMeans
  <2>3. a = 0 /\ b = MAX
    BY <2>1, <2>2, MaxAssumption
  <2>4. ASSUME NEW x \in 0 .. MAX PROVE x \in Usable
    <3>1. x \in Nat /\ a <= x /\ x <= b
      BY <2>3, MaxAssumption
    <3> QED
      BY <1>4, <2>2, <3>1, SlotsMeans
  <2>5. Usable = 0 .. MAX
    BY <1>9, <2>4
  <2>6. Supply = MAX + 1
    BY <1>10, <2>5 DEF Supply
  <2>7. Holes(infos) = <<>>
    BY <1>5, <1>12 DEF CountPigeons
  <2> QED
    BY <1>7, <1>8, <2>6, <2>7
<1>13. CASE ~(\E r \in ToSet(merged) : r.end - r.start + 1 > MAX)
  <2>1. Holes(infos) = <<Supply>>
    BY <1>5, <1>6, <1>7, <1>13 DEF CountPigeons
  <2>2. ASSUME Supply = MAX + 1 PROVE FALSE
    <3>1. 0 .. MAX \subseteq SlotsOf(merged)
      BY <1>4, <1>11, <2>2
    <3>2. 0 \in Nat /\ MAX \in Nat /\ 0 <= MAX
      BY MaxAssumption
    <3>3. PICK j \in 1 .. Len(merged) : merged[j].start <= 0 /\ MAX <= merged[j].end
      BY <1>4, <3>1, <3>2, UnbrokenRange
    <3>4. merged[j] \in ToSet(merged)
      BY <1>4 DEF ToSet
    <3>5. PICK a \in Nat, b \in Nat : a = merged[j].start /\ b = merged[j].end
      BY <1>4, RangeMeans
    <3>6. b - a + 1 > MAX
      BY <3>3, <3>5, MaxAssumption
    <3> QED
      BY <1>13, <3>4, <3>5, <3>6
  <2>3. Supply <= MAX
    BY <1>8, <1>11, <2>2, MaxAssumption
  <2> QED
    BY <1>7, <1>8, <2>1, <2>3
<1> QED
  BY <1>12, <1>13

\* However the count of pigeons overflows, too many of them is what is reported.
LEMMA PigeonholeMeans ==
    ASSUME request \in Requests, ValidRequest, NEW infos, infos = MeetingAvailabilityInfo
    PROVE  PigeonholeErrors(infos) # {} <=> Demand > Supply
<1>1. infos \in Seq(Info)
  BY InfosMean DEF Picked
<1>2. PICK n \in Nat : n = Len(infos) /\ DOMAIN infos = 1 .. n
  BY <1>1
<1>3. PICK p : p = [k \in 0 .. n |-> Pigeons(infos, k)]
  OBVIOUS
<1>4. /\ \A k \in 0 .. n : p[k] = Pigeons(infos, k) /\ p[k] \in Nat
      /\ p[0] = 0
      /\ \A j, k \in 0 .. n : j < k => p[j] < p[k]
  BY <1>1, <1>2, <1>3, PigeonsMean
<1>5. n \in 0 .. n
  OBVIOUS
<1>6. p[n] = Demand /\ Pigeons(infos, Len(infos)) = p[n] /\ p[n] \in Nat
  BY <1>2, <1>4, <1>5, DemandCounted
<1>7. PICK over : over = Overflowing(infos)
  OBVIOUS
<1>8. over = {k \in 1 .. n : p[k - 1] <= MAX /\ p[k] > MAX}
  <2>1. \A k \in 1 .. n : k \in 0 .. n /\ k - 1 \in 0 .. n
    OBVIOUS
  <2> QED
    BY <1>2, <1>4, <1>7, <2>1 DEF Overflowing
<1>9. over # {} <=> p[n] > MAX
  <2>1. ASSUME NEW k \in over PROVE p[n] > MAX
    <3>1. k \in 0 .. n /\ k \in 1 .. n /\ p[k] > MAX
      BY <1>8
    <3>2. k = n \/ p[k] < p[n]
      BY <1>4, <1>5, <3>1
    <3> QED
      BY <1>4, <1>6, <3>1, <3>2, MaxAssumption
  <2>2. ASSUME p[n] > MAX PROVE over # {}
    <3>1. PICK T : T = {k \in 0 .. n : p[k] > MAX}
      OBVIOUS
    <3>2. T \subseteq Nat /\ n \in T
      BY <1>5, <2>2, <3>1
    <3>3. PICK k \in T : \A j \in T : k <= j
      BY <3>2, LeastOfNat
    <3>4. k # 0 /\ k \in 1 .. n /\ k - 1 \in 0 .. n
      BY <1>4, <3>1, <3>3, MaxAssumption
    <3>5. k - 1 \notin T
      BY <3>3, <3>4
    <3>6. p[k - 1] <= MAX
      BY <1>4, <3>1, <3>4, <3>5, MaxAssumption
    <3>7. k \in over
      BY <1>8, <3>1, <3>4, <3>6
    <3> QED
      BY <3>7
  <2> QED
    BY <2>1, <2>2
<1>10. Supply \in Nat /\ (\/ Holes(infos) = <<>> /\ Supply = MAX + 1
                          \/ Holes(infos) = <<Supply>> /\ Supply <= MAX)
  BY HolesMean
<1>11. CASE Holes(infos) = <<Supply>> /\ Supply <= MAX
  <2>1. PICK holes : holes = Holes(infos) /\ holes # <<>> /\ holes[1] = Supply
    BY <1>11
  <2>2. CASE over = {}
    <3>1. PigeonholeErrors(infos) = IF p[n] > Supply THEN TooMany(p[n], Supply) ELSE {}
      BY <1>6, <1>7, <2>1, <2>2 DEF PigeonholeErrors
    <3> QED
      BY <1>6, <3>1 DEF TooMany
  <2>3. CASE over # {}
    <3>1. PigeonholeErrors(infos) = TooMany(Supply, Supply)
      BY <1>7, <2>1, <2>3 DEF PigeonholeErrors
    <3>2. p[n] > Supply
      BY <1>6, <1>9, <1>10, <1>11, <2>3, MaxAssumption
    <3> QED
      BY <1>6, <3>1, <3>2 DEF TooMany
  <2> QED
    BY <2>2, <2>3
<1>12. CASE Holes(infos) = <<>> /\ Supply = MAX + 1
  <2>1. CASE over = {}
    <3>1. PigeonholeErrors(infos) = {}
      BY <1>7, <1>12, <2>1 DEF PigeonholeErrors
    <3>2. ~(p[n] > Supply)
      BY <1>6, <1>9, <1>10, <1>12, <2>1, MaxAssumption
    <3> QED
      BY <1>6, <3>1, <3>2
  <2>2. CASE over # {}
    <3>1. PICK k \in over : TRUE
      BY <2>2
    <3>2. PigeonholeErrors(infos) =
             IF \E j \in over : j < Len(infos) \/ Pigeons(infos, j) - 1 > MAX
             THEN TooMany(0, 0) ELSE {}
      BY <1>7, <1>12, <2>2 DEF PigeonholeErrors
    <3>3. \A j \in over : j \in 1 .. n /\ j \in 0 .. n /\ p[j] \in Nat /\ Pigeons(infos, j) = p[j] /\ p[j] > MAX
      BY <1>4, <1>8
    <3>4. ASSUME NEW j \in over, j < n \/ p[j] - 1 > MAX PROVE p[n] > Supply
      <4>1. CASE j < n
        <5>1. p[j] < p[n] /\ p[j] \in Nat /\ p[j] > MAX
          BY <1>4, <1>5, <3>3, <4>1
        <5> QED
          BY <1>6, <1>12, <5>1, MaxAssumption
      <4>2. CASE p[j] - 1 > MAX
        <5>1. j = n \/ p[j] < p[n]
          BY <1>4, <1>5, <3>3
        <5>2. p[j] \in Nat
          BY <3>3
        <5> QED
          BY <1>6, <1>12, <4>2, <5>1, <5>2, MaxAssumption
      <4> QED
        BY <3>4, <4>1, <4>2
    <3>5. ASSUME p[n] > Supply PROVE \E j \in over : j < n \/ p[j] - 1 > MAX
      <4>1. CASE k = n
        <5>1. p[k] - 1 > MAX
          BY <1>6, <1>12, <3>5, <4>1, MaxAssumption
        <5> QED
          BY <5>1
      <4>2. CASE k # n
        <5>1. k < n
          BY <3>3, <4>2
        <5> QED
          BY <5>1
      <4> QED
        BY <4>1, <4>2
    <3>6. (\E j \in over : j < Len(infos) \/ Pigeons(infos, j) - 1 > MAX) <=> p[n] > Supply
      BY <1>2, <3>3, <3>4, <3>5
    <3> QED
      BY <1>6, <3>2, <3>6 DEF TooMany
  <2> QED
    BY <2>1, <2>2
<1> QED
  BY <1>10, <1>11, <1>12

\* Positions in a timetable share no slot and are usable.
LEMMA TimetableFits ==
    ASSUME request \in Requests, ValidRequest, NEW f \in Timetables
    PROVE  Demand <= Supply
<1>0. PICK n \in Nat : n = Len(request.meetings)
  BY RequestedMeans
<1>1. PICK asked : asked = request.meetings /\ n = Len(request.meetings)
  BY <1>0
<1>2. DOMAIN asked = 1 .. n
  BY <1>1, RequestedMeans
<1>3. PICK d : d = [h \in DOMAIN asked |-> DemandOf(asked[h])]
  OBVIOUS
<1>4. Len(d) = n /\ \A h \in 1 .. n : d[h] = DemandOf(asked[h])
  BY <1>2, <1>3
<1>5. PICK sum : sum = SumOf(d)
  OBVIOUS
<1>6. sum[0] = 0 /\ \A k \in 0 .. n - 1 : sum[k + 1] = sum[k] + d[k + 1]
  BY <1>4, <1>5, SumSteps
<1>7. Demand = sum[n]
  BY <1>1, <1>3, <1>5 DEF Demand
<1>8. /\ f \in [Possible -> SlotRange]
      /\ \A i, j \in Possible : i # j => ~Overlap(f[i], f[j])
      /\ \A m \in ToSet(request.meetings) : m.id \in Possible => IsPosition(m, f[m.id])
  BY DEF Timetables
<1>9. \A h \in 1 .. n : asked[h] \in ToSet(request.meetings)
  BY <1>1, RequestedMeans
<1> DEFINE Hour(h) == f[asked[h].id].start .. f[asked[h].id].end
           Taken(k) == {x \in Nat : \E h \in 1 .. k : asked[h].id \in Possible /\ x \in Hour(h)}
           T == {k \in 0 .. n : /\ IsFiniteSet(Taken(k)) /\ Cardinality(Taken(k)) = sum[k]
                                /\ sum[k] \in Nat}
<1>10. ASSUME NEW h \in 1 .. n, asked[h].id \in Possible
       PROVE  /\ f[asked[h].id] \in SlotRange
              /\ IsFiniteSet(Hour(h)) /\ Cardinality(Hour(h)) = DemandOf(asked[h])
              /\ Hour(h) \subseteq Usable /\ Hour(h) \subseteq Nat
              /\ DemandOf(asked[h]) \in Nat
  <2>1. PICK r \in SlotRange : r = f[asked[h].id]
    BY <1>8, <1>10
  <2>2. IsPosition(asked[h], r)
    BY <1>8, <1>9, <1>10, <2>1
  <2>3. r \in Positions(asked[h])
    BY <2>2 DEF Positions
  <2>4. r.start .. r.end \subseteq Usable
    BY <1>9, <2>3 DEF Usable
  <2>5. r.end - r.start + 1 = DemandOf(asked[h])
    BY <1>10, <2>2 DEF IsPosition, DemandOf
  <2>6. r.start .. r.end \subseteq Nat
    BY RangeMeans
  <2> QED
    BY <2>1, <2>4, <2>5, <2>6, RangeCount
<1>11. 0 \in T
  <2>1. PICK none : none = Taken(0)
    OBVIOUS
  <2>2. none = {}
    BY <2>1
  <2>3. IsFiniteSet(none) /\ Cardinality(none) = 0
    BY <2>2, FS_EmptySet
  <2>4. 0 \in 0 .. n /\ sum[0] \in Nat /\ sum[0] = 0
    BY <1>6
  <2> HIDE DEF Taken
  <2> QED
    BY <2>1, <2>3, <2>4
<1>12. ASSUME NEW k \in 0 .. n - 1, k \in T PROVE k + 1 \in T
  <2>1. k \in Nat /\ k + 1 \in 1 .. n /\ k + 1 \in 0 .. n
    OBVIOUS
  <2>2. PICK old, new : old = Taken(k) /\ new = Taken(k + 1)
    OBVIOUS
  <2>3. IsFiniteSet(old) /\ Cardinality(old) = sum[k] /\ sum[k] \in Nat
    BY <1>12, <2>2
  <2>4. sum[k + 1] = sum[k] + DemandOf(asked[k + 1])
    BY <1>4, <1>6, <2>1
  <2>5. \A h : h \in 1 .. k + 1 <=> h \in 1 .. k \/ h = k + 1
    BY <2>1
  <2>6. CASE asked[k + 1].id \notin Possible
    <3>1. new = old
      <4> HIDE DEF Hour
      <4> QED
        BY <2>2, <2>5, <2>6
    <3>2. sum[k + 1] = sum[k]
      BY <2>3, <2>4, <2>6 DEF DemandOf
    <3> HIDE DEF Taken
    <3> QED
      BY <2>1, <2>2, <2>3, <3>1, <3>2
  <2>7. CASE asked[k + 1].id \in Possible
    <3>1. PICK Q : Q = Hour(k + 1)
      OBVIOUS
    <3>2. /\ IsFiniteSet(Q) /\ Cardinality(Q) = DemandOf(asked[k + 1])
          /\ Q \subseteq Nat /\ DemandOf(asked[k + 1]) \in Nat
      BY <1>10, <2>1, <2>7, <3>1
    <3>3. new = old \cup Q
      <4> HIDE DEF Hour
      <4> QED
        BY <2>2, <2>5, <2>7, <3>1, <3>2
    <3>4. old \cap Q = {}
      <4> SUFFICES ASSUME NEW x \in old, x \in Q PROVE FALSE
        OBVIOUS
      <4>1. PICK h \in 1 .. k : asked[h].id \in Possible /\ x \in Hour(h)
        BY <2>2
      <4>2. h \in 1 .. n /\ h # k + 1
        BY <2>1
      <4>3. asked[h].id # asked[k + 1].id
        BY <1>1, <2>1, <4>2, RequestedMeans
      <4>4. PICK r \in SlotRange, q \in SlotRange : r = f[asked[h].id] /\ q = f[asked[k + 1].id]
        BY <1>10, <2>1, <2>7, <4>1, <4>2
      <4>5. ~Overlap(r, q)
        BY <1>8, <2>7, <4>1, <4>3, <4>4
      <4>6. x \in r.start .. r.end /\ x \in q.start .. q.end
        BY <3>1, <4>1, <4>4
      <4> QED
        BY <4>5, <4>6, RangeMeans DEF Overlap
    <3>5. /\ IsFiniteSet(old \cup Q)
          /\ Cardinality(old \cup Q) = Cardinality(old) + Cardinality(Q) - Cardinality(old \cap Q)
      BY <2>3, <3>2, FS_Union
    <3>6. Cardinality(old \cap Q) = 0
      BY <3>4, FS_EmptySet
    <3>7. IsFiniteSet(new) /\ Cardinality(new) = sum[k + 1] /\ sum[k + 1] \in Nat
      BY <2>3, <2>4, <3>2, <3>3, <3>5, <3>6
    <3> HIDE DEF Taken
    <3> QED
      BY <2>1, <2>2, <3>7
  <2> QED
    BY <2>6, <2>7
<1> HIDE DEF T
<1>13. 0 .. n \subseteq T
  BY <1>11, <1>12, UpToN
<1>14. IsFiniteSet(Taken(n)) /\ Cardinality(Taken(n)) = sum[n]
  <2>1. n \in T
    BY <1>13
  <2> QED
    BY <2>1 DEF T
<1>15. Taken(n) \subseteq Usable
  <2> SUFFICES ASSUME NEW x \in Taken(n) PROVE x \in Usable
    OBVIOUS
  <2>1. PICK h \in 1 .. n : asked[h].id \in Possible /\ x \in Hour(h)
    OBVIOUS
  <2> HIDE DEF Hour
  <2> QED
    BY <1>10, <2>1
<1>16. IsFiniteSet(Usable)
  BY HolesMean
<1> HIDE DEF Taken
<1>17. Cardinality(Taken(n)) <= Cardinality(Usable)
  BY <1>15, <1>16, FS_Subset
<1> QED
  BY <1>7, <1>14, <1>17 DEF Supply

-----------------------------------------------------------------------------
(* The problem that the search is given.                                   *)

\* The problem is one that BacktrackSearch takes, and no larger than the request.
LEMMA SearchedType ==
    ASSUME NEW ms, NEW at, Searched(ms, at), request \in Requests
    PROVE  ms \in Seq(Meeting) /\ Len(ms) \in Nat /\ Len(ms) <= Len(request.meetings)
<1>1. PICK n \in Nat : n = Len(ms) /\ DOMAIN ms = 1 .. n
  BY DEF Searched
<1>2. ASSUME NEW k \in 1 .. n PROVE ms[k] \in Meeting
  <2>1. ms[k] \in Sought
    BY <1>1 DEF Searched
  <2>2. PICK ws \in Seq(SlotRange) : ws = ms[k].windows
    BY <2>1 DEF Sought
  <2>3. \A r \in SlotRange : r \in TimeRange
    BY MaxAssumption DEF SlotRange, TimeRange, Slot
  <2>4. ws \in Seq(TimeRange)
    <3>1. PICK l \in Nat : l = Len(ws)
      OBVIOUS
    <3>2. \A i \in 1 .. l : ws[i] \in TimeRange
      BY <2>3, <3>1
    <3> QED
      BY <3>1, <3>2
  <2>5. ms[k] = [id |-> ms[k].id, windows |-> ws] /\ ms[k].id \in Ids
    BY <2>1, <2>2 DEF Sought
  <2> QED
    BY <2>4, <2>5 DEF Meeting
<1>3. ms \in Seq(Meeting)
  <2>1. ms = [k \in 1 .. n |-> ms[k]]
    BY <1>1 DEF Searched
  <2> QED
    BY <1>2, <2>1
<1>4. PICK m \in Nat : m = Len(request.meetings)
  BY RequestedMeans
<1>5. IsFiniteSet(1 .. m) /\ Cardinality(1 .. m) = m
  BY FS_Interval
<1>6. IsFiniteSet(1 .. n) /\ Cardinality(1 .. n) = n
  BY FS_Interval
<1>7. at \in Injection(1 .. n, 1 .. m)
  BY <1>1, <1>4 DEF Searched, Injection, IsInjective
<1>8. n <= m
  BY <1>5, <1>6, <1>7, FS_Injection
<1> QED
  BY <1>1, <1>3, <1>4, <1>8

\* A meeting of the problem, and its windows.
LEMMA SearchedMeeting ==
    ASSUME NEW ms, NEW at, Searched(ms, at), request \in Requests, NEW k \in DOMAIN ms
    PROVE  /\ at[k] \in 1 .. Len(request.meetings)
           /\ request.meetings[at[k]] \in ToSet(request.meetings)
           /\ ms[k].id = request.meetings[at[k]].id /\ ms[k].id \in Possible
           /\ \A i \in 0 .. Len(ms[k].windows) - 1 :
                 /\ Window(ms, k, i) \in SlotRange
                 /\ IsPosition(request.meetings[at[k]], Window(ms, k, i))
           /\ \A w \in SlotRange :
                 IsPosition(request.meetings[at[k]], w) /\ w # LastSlot =>
                    \E i \in 0 .. Len(ms[k].windows) - 1 : Window(ms, k, i) = w
<1>1. k \in 1 .. Len(ms)
  BY DEF Searched
<1>2. PICK m : m = request.meetings[at[k]]
  OBVIOUS
<1>3. /\ at[k] \in 1 .. Len(request.meetings)
      /\ ms[k].id = m.id /\ Positions(m) # {}
      /\ \A w \in SlotRange : (\E i \in 1 .. Len(ms[k].windows) : ms[k].windows[i] = w)
                                 <=> w \in Positions(m) /\ w # LastSlot
  BY <1>1, <1>2 DEF Searched
<1>4. m \in ToSet(request.meetings) /\ m.id \in Possible
  BY <1>2, <1>3, RequestedMeans, PossibleMeans
<1>5. ms[k] \in Sought
  BY <1>1 DEF Searched
<1>6. PICK ws \in Seq(SlotRange) : ws = ms[k].windows
  BY <1>5 DEF Sought
<1>7. PICK l \in Nat : l = Len(ws)
  OBVIOUS
<1>8. ASSUME NEW i \in 0 .. l - 1
      PROVE  Window(ms, k, i) \in SlotRange /\ IsPosition(m, Window(ms, k, i))
  <2>1. i + 1 \in 1 .. l /\ Window(ms, k, i) = ws[i + 1]
    BY <1>6 DEF Window
  <2>2. ws[i + 1] \in SlotRange
    BY <1>7, <2>1
  <2>3. ws[i + 1] \in Positions(m)
    BY <1>3, <1>6, <1>7, <2>1, <2>2
  <2> QED
    BY <2>1, <2>2, <2>3 DEF Positions
<1>9. ASSUME NEW w \in SlotRange, IsPosition(m, w), w # LastSlot
      PROVE  \E i \in 0 .. l - 1 : Window(ms, k, i) = w
  <2>1. w \in Positions(m)
    BY <1>9 DEF Positions
  <2>2. PICK j \in 1 .. l : ws[j] = w
    BY <1>3, <1>6, <1>7, <1>9, <2>1
  <2>3. j - 1 \in 0 .. l - 1 /\ (j - 1) + 1 = j
    OBVIOUS
  <2>4. Window(ms, k, j - 1) = w
    BY <1>6, <2>2, <2>3 DEF Window
  <2> QED
    BY <2>3, <2>4
<1> QED
  BY <1>2, <1>3, <1>4, <1>6, <1>7, <1>8, <1>9

\* The meetings of the problem are the possible ones.
LEMMA SearchedIds ==
    ASSUME NEW ms, NEW at, Searched(ms, at), request \in Requests
    PROVE  /\ \A id \in Possible : \E k \in DOMAIN ms : ms[k].id = id
           /\ \A k, j \in DOMAIN ms : ms[k].id = ms[j].id => k = j
<1>1. DOMAIN ms = 1 .. Len(ms)
  BY DEF Searched
<1>2. ASSUME NEW id \in Possible PROVE \E k \in DOMAIN ms : ms[k].id = id
  <2>1. PICK m \in ToSet(request.meetings) : Positions(m) # {} /\ m.id = id
    BY DEF Possible
  <2>2. PICK n \in 1 .. Len(request.meetings) : m = request.meetings[n]
    BY RequestedMeans
  <2>3. PICK k \in 1 .. Len(ms) : at[k] = n
    BY <2>1, <2>2 DEF Searched
  <2>4. ms[k].id = id
    BY <2>1, <2>2, <2>3 DEF Searched
  <2> QED
    BY <1>1, <2>4
<1>3. ASSUME NEW k \in DOMAIN ms, NEW j \in DOMAIN ms, ms[k].id = ms[j].id PROVE k = j
  <2>1. /\ at[k] \in 1 .. Len(request.meetings) /\ at[j] \in 1 .. Len(request.meetings)
        /\ request.meetings[at[k]].id = request.meetings[at[j]].id
    BY <1>3, SearchedMeeting
  <2>2. at[k] = at[j]
    BY <2>1, RequestedMeans
  <2> QED
    BY <1>1, <2>2 DEF Searched
<1> QED
  BY <1>2, <1>3

\* A placement is one of the timetables that the request asks for.
LEMMA PlacementIsTimetable ==
    ASSUME NEW ms, NEW at, Searched(ms, at), request \in Requests, NEW g \in Placements(ms)
    PROVE  \E f \in Timetables : Timetable(ms, g) = {[key |-> f[id], id |-> id] : id \in Possible}
<1>1. ms \in Seq(Meeting)
  BY SearchedType
<1> DEFINE of(id) == CHOOSE k \in DOMAIN ms : ms[k].id = id
           Hour(id) == Window(ms, of(id), g[of(id)])
<1>2. PICK f : f = [id \in Possible |-> Hour(id)]
  OBVIOUS
<1>3. ASSUME NEW k \in DOMAIN ms
      PROVE  /\ ms[k].id \in Possible /\ f[ms[k].id] = Window(ms, k, g[k])
             /\ g[k] \in 0 .. Len(ms[k].windows) - 1
             /\ f[ms[k].id] \in SlotRange /\ IsPosition(request.meetings[at[k]], f[ms[k].id])
  <2>1. ms[k].id \in Possible
    BY SearchedMeeting
  <2>2. \A j \in DOMAIN ms : ms[j].id = ms[k].id => j = k
    BY SearchedIds
  <2>3. of(ms[k].id) = k
    BY <2>2
  <2>4. f[ms[k].id] = Window(ms, k, g[k])
    BY <1>2, <2>1, <2>3
  <2>5. g[k] \in 0 .. Len(ms[k].windows) - 1
    BY <1>1, PlacementType
  <2>6. Window(ms, k, g[k]) \in SlotRange /\ IsPosition(request.meetings[at[k]], Window(ms, k, g[k]))
    BY <2>5, SearchedMeeting
  <2> QED
    BY <2>1, <2>4, <2>5, <2>6
<1>4. \A id \in Possible : \E k \in DOMAIN ms : ms[k].id = id
  BY SearchedIds
<1>5. f \in [Possible -> SlotRange]
  <2>1. \A id \in Possible : f[id] \in SlotRange
    BY <1>3, <1>4
  <2> HIDE DEF Hour
  <2>2. \A id \in Possible : f[id] = Hour(id)
    BY <1>2
  <2> QED
    BY <1>2, <2>1, <2>2
<1>6. ASSUME NEW i \in Possible, NEW j \in Possible, i # j PROVE ~Overlap(f[i], f[j])
  <2>1. PICK k \in DOMAIN ms : ms[k].id = i
    BY <1>4
  <2>2. PICK l \in DOMAIN ms : ms[l].id = j
    BY <1>4
  <2>3. f[i] = Window(ms, k, g[k]) /\ f[j] = Window(ms, l, g[l])
    BY <1>3, <2>1, <2>2
  <2>4. k \in Nat /\ l \in Nat /\ k # l
    BY <1>1, <1>6, <2>1, <2>2
  <2>5. k < l => ~Overlap(f[i], f[j])
    BY <2>3 DEF Placements
  <2>6. l < k => ~Overlap(f[j], f[i])
    BY <2>3 DEF Placements
  <2>7. f[i] \in TimeRange /\ f[j] \in TimeRange
    BY <1>1, <1>3, <2>1, <2>2, <2>3, WindowType
  <2>8. Overlap(f[i], f[j]) <=> Overlap(f[j], f[i])
    BY <2>7, OverlapSymmetric
  <2> QED
    BY <2>4, <2>5, <2>6, <2>8
<1>7. ASSUME NEW m \in ToSet(request.meetings), m.id \in Possible PROVE IsPosition(m, f[m.id])
  <2>1. PICK n \in 1 .. Len(request.meetings) : m = request.meetings[n]
    BY RequestedMeans
  <2>2. PICK k \in DOMAIN ms : ms[k].id = m.id
    BY <1>4, <1>7
  <2>3. at[k] \in 1 .. Len(request.meetings) /\ request.meetings[at[k]].id = request.meetings[n].id
    BY <2>1, <2>2, SearchedMeeting
  <2>4. at[k] = n
    BY <2>1, <2>3, RequestedMeans
  <2> QED
    BY <1>3, <2>1, <2>2, <2>4
<1>8. f \in Timetables
  BY <1>5, <1>6, <1>7 DEF Timetables
<1>9. Timetable(ms, g) = {[key |-> f[id], id |-> id] : id \in Possible}
  <2>1. Timetable(ms, g) = {[key |-> f[ms[k].id], id |-> ms[k].id] : k \in DOMAIN ms}
    BY <1>3 DEF Timetable
  <2> QED
    BY <1>3, <1>4, <2>1
<1> QED
  BY <1>8, <1>9

\* A timetable that does without the last slot is a placement.
LEMMA TimetableIsPlacement ==
    ASSUME NEW ms, NEW at, Searched(ms, at), request \in Requests, NEW f \in Timetables,
           \A id \in Possible : f[id] # LastSlot
    PROVE  Placements(ms) # {}
<1>1. ms \in Seq(Meeting)
  BY SearchedType
<1>2. /\ f \in [Possible -> SlotRange]
      /\ \A i, j \in Possible : i # j => ~Overlap(f[i], f[j])
      /\ \A m \in ToSet(request.meetings) : m.id \in Possible => IsPosition(m, f[m.id])
  BY DEF Timetables
<1> DEFINE Chooses(k, i) == Window(ms, k, i) = f[ms[k].id]
           g == [k \in DOMAIN ms |-> CHOOSE i \in 0 .. Len(ms[k].windows) - 1 : Chooses(k, i)]
<1>3. ASSUME NEW k \in DOMAIN ms
      PROVE  g[k] \in 0 .. Len(ms[k].windows) - 1 /\ Window(ms, k, g[k]) = f[ms[k].id]
  <2>1. ms[k].id \in Possible /\ ms[k].id = request.meetings[at[k]].id
    BY SearchedMeeting
  <2>2. f[ms[k].id] \in SlotRange /\ IsPosition(request.meetings[at[k]], f[ms[k].id])
    BY <1>2, <2>1, SearchedMeeting
  <2>3. \E i \in 0 .. Len(ms[k].windows) - 1 : Chooses(k, i)
    BY <2>1, <2>2, SearchedMeeting
  <2> HIDE DEF Chooses
  <2>4. g[k] \in 0 .. Len(ms[k].windows) - 1 /\ Chooses(k, g[k])
    BY <2>3
  <2> QED
    BY <2>4 DEF Chooses
<1>4. g = [k \in DOMAIN ms |-> g[k]]
  OBVIOUS
<1> HIDE DEF g
<1>5. ASSUME NEW m \in DOMAIN ms, NEW n \in DOMAIN ms, m < n
      PROVE  ~Overlap(Window(ms, m, g[m]), Window(ms, n, g[n]))
  <2>1. m \in Nat /\ n \in Nat /\ m # n
    BY <1>1, <1>5
  <2>2. ms[m].id # ms[n].id
    BY <2>1, SearchedIds
  <2>3. ms[m].id \in Possible /\ ms[n].id \in Possible
    BY SearchedMeeting
  <2> QED
    BY <1>2, <1>3, <2>2, <2>3
<1>6. g \in Placements(ms)
  BY <1>1, <1>3, <1>4, <1>5, PlacementIntro
<1> QED
  BY <1>6

\* Sorting gives the search each meeting that has a position, once.
LEMMA SortedIsSearched ==
    ASSUME request \in Requests, ValidRequest, schedulable = MeetingAvailabilityInfo,
           NEW o \in SortedOrders, NEW ms,
           ms = [n \in DOMAIN schedulable |->
                    [id |-> schedulable[o[n]].id,
                     windows |-> Windowed(schedulable[o[n]].availability, schedulable[o[n]].duration)]]
    PROVE  \E at : Searched(ms, at)
<1>1. PICK infos : infos = schedulable
  OBVIOUS
<1>2. PICK from : Picked(infos, from)
  BY <1>1, InfosMean
<1>3. PICK n \in Nat : n = Len(infos) /\ DOMAIN infos = 1 .. n
  BY <1>2 DEF Picked
<1>4. o \in [1 .. n -> 1 .. n] /\ \A k \in 1 .. n : \E j \in 1 .. n : o[j] = k
  BY <1>1, <1>3 DEF SortedOrders, Bijection, Surjection
<1>5. \A j, k \in 1 .. n : o[j] = o[k] => j = k
  BY <1>1, <1>3 DEF SortedOrders, Bijection, Injection, IsInjective
<1>6. PICK at : at = [k \in 1 .. n |-> from[o[k]]]
  OBVIOUS
<1>7. ASSUME NEW k \in 1 .. n
      PROVE  /\ at[k] \in 1 .. Len(request.meetings)
             /\ ms[k] = [id |-> request.meetings[at[k]].id,
                         windows |-> Windowed(AvailabilityOf(request.meetings[at[k]]), request.meetings[at[k]].duration)]
             /\ Positions(request.meetings[at[k]]) # {}
  <2>1. o[k] \in 1 .. n /\ at[k] = from[o[k]]
    BY <1>4, <1>6
  <2>2. /\ from[o[k]] \in 1 .. Len(request.meetings) /\ Positions(request.meetings[from[o[k]]]) # {}
        /\ infos[o[k]] = Described(request.meetings[from[o[k]]])
    BY <1>1, <1>2, <1>3, <2>1 DEF Picked
  <2>3. ms[k] = [id |-> infos[o[k]].id,
                 windows |-> Windowed(infos[o[k]].availability, infos[o[k]].duration)]
    BY <1>1, <1>3
  <2> QED
    BY <2>1, <2>2, <2>3 DEF Described
<1>8. ASSUME NEW k \in 1 .. n
      PROVE  /\ ms[k] \in Sought
             /\ ms[k].id = request.meetings[at[k]].id
             /\ \A w \in SlotRange :
                   (\E i \in 1 .. Len(ms[k].windows) : ms[k].windows[i] = w)
                      <=> w \in Positions(request.meetings[at[k]]) /\ w # LastSlot
  <2>1. PICK m : m = request.meetings[at[k]]
    OBVIOUS
  <2>2. PICK ws : ws = Windowed(AvailabilityOf(m), m.duration)
    OBVIOUS
  <2>3. ms[k] = [id |-> m.id, windows |-> ws]
    BY <1>7, <2>1, <2>2
  <2>4. m.id \in Ids
    BY <1>1, <1>7, <2>1, MeetingMeans
  <2>5. /\ ws \in Seq(SlotRange)
        /\ \A w \in SlotRange :
              (\E i \in 1 .. Len(ws) : ws[i] = w) <=> w \in Positions(m) /\ w # LastSlot
    <3>1. PICK kept : kept = AvailabilityOf(m)
      OBVIOUS
    <3>3. PICK h \in 1 .. Len(request.meetings) : m = request.meetings[h]
      BY <1>1, <1>7, <2>1
    <3>2. /\ Windowed(kept, m.duration) \in Seq(SlotRange)
          /\ \A w \in SlotRange :
                (\E i \in 1 .. Len(Windowed(kept, m.duration)) : Windowed(kept, m.duration)[i] = w)
                   <=> w \in Positions(m) /\ w # LastSlot
      BY <3>1, <3>3, AvailabilityOfMeans
    <3> QED
      BY <2>2, <3>1, <3>2
  <2>6. ms[k] \in Sought
    BY <2>3, <2>4, <2>5 DEF Sought
  <2>7. ms[k].id = m.id /\ ms[k].windows = ws
    BY <2>3
  <2> QED
    BY <2>1, <2>5, <2>6, <2>7
<1>9. DOMAIN ms = 1 .. n /\ ms \in [1 .. n -> Sought]
  <2>1. DOMAIN ms = 1 .. n
    BY <1>1, <1>3
  <2> DEFINE entry(k) == [id |-> schedulable[o[k]].id,
                          windows |-> Windowed(schedulable[o[k]].availability, schedulable[o[k]].duration)]
  <2>2. ms = [k \in 1 .. n |-> entry(k)]
    BY <1>1, <1>3
  <2> HIDE DEF entry
  <2>3. \A k \in 1 .. n : entry(k) \in Sought
    BY <1>8, <2>2
  <2> QED
    BY <2>1, <2>2, <2>3
<1>10. ms \in Seq(Sought) /\ Len(ms) = n
  BY <1>9
<1>11. at \in [1 .. n -> 1 .. Len(request.meetings)]
  BY <1>6, <1>7
<1>12. ASSUME NEW k \in 1 .. n, NEW j \in 1 .. n, at[k] = at[j] PROVE k = j
  <2>1. o[k] \in 1 .. n /\ o[j] \in 1 .. n /\ from[o[k]] = from[o[j]]
    BY <1>4, <1>6, <1>12
  <2>2. o[k] = o[j]
    BY <1>2, <1>3, <2>1 DEF Picked
  <2> QED
    BY <1>5, <2>2
<1>13. ASSUME NEW h \in 1 .. Len(request.meetings), Positions(request.meetings[h]) # {} PROVE \E k \in 1 .. n : at[k] = h
  <2>1. PICK j \in 1 .. n : from[j] = h
    BY <1>1, <1>2, <1>3, <1>13 DEF Picked
  <2>2. PICK k \in 1 .. n : o[k] = j
    BY <1>4
  <2> QED
    BY <1>6, <2>1, <2>2
<1>14. Searched(ms, at)
  <2>1. Len(ms) = n
    BY <1>10
  <2>2. \A k \in 1 .. Len(ms) :
           /\ ms[k].id = request.meetings[at[k]].id
           /\ Positions(request.meetings[at[k]]) # {}
           /\ \A w \in SlotRange :
                 (\E i \in 1 .. Len(ms[k].windows) : ms[k].windows[i] = w)
                    <=> w \in Positions(request.meetings[at[k]]) /\ w # LastSlot
    BY <1>7, <1>8, <2>1
  <2>3. \A k, j \in 1 .. Len(ms) : at[k] = at[j] => k = j
    BY <1>12, <2>1
  <2>4. \A h \in 1 .. Len(request.meetings) :
           Positions(request.meetings[h]) # {} => \E k \in 1 .. Len(ms) : at[k] = h
    BY <1>13, <2>1
  <2>5. at \in [1 .. Len(ms) -> 1 .. Len(request.meetings)]
    BY <1>11, <2>1
  <2> QED
    BY <1>10, <2>2, <2>3, <2>4, <2>5 DEF Searched
<1> QED
  BY <1>14
-----------------------------------------------------------------------------
(* The inductive invariant of a request.                                   *)

\* So it is at the next moment.
LEMMA BeginInvThen ==
    (/\ Begin
     /\ meetings \in Seq(Meeting) /\ len \in Nat /\ Len(meetings) <= len /\ limit \in Limits
     => IInv)'
BY BeginInv, PTL

\* What is said of the request does not change while it is answered.
LEMMA SameRequest ==
    ASSUME UNCHANGED request
    PROVE  /\ ValidRequest' <=> ValidRequest
           /\ MeetingAvailabilityInfo' = MeetingAvailabilityInfo
           /\ \A ms, at : Searched(ms, at)' <=> Searched(ms, at)
<1>1. ValidRequest' <=> ValidRequest
  BY DEF ValidRequest
<1>2. \A m : AvailabilityOf(m)' = AvailabilityOf(m)
  BY DEF AvailabilityOf
<1>3. \A m : InfoOf(m)' = InfoOf(m)
  BY <1>2 DEF InfoOf
<1>4. MeetingAvailabilityInfo' = MeetingAvailabilityInfo
  BY <1>3 DEF MeetingAvailabilityInfo
<1>5. \A m : Positions(m)' = Positions(m)
  BY DEF Positions, IsPosition, FreeSlots
<1>6. ASSUME NEW ms, NEW at PROVE Searched(ms, at)' <=> Searched(ms, at)
  BY <1>5 DEF Searched
<1> QED
  BY <1>1, <1>4, <1>6

\* The invariant holds when a request arrives.
LEMMA RequestInitInv == RequestInit => RequestIInv
<1> SUFFICES ASSUME RequestInit PROVE RequestIInv
  OBVIOUS
<1>1. request \in Requests /\ request.count \in Limits
  BY RequestsAssumption DEF RequestInit
<1>2. /\ meetings = <<>> /\ len = 0 /\ limit = request.count /\ Begin
      /\ stage = "validate" /\ schedulable = <<>> /\ response = NoResponse
  BY DEF RequestInit
<1>3. meetings \in Seq(Meeting) /\ len \in Nat /\ Len(meetings) <= len
  BY <1>2
<1>4. IInv
  BY <1>1, <1>2, <1>3, BeginInv
<1>5. Waiting
  BY <1>2 DEF Waiting
<1>6. ~shouldStop /\ result.kind = "None"
  BY <1>2 DEF Begin, NoOutcome
<1> QED
  BY <1>1, <1>2, <1>4, <1>5, <1>6 DEF RequestIInv

\* A stage of setup leaves the search alone.
LEMMA SearchUntouched ==
    ASSUME RequestIInv, UNCHANGED <<request, vars>>
    PROVE  /\ request' \in Requests
           /\ IInv' /\ (shouldStop' => pc' = "done") /\ result'.kind # "Interrupted"
           /\ result'.kind = "NoSolution" => nth' = 0
           /\ Waiting => Waiting'
<1>1. IInv'
  BY NextInv DEF RequestIInv
<1>2. Waiting => Waiting'
  BY DEF Waiting, Begin, vars
<1> QED
  BY <1>1, <1>2 DEF RequestIInv, vars

\* Validation.
LEMMA ValidateInv ==
    ASSUME RequestIInv, Validate
    PROVE  RequestIInv'
<1>1. /\ UNCHANGED <<request, vars>> /\ schedulable' = schedulable /\ stage = "validate"
      /\ schedulable = <<>> /\ Waiting /\ response = NoResponse
  BY DEF RequestIInv, Validate
<1>2. /\ request' \in Requests
      /\ IInv' /\ (shouldStop' => pc' = "done") /\ result'.kind # "Interrupted"
      /\ result'.kind = "NoSolution" => nth' = 0
      /\ Waiting'
  BY <1>1, SearchUntouched
<1>3. ValidRequest' <=> ValidRequest
  BY <1>1, SameRequest
<1>4. CASE ValidRequest
  <2>1. stage' = "availability" /\ response' = NoResponse
    BY <1>1, <1>4 DEF Validate
  <2> QED
    BY <1>1, <1>2, <1>3, <1>4, <2>1 DEF RequestIInv
<1>5. CASE ~ValidRequest
  <2>1. stage' = "done" /\ response' = [kind |-> "InvalidData"]
    BY <1>5 DEF Validate
  <2>2. Settled'
    BY <1>1, <1>2, <1>3, <1>5, <2>1 DEF Settled
  <2> QED
    BY <1>2, <2>1, <2>2 DEF RequestIInv
<1> QED
  BY <1>4, <1>5

\* The list of who can be held when.
LEMMA ListAvailabilityInv ==
    ASSUME RequestIInv, ListAvailability
    PROVE  RequestIInv'
<1>1. /\ UNCHANGED <<request, vars>> /\ stage = "availability" /\ stage' = "pigeons"
      /\ schedulable' = MeetingAvailabilityInfo
      /\ ValidRequest /\ Waiting /\ response' = NoResponse
  BY DEF RequestIInv, ListAvailability
<1>2. /\ request' \in Requests
      /\ IInv' /\ (shouldStop' => pc' = "done") /\ result'.kind # "Interrupted"
      /\ result'.kind = "NoSolution" => nth' = 0
      /\ Waiting'
  BY <1>1, SearchUntouched
<1>3. (ValidRequest' <=> ValidRequest) /\ MeetingAvailabilityInfo' = MeetingAvailabilityInfo
  BY <1>1, SameRequest
<1>4. Listed'
  BY <1>1, <1>3 DEF Listed
<1> QED
  BY <1>1, <1>2, <1>4 DEF RequestIInv

\* What is listed stays listed.
LEMMA ListedStays ==
    ASSUME UNCHANGED <<request, schedulable>>, Listed
    PROVE  /\ Listed'
           /\ PigeonholeErrors(schedulable)' = PigeonholeErrors(schedulable)
           /\ Passed => Passed'
<1>1. (ValidRequest' <=> ValidRequest) /\ MeetingAvailabilityInfo' = MeetingAvailabilityInfo
  BY SameRequest
<1>2. Listed'
  BY <1>1 DEF Listed
<1>3. PigeonholeErrors(schedulable)' = PigeonholeErrors(schedulable)
  OBVIOUS
<1> QED
  BY <1>2, <1>3 DEF Passed

\* The pigeonhole check refuses.
LEMMA RefusePigeonsInv ==
    ASSUME RequestIInv, RefusePigeons
    PROVE  RequestIInv'
<1>1. /\ UNCHANGED <<request, vars>> /\ schedulable' = schedulable
      /\ stage' = "done" /\ response' \in PigeonholeErrors(schedulable)
      /\ Listed /\ Waiting
  BY DEF RequestIInv, RefusePigeons
<1>2. /\ request' \in Requests
      /\ IInv' /\ (shouldStop' => pc' = "done") /\ result'.kind # "Interrupted"
      /\ result'.kind = "NoSolution" => nth' = 0
      /\ Waiting'
  BY <1>1, SearchUntouched
<1>3. Listed' /\ PigeonholeErrors(schedulable)' = PigeonholeErrors(schedulable)
  BY <1>1, ListedStays
<1>4. Settled'
  BY <1>1, <1>2, <1>3 DEF Settled
<1> QED
  BY <1>1, <1>2, <1>4 DEF RequestIInv

\* The pigeonhole check passes.
LEMMA PassSetupInv ==
    ASSUME RequestIInv, PassSetup
    PROVE  RequestIInv'
<1>1. /\ UNCHANGED <<request, vars>> /\ schedulable' = schedulable
      /\ PigeonholeErrors(schedulable) = {}
      /\ Listed /\ Waiting /\ response = NoResponse
  BY DEF RequestIInv, PassSetup
<1>2. /\ request' \in Requests
      /\ IInv' /\ (shouldStop' => pc' = "done") /\ result'.kind # "Interrupted"
      /\ result'.kind = "NoSolution" => nth' = 0
      /\ Waiting'
  BY <1>1, SearchUntouched
<1>3. Passed'
  BY <1>1, ListedStays DEF Passed
<1>4. \/ stage' = "done" /\ response' = [kind |-> "Success"]
      \/ stage' = "sort" /\ response' = NoResponse
  BY <1>1 DEF PassSetup
<1>5. CASE stage' = "done" /\ response' = [kind |-> "Success"]
  <2>1. Settled'
    BY <1>2, <1>3, <1>5 DEF Settled
  <2> QED
    BY <1>2, <1>5, <2>1 DEF RequestIInv
<1>6. CASE stage' = "sort" /\ response' = NoResponse
  BY <1>2, <1>3, <1>6 DEF RequestIInv
<1> QED
  BY <1>4, <1>5, <1>6

\* The search gets its problem.
LEMMA SortInv ==
    ASSUME RequestIInv, Sort
    PROVE  RequestIInv'
<1>1. /\ request \in Requests /\ request' = request /\ schedulable' = schedulable
      /\ stage' = "search" /\ response' = NoResponse
      /\ Passed /\ Waiting /\ IInv /\ (shouldStop => pc = "done") /\ result.kind # "Interrupted"
      /\ result.kind = "NoSolution" => nth = 0
  BY DEF RequestIInv, Sort
<1>2. /\ len' = Len(request.meetings)
      /\ state' = [n \in 1 .. Len(request.meetings) |-> 0]
      /\ UNCHANGED <<limit, nth, countIter, solution, lastKey, pc, result, shouldStop>>
  BY DEF Sort
<1>3. Listed /\ ValidRequest /\ schedulable = MeetingAvailabilityInfo
  BY <1>1 DEF Passed, Listed
<1>0. PICK ms : ms = meetings'
  OBVIOUS
<1>4. PICK o \in SortedOrders :
         ms = [n \in DOMAIN schedulable |->
                    [id |-> schedulable[o[n]].id,
                     windows |-> Windowed(schedulable[o[n]].availability, schedulable[o[n]].duration)]]
  BY <1>0 DEF Sort
<1>5. PICK at : Searched(ms, at)
  BY <1>1, <1>3, <1>4, SortedIsSearched
<1>6. ms \in Seq(Meeting) /\ Len(ms) \in Nat /\ Len(ms) <= Len(request.meetings)
  BY <1>1, <1>5, SearchedType
<1>7. Begin'
  BY <1>1, <1>2 DEF Waiting, Begin
<1>8. limit' \in Limits'
  BY <1>1, <1>2 DEF IInv, TypeOK
<1>9. Len(request.meetings) \in Nat
  BY <1>1, RequestedMeans
<1>10. meetings' \in Seq(Meeting)' /\ len' \in Nat /\ Len(meetings') <= len'
  BY <1>0, <1>2, <1>6, <1>9
<1>11. IInv'
  BY <1>7, <1>8, <1>10, BeginInvThen
<1>12. Passed'
  BY <1>1, <1>3, ListedStays
<1>13. Searched(meetings, at)'
  <2>1. \A m : Positions(m)' = Positions(m)
    BY <1>1 DEF Positions, IsPosition, FreeSlots
  <2>2. \A k : request.meetings[k] = request'.meetings[k]
    BY <1>1
  <2>3. Searched(meetings', at)
    BY <1>0, <1>5
  <2> QED
    BY <1>1, <2>1, <2>3 DEF Searched
<1>14. Underway'
  <2>1. at \in [DOMAIN meetings' -> DOMAIN request.meetings]
    <3>1. DOMAIN ms = 1 .. Len(ms) /\ at \in [1 .. Len(ms) -> 1 .. Len(request.meetings)]
      BY <1>5 DEF Searched
    <3> QED
      BY <1>0, <1>1, <3>1, RequestedMeans
  <2> QED
    BY <1>1, <1>2, <1>13, <2>1 DEF Underway
<1> QED
  BY <1>1, <1>2, <1>11, <1>12, <1>14 DEF RequestIInv

\* The search's problem stays what it is.
LEMMA UnderwayStays ==
    ASSUME UNCHANGED <<request, meetings, len>>, Underway
    PROVE  Underway'
<1>1. PICK at \in [DOMAIN meetings -> DOMAIN request.meetings] : Searched(meetings, at)
  BY DEF Underway
<1>2. \A m : Positions(m)' = Positions(m)
  BY DEF Positions, IsPosition, FreeSlots
<1>3. Searched(meetings, at)'
  <2>1. request' = request /\ meetings' = meetings
    OBVIOUS
  <2>2. Searched(meetings', at)
    BY <1>1, <2>1
  <2> QED
    BY <1>2, <2>1, <2>2 DEF Searched
<1> QED
  BY <1>1, <1>3 DEF Underway

\* A step of the search, which nobody else stops.
LEMMA SearchStepInv ==
    ASSUME RequestIInv, SearchStep
    PROVE  RequestIInv'
<1>1. /\ request \in Requests /\ UNCHANGED <<request, stage, schedulable, response>>
      /\ stage = "search" /\ response = NoResponse /\ Step
      /\ Passed /\ Underway /\ IInv /\ (shouldStop => pc = "done") /\ result.kind # "Interrupted"
      /\ result.kind = "NoSolution" => nth = 0
  BY DEF RequestIInv, SearchStep
<1>2. IInv'
  BY <1>1, NextInv DEF Next
<1>3. UNCHANGED <<meetings, len>>
  BY <1>1 DEF Step, input, ObserveStop, PassFlag, GiveUp, BeginPass, Place, Backtrack, ReportOk,
              ReportNoSolution
<1>4. ~ObserveStop
  BY <1>1 DEF ObserveStop
<1>5. shouldStop' => pc' = "done"
  <2>1. CASE GiveUp \/ ReportOk \/ ReportNoSolution
    BY <2>1 DEF GiveUp, ReportOk, ReportNoSolution
  <2>2. CASE PassFlag \/ BeginPass \/ Place \/ Backtrack
    <3>1. pc # "done" /\ shouldStop' = shouldStop
      BY <2>2 DEF PassFlag, BeginPass, Place, Backtrack
    <3> QED
      BY <1>1, <3>1
  <2> QED
    BY <1>1, <1>4, <2>1, <2>2 DEF Step
<1>6. result'.kind # "Interrupted"
  <2>1. CASE GiveUp
    BY <2>1 DEF GiveUp
  <2>2. CASE PassFlag \/ BeginPass \/ Place \/ Backtrack
    BY <1>1, <2>2 DEF PassFlag, BeginPass, Place, Backtrack
  <2>3. CASE ReportOk
    <3>1. result' = [kind |-> "Ok", count |-> countIter, results |-> solution, indices |-> state]
      BY <2>3 DEF ReportOk
    <3> QED
      BY <3>1
  <2>4. CASE ReportNoSolution
    BY <2>4 DEF ReportNoSolution
  <2> QED
    BY <1>1, <1>4, <2>1, <2>2, <2>3, <2>4 DEF Step
<1>7. result'.kind = "NoSolution" => nth' = 0
  <2>1. CASE GiveUp
    BY <2>1 DEF GiveUp
  <2>2. CASE PassFlag \/ BeginPass \/ Place \/ Backtrack
    <3>1. pc \in {"head", "looked", "pass"} /\ result' = result
      BY <2>2 DEF PassFlag, BeginPass, Place, Backtrack
    <3>2. result'.kind = "None"
      BY <1>1, <3>1 DEF IInv, Bookkeeping
    <3> QED
      BY <3>2
  <2>3. CASE ReportOk
    <3>1. result' = [kind |-> "Ok", count |-> countIter, results |-> solution, indices |-> state]
      BY <2>3 DEF ReportOk
    <3> QED
      BY <3>1
  <2>4. CASE ReportNoSolution
    <3>1. pc = "exhausted" /\ nth' = nth
      BY <2>4 DEF ReportNoSolution
    <3> QED
      BY <1>1, <3>1 DEF IInv, Bookkeeping
  <2> QED
    BY <1>1, <1>4, <2>1, <2>2, <2>3, <2>4 DEF Step
<1>8. Passed' /\ Underway'
  BY <1>1, <1>3, ListedStays, UnderwayStays DEF Passed
<1> QED
  BY <1>1, <1>2, <1>5, <1>6, <1>7, <1>8 DEF RequestIInv

\* The search's result goes out.
LEMMA RespondInv ==
    ASSUME RequestIInv, Respond
    PROVE  RequestIInv'
<1>1. /\ UNCHANGED <<request, vars>> /\ schedulable' = schedulable
      /\ stage' = "done" /\ response' = Answer /\ pc = "done"
      /\ Passed /\ Underway
  BY DEF RequestIInv, Respond
<1>2. /\ request' \in Requests
      /\ IInv' /\ (shouldStop' => pc' = "done") /\ result'.kind # "Interrupted"
      /\ result'.kind = "NoSolution" => nth' = 0
  BY <1>1, SearchUntouched
<1>3. UNCHANGED <<meetings, len, pc, result>>
  BY <1>1 DEF vars
<1>4. Passed' /\ Underway'
  BY <1>1, <1>3, ListedStays, UnderwayStays DEF Passed
<1>5. Answer' = Answer
  BY <1>1, <1>3 DEF Answer, Failed
<1>6. Settled'
  BY <1>1, <1>3, <1>4, <1>5 DEF Settled
<1> QED
  BY <1>1, <1>2, <1>6 DEF RequestIInv

\* Nothing happens.
LEMMA RequestStutter ==
    ASSUME RequestIInv, UNCHANGED requestVars
    PROVE  RequestIInv'
<1>1. UNCHANGED <<request, stage, schedulable, response, vars>>
  BY DEF requestVars
<1>2. UNCHANGED <<meetings, len, pc, result>>
  BY <1>1 DEF vars
<1>3. /\ request' \in Requests
      /\ IInv' /\ (shouldStop' => pc' = "done") /\ result'.kind # "Interrupted"
      /\ result'.kind = "NoSolution" => nth' = 0
      /\ Waiting => Waiting'
  BY <1>1, SearchUntouched
<1>4. ValidRequest' <=> ValidRequest
  BY <1>1, SameRequest
<1>5. Listed => Listed' /\ PigeonholeErrors(schedulable)' = PigeonholeErrors(schedulable)
  BY <1>1, ListedStays
<1>6. (Passed => Passed') /\ (Underway => Underway')
  BY <1>1, <1>2, ListedStays, UnderwayStays DEF Passed
<1>7. Answer' = Answer
  BY <1>1, <1>2 DEF Answer, Failed
<1>8. Settled => Settled'
  BY <1>1, <1>2, <1>3, <1>4, <1>5, <1>6, <1>7 DEF Settled
<1> QED
  BY <1>1, <1>3, <1>4, <1>5, <1>6, <1>8 DEF RequestIInv

\* Every step keeps the invariant.
LEMMA RequestNextInv == RequestIInv /\ [RequestNext]_requestVars => RequestIInv'
BY ValidateInv, ListAvailabilityInv, RefusePigeonsInv, PassSetupInv, SortInv, SearchStepInv,
   RespondInv, RequestStutter DEF RequestNext

\* The invariant holds in every state of every request.
THEOREM RequestInductiveInvariant == RequestSpec => []RequestIInv
BY RequestInitInv, RequestNextInv, PTL DEF RequestSpec

-----------------------------------------------------------------------------
(* What the responses are worth.                                           *)

\* The kinds of response, by what they rest on.
LEMMA SettledMeans ==
    ASSUME RequestIInv, response.kind # "None"
    PROVE  /\ Settled /\ stage = "done"
           /\ response.kind \in {"Ok", "NoSolution"} =>
                 Passed /\ Underway /\ response = Answer /\ result.kind = response.kind
           /\ response.kind = "PigeonholeError" => response \in PigeonholeErrors(schedulable) /\ Listed
           /\ response.kind \in {"Success", "InvalidData", "PigeonholeError", "Ok", "NoSolution",
                                 "NoSolutionWithinIteration"}
<1>1. stage = "done" /\ Settled
  BY DEF RequestIInv, NoResponse
<1>2. ASSUME response \in PigeonholeErrors(schedulable) PROVE response.kind = "PigeonholeError"
  BY <1>2 DEF PigeonholeErrors, TooMany
<1>3. ASSUME response = Answer, pc = "done"
      PROVE  /\ result.kind = response.kind
             /\ response.kind \in {"Ok", "NoSolution", "NoSolutionWithinIteration"}
  <2>1. result.kind = response.kind
    BY <1>3 DEF Answer
  <2>2. result \in Outcome /\ result.kind # "None" /\ result.kind # "Interrupted"
    BY <1>3 DEF RequestIInv, IInv, TypeOK, Bookkeeping
  <2>3. result.kind \in {"Ok", "NoSolution", "NoSolutionWithinIteration"}
    BY <2>2 DEF Outcome, NoOutcome
  <2> QED
    BY <2>1, <2>3
<1> QED
  BY <1>1, <1>2, <1>3 DEF Settled

\* A timetable that is sent is one that was asked for.
LEMMA SentTimetable ==
    ASSUME RequestIInv, response.kind = "Ok"
    PROVE  /\ \E f \in Timetables : response.results = {[key |-> f[id], id |-> id] : id \in Possible}
           /\ response.failed = {m.id : m \in ToSet(request.meetings)} \ {e.id : e \in response.results}
<1>1. Underway /\ response = Answer /\ result.kind = "Ok" /\ request \in Requests
  BY SettledMeans DEF RequestIInv
<1>2. response.results = result.results /\ response.failed = Failed
  BY <1>1 DEF Answer
<1>3. nth = Len(meetings) + 1 /\ result.results = solution
  BY <1>1 DEF RequestIInv, IInv, Bookkeeping
<1>4. PICK g \in Placements(meetings) : solution = Timetable(meetings, g)
  BY <1>3, CompletePlacement DEF RequestIInv
<1>5. PICK at : Searched(meetings, at)
  BY <1>1 DEF Underway
<1>6. \E f \in Timetables : Timetable(meetings, g) = {[key |-> f[id], id |-> id] : id \in Possible}
  BY <1>1, <1>5, PlacementIsTimetable
<1>7. Failed = {m.id : m \in ToSet(request.meetings)} \ {e.id : e \in result.results}
  BY DEF Failed
<1> QED
  BY <1>2, <1>3, <1>4, <1>6, <1>7

\* The timetable in a response is one of those the request asks for, whatever
\* the calendar, the meetings and the order in which equal ones are searched.
THEOREM TimetablesAreSound == RequestSpec => []TimetableSound
<1>1. RequestIInv => TimetableSound
  BY SentTimetable DEF TimetableSound
<1> QED
  BY <1>1, RequestInductiveInvariant, PTL

\* The types, of the search's variables those that the handover decides.
LEMMA RequestTypes == RequestIInv => RequestTypeOK
<1> SUFFICES ASSUME RequestIInv PROVE RequestTypeOK
  OBVIOUS
<1>1. /\ request \in Requests
      /\ stage \in {"validate", "availability", "pigeons", "sort", "search", "done"}
      /\ TypeOK
  BY DEF RequestIInv, IInv
<1>2. schedulable = <<>> \/ Listed
  BY <1>1 DEF RequestIInv, Settled, Passed
<1>3. schedulable \in Seq(Info)
  <2>1. CASE schedulable = <<>>
    BY <2>1
  <2>2. CASE Listed
    BY <1>1, <2>2, InfosMean DEF Listed, Picked
  <2> QED
    BY <1>2, <2>1, <2>2
<1>4. Waiting \/ Underway
  BY <1>1 DEF RequestIInv, Settled
<1>5. meetings \in Seq(Sought)
  <2>1. CASE Waiting
    BY <2>1 DEF Waiting
  <2>2. CASE Underway
    BY <2>2 DEF Underway, Searched
  <2> QED
    BY <1>4, <2>1, <2>2
<1>6. len = Len(state)
  BY <1>1 DEF TypeOK
<1>7. nth \in 0 .. Len(meetings) + 1
  BY <1>1 DEF TypeOK
<1>8. response.kind \in {"None", "Success", "InvalidData", "PigeonholeError", "Ok",
                         "NoSolution", "NoSolutionWithinIteration"}
  BY SettledMeans
<1> QED
  BY <1>1, <1>3, <1>5, <1>6, <1>7, <1>8 DEF RequestTypeOK

\* Each meeting is in the timetable or among the failed ones, which are those
\* that have no position.
THEOREM NoMeetingIsLost == RequestSpec => []EveryMeetingAccountedFor
<1>1. ASSUME RequestIInv, response.kind = "Ok"
      PROVE  /\ response.failed = {m.id : m \in ToSet(request.meetings)} \ Possible
             /\ {e.id : e \in response.results} = Possible
  <2>1. PICK f \in Timetables : response.results = {[key |-> f[id], id |-> id] : id \in Possible}
    BY <1>1, SentTimetable
  <2>2. {e.id : e \in response.results} = Possible
    <3>1. ASSUME NEW e \in response.results PROVE e.id \in Possible
      BY <2>1
    <3>2. ASSUME NEW id \in Possible PROVE \E e \in response.results : e.id = id
      <4>1. PICK e : e = [key |-> f[id], id |-> id]
        OBVIOUS
      <4>2. e \in response.results
        BY <2>1, <4>1
      <4>3. e.id = id
        BY <4>1
      <4> QED
        BY <4>2, <4>3
    <3> QED
      BY <3>1, <3>2
  <2> QED
    BY <1>1, <2>2, SentTimetable
<1>2. RequestIInv => EveryMeetingAccountedFor
  BY <1>1, RequestTypes DEF EveryMeetingAccountedFor
<1> QED
  BY <1>2, RequestInductiveInvariant, PTL

\* The pigeonhole check refuses the requests that ask for more slots than there
\* are, and no others, wherever the count overflows.
THEOREM PigeonholeIsExact == RequestSpec => []PigeonholeExact
<1>1. RequestIInv => PigeonholeExact
  <2> SUFFICES ASSUME RequestIInv, stage \in {"sort", "done"}, ValidRequest
               PROVE  response.kind = "PigeonholeError" <=> Demand > Supply
    BY DEF PigeonholeExact
  <2>1. request \in Requests
    BY DEF RequestIInv
  <2>2. schedulable = MeetingAvailabilityInfo
    BY DEF RequestIInv, Settled, Passed, Listed
  <2>3. PigeonholeErrors(schedulable) # {} <=> Demand > Supply
    BY <2>1, <2>2, PigeonholeMeans
  <2>4. CASE stage = "sort"
    BY <2>3, <2>4 DEF RequestIInv, Passed, NoResponse
  <2>5. CASE response \in PigeonholeErrors(schedulable)
    <3>1. response.kind = "PigeonholeError"
      BY <2>5 DEF PigeonholeErrors, TooMany
    <3> QED
      BY <2>3, <2>5, <3>1
  <2>6. CASE stage = "done" /\ response \notin PigeonholeErrors(schedulable)
    <3>1. Settled
      BY <2>6 DEF RequestIInv
    <3>2. Passed
      BY <2>6, <3>1 DEF Settled
    <3>3. response.kind # "None"
      BY <2>6, <3>1 DEF Settled, Answer, RequestIInv, IInv, Bookkeeping
    <3> QED
      BY <2>3, <2>6, <3>2, <3>3, SettledMeans DEF Passed
  <2> QED
    BY <2>4, <2>5, <2>6
<1> QED
  BY <1>1, RequestInductiveInvariant, PTL

\* A request is refused for want of a timetable only when it has none, but for
\* those that need the last slot.
THEOREM RefusalsAreSound == RequestSpec => []RefusalSound
<1>1. RequestIInv => RefusalSound
  <2> SUFFICES ASSUME RequestIInv, response.kind \in {"PigeonholeError", "NoSolution"},
                      NEW f \in Timetables, \A id \in Possible : f[id] # LastSlot
               PROVE  FALSE
    BY DEF RefusalSound
  <2>1. request \in Requests
    BY DEF RequestIInv
  <2>2. CASE response.kind = "PigeonholeError"
    <3>1. PigeonholeErrors(schedulable) # {} /\ ValidRequest /\ schedulable = MeetingAvailabilityInfo
      BY <2>2, SettledMeans DEF Listed
    <3>2. Demand > Supply
      BY <2>1, <3>1, PigeonholeMeans
    <3>3. Demand <= Supply
      BY <2>1, <3>1, TimetableFits
    <3>4. Supply \in Nat
      BY <2>1, <3>1, HolesMean
    <3>5. Demand \in Nat
      <4>1. PICK infos \in Seq(Info) : infos = MeetingAvailabilityInfo
        BY <2>1, <3>1, InfosMean DEF Picked
      <4>2. Len(infos) \in 0 .. Len(infos)
        OBVIOUS
      <4>3. Pigeons(infos, Len(infos)) \in Nat
        BY <4>2, PigeonsMean
      <4> QED
        BY <2>1, <3>1, <4>1, <4>3, DemandCounted
    <3> QED
      BY <3>2, <3>3, <3>4, <3>5
  <2>3. CASE response.kind = "NoSolution"
    <3>1. Underway /\ result.kind = "NoSolution"
      BY <2>3, SettledMeans
    <3>2. nth = 0 /\ NoPlacementPassedBy
      BY <3>1 DEF RequestIInv, IInv
    <3>3. Placements(meetings) = {}
      BY <3>2 DEF NoPlacementPassedBy, Untried
    <3>4. PICK at : Searched(meetings, at)
      BY <3>1 DEF Underway
    <3> QED
      BY <2>1, <3>3, <3>4, TimetableIsPlacement
  <2> QED
    BY <2>2, <2>3
<1> QED
  BY <1>1, RequestInductiveInvariant, PTL
=============================================================================
