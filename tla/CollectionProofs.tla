---------------------------- MODULE CollectionProofs ---------------------------
(***************************************************************************)
(* Theorems about the views of databases: querying them, for any number of *)
(* views and workers (fetchCollections, module Pool), and laying them out, *)
(* for any rows, groups and buckets (module Views); and about the links of *)
(* a page, for any table of blocks (module Links).                         *)
(***************************************************************************)
EXTENDS Pool, Views, Links, DataTheorems

--------------------------------------------------------------------------------
(* The pool.                                                                    *)

\* What has been sent is answered or being worked on, by one worker; what has
\* not been sent is neither.
PoolInv ==
  /\ TypeOK
  /\ \A w \in Workers :
       /\ Busy(w) => job[w] \in Jobs /\ job[w] < next /\ results[job[w]] = "none"
       /\ at[w] = "exited" => main # "send"
  /\ \A v, w \in Workers : Busy(v) /\ Busy(w) /\ job[v] = job[w] => v = w
  /\ \A i \in Jobs :
       /\ i < next => results[i] # "none" \/ \E w \in Workers : Busy(w) /\ job[w] = i
       /\ i >= next => results[i] = "none"
  /\ main # "send" => next = N + 1
  /\ main = "returned" => \A w \in Workers : at[w] = "exited"

\* Nothing has been sent at first.
LEMMA InitInv == Init => PoolInv
  BY PoolAssumption DEF Init, PoolInv, TypeOK, Jobs, Busy

\* No step loses an index or gives it to two workers.
LEMMA StepInv == PoolInv /\ [Next]_vars => PoolInv'
<1> SUFFICES ASSUME PoolInv, [Next]_vars
             PROVE  PoolInv'
  OBVIOUS
<1> USE PoolAssumption DEF PoolInv, TypeOK, Jobs, Busy
<1>1. ASSUME NEW w \in Workers, Hand(w)
      PROVE  PoolInv'
  BY <1>1 DEF Hand
<1>2. CASE Close
  BY <1>2 DEF Close
<1>3. ASSUME NEW w \in Workers, Exit(w)
      PROVE  PoolInv'
  BY <1>3 DEF Exit
<1>4. ASSUME NEW w \in Workers, Busy(w), NEW r \in {"data", "error", "cancelled"},
             Store(w, r)
      PROVE  PoolInv'
  BY <1>4 DEF Store
<1>5. ASSUME NEW w \in Workers, Skip(w) \/ QueryEnds(w)
      PROVE  PoolInv'
  BY <1>4, <1>5 DEF Skip, QueryEnds
<1>6. ASSUME NEW w \in Workers, Query(w)
      PROVE  PoolInv'
  BY <1>6 DEF Query
<1>7. CASE Return
  BY <1>7 DEF Return
<1>8. CASE Cancel
  BY <1>8 DEF Cancel
<1>9. CASE UNCHANGED vars
  BY <1>9 DEF vars
<1>10. QED
  BY <1>1, <1>2, <1>3, <1>5, <1>6, <1>7, <1>8, <1>9
  DEF Next, MainStep, WorkerStep

\* The inductive invariant of the pool.
THEOREM PoolInvariance == Spec => []PoolInv
  BY InitInv, StepInv, PTL DEF Spec

\* Types, for any number of views and workers (client.go:871-919).
THEOREM TypeCorrect == Spec => []TypeOK
<1>1. PoolInv => TypeOK
  BY DEF PoolInv
<1>2. QED
  BY <1>1, PoolInvariance, PTL

\* The workers write the shared slice without a lock and need none.
THEOREM NoLockNeeded == Spec => []NoRaceOnResults
<1>1. PoolInv => NoRaceOnResults
  BY DEF PoolInv, NoRaceOnResults, Busy
<1>2. QED
  BY <1>1, PoolInvariance, PTL

\* When fetchCollections returns every view has its result.
THEOREM NoViewForgotten == Spec => []EveryViewAnswered
<1>1. PoolInv => EveryViewAnswered
  BY PoolAssumption DEF PoolInv, TypeOK, EveryViewAnswered, Busy, Jobs
<1>2. QED
  BY <1>1, PoolInvariance, PTL

--------------------------------------------------------------------------------
(* The page.                                                                    *)

\* Between the query and the page: buckets of rows, one list of them or both, no buckets
\* for a view without groups, lanes for the groups of a board.
Answered ==
  /\ view \in Configs /\ rows \in Tables
  /\ plain \in Seq(Row)
  /\ DOMAIN buckets \subseteq Keys
  /\ \A k \in DOMAIN buckets : buckets[k] \in Seq(Row)
  /\ ~view.grouped => DOMAIN buckets = {}
  /\ columns \in {<<>>, Groups, Reverse(Groups)}
  /\ view.type = "board" /\ DOMAIN buckets # {} => columns \in {Groups, Reverse(Groups)}

\* What is on the page once it is rendered.
Rendered ==
  \/ view.type = "table" /\ sections = Visible(RowSections) /\ bars = <<>>
  \/ view.type = "board" /\ sections = Visible(Lanes \o Unplaced(Lanes)) /\ bars = <<>>
  \/ view.type = "calendar" /\ sections = Visible(Days \o Undated) /\ bars = <<>>
  \/ /\ view.type = "timeline"
     /\ sections = Visible(<<Section("", Entries, FALSE)>> \o Undated)
     /\ bars = Bars

ViewInv ==
  /\ Answered
  /\ ~view.grouped => reducers = Without
  /\ DOMAIN reducers \subseteq Keys
  /\ stage \in {"ask", "answer"} => plain = <<>> /\ DOMAIN buckets = {}
  /\ stage # "done" => bars = <<>>
  /\ stage = "done" => Rendered

\* The rows of a table, and lists of rows.
LEMMA RowsFacts ==
  ASSUME rows \in Tables
  PROVE  /\ rows \in Seq(RowRecord) /\ Row = 1..Len(rows) /\ Len(rows) \in Nat
         /\ Row \in SUBSET Int /\ IsFiniteSet(Row)
         /\ \A r \in Row : rows[r] \in RowRecord
<1>1. rows \in Seq(RowRecord)
  BY ViewsAssumption
<1>2. Row = 1..Len(rows) /\ Len(rows) \in Nat
  BY <1>1, LenProperties DEF Row
<1>3. IsFiniteSet(Row)
  BY <1>2, FS_Interval
<1>4. QED
  BY <1>1, <1>2, <1>3, ElementOfSeq

\* What is selected of a list of rows is one.
LEMMA CutType ==
  ASSUME NEW T, NEW s \in Seq(T)
  PROVE  Cut(s) \in Seq(T)
<1>1. Limit \in Nat \ {0}
  BY ViewsAssumption
<1>2. Len(s) \in Nat /\ \A i \in 1..Len(s) : s[i] \in T
  BY LenProperties, ElementOfSeq
<1> DEFINE m == IF Len(s) < Limit THEN Len(s) ELSE Limit
<1>3. m \in 0..Len(s)
  BY <1>1, <1>2
<1> HIDE DEF m
<1>4. SubSeq(s, 1, m) \in Seq(T)
  BY <1>2, <1>3, SubSeqProperties
<1>5. QED
  BY <1>4 DEF Cut, m

LEMMA RowsWithType ==
  ASSUME rows \in Tables, NEW k
  PROVE  RowsWith(k) \in Seq(Row) /\ Cut(Ascending(Row)) \in Seq(Row)
<1>1. Ascending(Row) \in Seq(Row)
  BY RowsFacts, AscendingGoesThrough
<1>2. Select(Ascending(Row), LAMBDA r : Matches(r, k)) \in Seq(Row)
  BY <1>1, PickClimbs DEF Select
<1>3. QED
  BY <1>1, <1>2, CutType DEF RowsWith

\* What is shown depends on the answer alone.
LEMMA ShownRests ==
  ASSUME UNCHANGED <<view, rows, buckets, plain>>
  PROVE  /\ RowIDs' = RowIDs
         /\ Entries' = Entries /\ Bars' = Bars /\ Axis(Entries)' = Axis(Entries)
         /\ Visible(RowSections)' = Visible(RowSections)
         /\ Visible(Days \o Undated)' = Visible(Days \o Undated)
         /\ Visible(<<Section("", Entries, FALSE)>> \o Undated)'
            = Visible(<<Section("", Entries, FALSE)>> \o Undated)
         /\ columns' = columns => Visible(Lanes \o Unplaced(Lanes))' = Visible(Lanes \o Unplaced(Lanes))
<1>1. RowIDs' = RowIDs
  BY DEF RowIDs, Sorted, Select, Unique
<1>2. Shown(RowIDs)' = Shown(RowIDs)
  BY <1>1 DEF Shown, Select
<1>3. Dated' = Dated
  BY <1>2 DEF Dated, Select
<1>4. Entries' = Entries
  BY <1>3 DEF Entries, Sort, Earlier, End
<1>5. Axis(Entries)' = Axis(Entries)
  BY <1>4 DEF Axis, End
<1>6. Bars' = Bars
  BY <1>4, <1>5 DEF Bars, Bar, End
<1>7. Undated' = Undated
  BY <1>2 DEF Undated, HideUndated, Select, Groups, Section
<1>8. Days' = Days
  BY <1>3 DEF Days, Select, Section
<1>9. Groups' = Groups /\ Filled' = Filled /\ (view.grouped)' = view.grouped
  BY DEF Groups, Filled
<1>10. Matched' = Matched
  <2>1. [i \in DOMAIN Groups |-> ByLabel(Groups[i])]' = [i \in DOMAIN Groups |-> ByLabel(Groups[i])]
    BY <1>9 DEF ByLabel, FirstKey, Sorted, Select
  <2>2. [i \in DOMAIN Groups |-> ByKey(Groups[i])]' = [i \in DOMAIN Groups |-> ByKey(Groups[i])]
    BY <1>9 DEF ByKey
  <2>3. [i \in DOMAIN Groups |-> ByFolded(Groups[i])]' = [i \in DOMAIN Groups |-> ByFolded(Groups[i])]
    BY <1>9 DEF ByFolded, FirstKey, Sorted, Select
  <2>4. AfterLabels' = AfterLabels
    BY <1>9, <2>1 DEF AfterLabels, Claim, Unmatched
  <2>5. AfterKeys' = AfterKeys
    BY <1>9, <2>2, <2>4 DEF AfterKeys, Claim
  <2>6. QED
    BY <1>9, <2>3, <2>5 DEF Matched, Claim
<1>11. Claimed' = Claimed
  BY <1>9, <1>10 DEF Claimed, Select
<1>12. Remaining' = Remaining
  BY <1>9, <1>10 DEF Remaining, Sorted, Select, GroupOfKey, GroupOf
<1>13. Uncovered' = Uncovered
  BY <1>1, <1>9 DEF Uncovered, Select
<1>14. GroupsOfQuery' = GroupsOfQuery
  BY <1>11, <1>12, <1>13 DEF GroupsOfQuery, Emit, Section
<1>15. GroupsFromView' = GroupsFromView
  BY <1>1, <1>9 DEF GroupsFromView, Select, Sorted, Values, Section
<1>16. RowSections' = RowSections
  BY <1>1, <1>9, <1>14, <1>15 DEF RowSections, Ungrouped, Section
<1>17. Visible(RowSections)' = Visible(RowSections)
  BY <1>16 DEF Visible, Shown, Select
<1>18. Visible(Days \o Undated)' = Visible(Days \o Undated)
  BY <1>7, <1>8 DEF Visible, Shown, Select
<1>19. Visible(<<Section("", Entries, FALSE)>> \o Undated)'
       = Visible(<<Section("", Entries, FALSE)>> \o Undated)
  BY <1>4, <1>7 DEF Visible, Shown, Select, Section
<1>20. columns' = columns => Visible(Lanes \o Unplaced(Lanes))' = Visible(Lanes \o Unplaced(Lanes))
  <2>1. SUFFICES ASSUME columns' = columns
                 PROVE  Visible(Lanes \o Unplaced(Lanes))' = Visible(Lanes \o Unplaced(Lanes))
    OBVIOUS
  <2>2. Lanes' = Lanes
    BY <2>1 DEF Lanes, LaneRows, Section
  <2>3. Unplaced(Lanes)' = Unplaced(Lanes)
    BY <1>1, <2>2 DEF Unplaced, Select, Section
  <2>4. QED
    BY <2>2, <2>3 DEF Visible, Shown, Select
<1>21. QED
  BY <1>1, <1>4, <1>5, <1>6, <1>17, <1>18, <1>19, <1>20

\* The answer stays as it is until the end.
LEMMA AnsweredRests ==
  ASSUME Answered, UNCHANGED <<view, rows, buckets, plain, columns>>
  PROVE  Answered'
BY DEF Answered, Row, Groups

\* No query, no bucket, no row: nothing has been asked yet.
LEMMA ViewStarts == ViewInit => ViewInv
<1> SUFFICES ASSUME ViewInit
             PROVE  ViewInv
  OBVIOUS
<1>1. plain = <<>> /\ DOMAIN buckets = {} /\ reducers = Without /\ DOMAIN reducers = {}
  BY DEF ViewInit, Without
<1>2. plain \in Seq(Row)
  BY <1>1, EmptySeq
<1>3. Answered
  BY <1>1, <1>2 DEF Answered, ViewInit
<1>4. QED
  BY <1>1, <1>3 DEF ViewInv, ViewInit

\* Every step keeps the invariant.
LEMMA ViewSteps == ViewInv /\ [ViewNext]_viewVars => ViewInv'
<1> SUFFICES ASSUME ViewInv, [ViewNext]_viewVars
             PROVE  ViewInv'
  OBVIOUS
<1>1. CASE Ask
  <2>1. Answered'
    BY <1>1, AnsweredRests DEF Ask, ViewInv
  <2>2. DOMAIN reducers' \subseteq Keys
    <3>1. CASE ~view.grouped
      BY <1>1, <3>1 DEF Ask, Without
    <3>2. CASE view.grouped
      <4>1. DOMAIN reducers' = {QueryLabel(Groups[i]) : i \in DOMAIN Groups}
        BY <1>1, <3>2 DEF Ask
      <4>2. \A i \in DOMAIN Groups : QueryLabel(Groups[i]) \in Keys
        BY ViewsAssumption DEF ViewInv, Answered, Groups
      <4>3. QED
        BY <4>1, <4>2
    <3>3. QED
      BY <3>1, <3>2
  <2>3. (~view.grouped => reducers = Without)'
    BY <1>1 DEF Ask, Without
  <2>4. QED
    BY <1>1, <2>1, <2>2, <2>3 DEF Ask, ViewInv
<1>2. CASE Answer
  <2>1. Answered'
    <3>1. rows \in Tables /\ view \in Configs /\ plain = <<>> /\ DOMAIN buckets = {} /\ Row' = Row
          /\ UNCHANGED <<view, rows>>
      BY <1>2 DEF ViewInv, Answered, Answer, Row
    <3>2. plain' \in Seq(Row)'
      <4>1. plain' = <<>> \/ plain' = Cut(Ascending(Row))
        BY <1>2 DEF Answer
      <4>2. Seq(Row)' = Seq(Row)
        BY <3>1
      <4>3. QED
        BY <3>1, <4>1, <4>2, EmptySeq, RowsWithType
    <3>3. CASE UNCHANGED <<buckets, columns>>
      <4>1. columns' \in {<<>>, Groups, Reverse(Groups)}' /\ DOMAIN buckets' = {}
        BY <3>1, <3>3 DEF ViewInv, Answered, Groups
      <4>2. QED
        BY <3>1, <3>2, <4>1 DEF Answered
    <3>4. CASE \E extra \in SUBSET Stale :
                 /\ reducers # Without
                 /\ buckets' = [k \in DOMAIN reducers \cup extra |-> RowsWith(k)]
                 /\ columns' \in (IF view.type = "board" THEN {Groups, Reverse(Groups)} ELSE {<<>>})
      <4> PICK extra \in SUBSET Stale :
                 /\ reducers # Without
                 /\ buckets' = [k \in DOMAIN reducers \cup extra |-> RowsWith(k)]
                 /\ columns' \in (IF view.type = "board" THEN {Groups, Reverse(Groups)} ELSE {<<>>})
        BY <3>4
      <4>1. DOMAIN buckets' = DOMAIN reducers \cup extra
        OBVIOUS
      <4>2. DOMAIN buckets' \subseteq Keys /\ (view.grouped)'
        BY <3>1, <4>1, ViewsAssumption DEF ViewInv
      <4>3. \A k \in DOMAIN buckets' : buckets'[k] \in Seq(Row)
        BY <3>1, <4>1, RowsWithType
      <4>4. Seq(Row)' = Seq(Row)
        BY <3>1
      <4>5. /\ (view.type = "board" /\ DOMAIN buckets # {} => columns \in {Groups, Reverse(Groups)})'
            /\ (columns \in {<<>>, Groups, Reverse(Groups)})'
        BY <3>1 DEF Groups
      <4>6. QED
        BY <3>1, <3>2, <4>2, <4>3, <4>4, <4>5 DEF Answered
    <3>5. QED
      BY <1>2, <3>3, <3>4 DEF Answer
  <2>2. QED
    BY <1>2, <2>1 DEF Answer, ViewInv
<1>3. ASSUME UNCHANGED <<view, rows, buckets, plain, columns, reducers>>, stage' = "done", Rendered'
      PROVE  ViewInv'
  <2>1. Answered'
    BY <1>3, AnsweredRests DEF ViewInv
  <2>2. QED
    BY <1>3, <2>1 DEF ViewInv
<1>4. CASE RenderRows
  <2>1. Visible(RowSections)' = Visible(RowSections)
    BY <1>4, ShownRests DEF RenderRows, Shows
  <2>2. Rendered'
    BY <1>4, <2>1 DEF RenderRows, Shows, Rendered, ViewInv
  <2>3. QED
    BY <1>3, <1>4, <2>2 DEF RenderRows, Shows
<1>5. CASE RenderBoard
  <2>1. Visible(Lanes \o Unplaced(Lanes))' = Visible(Lanes \o Unplaced(Lanes))
    BY <1>5, ShownRests DEF RenderBoard, Shows
  <2>2. Rendered'
    BY <1>5, <2>1 DEF RenderBoard, Shows, Rendered, ViewInv
  <2>3. QED
    BY <1>3, <1>5, <2>2 DEF RenderBoard, Shows
<1>6. CASE RenderCalendar
  <2>1. Visible(Days \o Undated)' = Visible(Days \o Undated)
    BY <1>6, ShownRests DEF RenderCalendar, Shows
  <2>2. Rendered'
    BY <1>6, <2>1 DEF RenderCalendar, Shows, Rendered, ViewInv
  <2>3. QED
    BY <1>3, <1>6, <2>2 DEF RenderCalendar, Shows
<1>7. CASE RenderTimeline
  <2>1. /\ Bars' = Bars
        /\ Visible(<<Section("", Entries, FALSE)>> \o Undated)'
           = Visible(<<Section("", Entries, FALSE)>> \o Undated)
    BY <1>7, ShownRests DEF RenderTimeline, Shows
  <2>2. Rendered'
    BY <1>7, <2>1 DEF RenderTimeline, Shows, Rendered
  <2>3. QED
    BY <1>3, <1>7, <2>2 DEF RenderTimeline, Shows
<1>8. CASE UNCHANGED viewVars
  <2>1. Answered'
    BY <1>8, AnsweredRests DEF ViewInv, viewVars
  <2>2. /\ Bars' = Bars
        /\ Visible(RowSections)' = Visible(RowSections)
        /\ Visible(Days \o Undated)' = Visible(Days \o Undated)
        /\ Visible(<<Section("", Entries, FALSE)>> \o Undated)'
            = Visible(<<Section("", Entries, FALSE)>> \o Undated)
        /\ Visible(Lanes \o Unplaced(Lanes))' = Visible(Lanes \o Unplaced(Lanes))
    BY <1>8, ShownRests DEF viewVars
  <2>3. Rendered => Rendered'
    BY <1>8, <2>2 DEF Rendered, viewVars
  <2>4. QED
    BY <1>8, <2>1, <2>3 DEF ViewInv, viewVars, Without
<1>9. QED
  BY <1>1, <1>2, <1>4, <1>5, <1>6, <1>7, <1>8 DEF ViewNext, ViewDone

\* What a view has in its answer holds in every state.
LEMMA ViewAlways == ViewSpec => []ViewInv
BY ViewStarts, ViewSteps, PTL DEF ViewSpec

\* The rows that a view lists are those of the answer.
LEMMA RowIDsFacts ==
  ASSUME Answered
  PROVE  /\ RowIDs \in Seq(Row)
         /\ plain = <<>> => ToSet(RowIDs) = UNION {ToSet(buckets[k]) : k \in DOMAIN buckets}
<1> DEFINE o == Sorted(DOMAIN buckets)
           lists == [i \in DOMAIN o |-> buckets[o[i]]]
<1>1. o \in Seq(STRING) /\ ToSet(o) = DOMAIN buckets
  <2>1. KeyOrder \in Seq(STRING)
    BY ViewsAssumption
  <2>2. ToSet(o) = {KeyOrder[i] : i \in {j \in DOMAIN KeyOrder : KeyOrder[j] \in DOMAIN buckets} \cap DOMAIN KeyOrder}
    BY <2>1, PickMembers DEF Sorted, Select
  <2>3. DOMAIN buckets \subseteq {KeyOrder[i] : i \in DOMAIN KeyOrder}
    BY DEF Answered, Keys, ToSet
  <2>4. o \in Seq(STRING)
    BY <2>1, PickClimbs DEF Sorted, Select
  <2>5. QED
    BY <2>2, <2>3, <2>4
<1>2. DOMAIN o = 1..Len(o) /\ Len(o) \in Nat /\ \A i \in DOMAIN o : o[i] \in DOMAIN buckets
  BY <1>1, LenProperties DEF ToSet
<1>3. lists \in Seq(Seq(Row))
  BY <1>2 DEF Answered
<1>4. /\ FlattenSeq(lists) \in Seq(Row)
      /\ ToSet(FlattenSeq(lists)) = UNION {ToSet(lists[i]) : i \in DOMAIN lists}
  BY <1>3, FlatType, FlatMembers
<1>5. UNION {ToSet(lists[i]) : i \in DOMAIN lists} = UNION {ToSet(buckets[k]) : k \in DOMAIN buckets}
  <2>1. \A k \in DOMAIN buckets : \E i \in DOMAIN o : o[i] = k
    BY <1>1 DEF ToSet
  <2>2. QED
    BY <1>2, <2>1
<1>6. /\ Unique(FlattenSeq(lists)) \in Seq(Row)
      /\ ToSet(Unique(FlattenSeq(lists))) = ToSet(FlattenSeq(lists))
  BY <1>4, UniqueFacts
<1>7. QED
  BY <1>4, <1>5, <1>6 DEF RowIDs, Answered

\* The dated rows that the page shows.
LEMMA DatedFacts ==
  ASSUME Answered
  PROVE  /\ Shown(RowIDs) \in Seq(Row) /\ Dated \in Seq(Row)
         /\ ToSet(Shown(RowIDs)) = {r \in ToSet(RowIDs) : rows[r].there}
         /\ ToSet(Dated) = {r \in ToSet(RowIDs) : rows[r].there /\ rows[r].from # 0}
         /\ ToSet(Dated) \in SUBSET Row /\ IsFiniteSet(ToSet(Dated))
<1> DEFINE s == RowIDs
           u == Shown(s)
<1>1. s \in Seq(Row)
  BY RowIDsFacts
<1>2. u \in Seq(Row) /\ ToSet(u) = {s[i] : i \in {j \in DOMAIN s : rows[s[j]].there} \cap DOMAIN s}
  BY <1>1, PickMembers, PickClimbs DEF Shown, Select
<1>3. ToSet(u) = {r \in ToSet(s) : rows[r].there}
  BY <1>2 DEF ToSet
<1> HIDE DEF s
<1>9. Dated = Pick(u, {j \in DOMAIN u : rows[u[j]].from # 0})
  BY DEF Dated, Select, s
<1> HIDE DEF u
<1>4. /\ Dated \in Seq(Row)
      /\ ToSet(Dated) = {u[i] : i \in {j \in DOMAIN u : rows[u[j]].from # 0} \cap DOMAIN u}
  BY <1>2, <1>9, PickMembers, PickClimbs
<1>5. ToSet(Dated) = {r \in ToSet(u) : rows[r].from # 0}
  BY <1>4 DEF ToSet
<1>6. ToSet(Dated) \in SUBSET Row
  BY <1>4, LenProperties, ElementOfSeq DEF ToSet
<1>7. IsFiniteSet(ToSet(Dated))
  BY <1>6, RowsFacts, FS_Subset DEF Answered
<1>8. QED
  BY <1>2, <1>3, <1>4, <1>5, <1>6, <1>7 DEF s, u

\* The timeline's entries are the dated rows, each once, in an order.
LEMMA EntriesFacts ==
  ASSUME Answered
  PROVE  /\ Entries \in Seq(ToSet(Dated)) /\ ToSet(Entries) = ToSet(Dated)
         /\ \A r \in ToSet(Dated) :
              rows[r].from \in Nat \ {0} /\ End(r) \in Nat /\ rows[r].from <= End(r)
<1> DEFINE S == ToSet(Dated)
           before == [x \in S |-> {y \in S : Earlier(y, x)}]
<1>1. S \in SUBSET Row /\ IsFiniteSet(S) /\ Row \in SUBSET Int /\ \A r \in Row : rows[r] \in RowRecord
  BY DatedFacts, RowsFacts DEF Answered
<1>2. \A r \in S : /\ r \in Int /\ rows[r].from \in Nat /\ rows[r].to \in Nat /\ rows[r].from # 0
                   /\ End(r) \in Nat /\ rows[r].from <= End(r)
  <2> SUFFICES ASSUME NEW r \in S
               PROVE  /\ r \in Int /\ rows[r].from \in Nat /\ rows[r].to \in Nat /\ rows[r].from # 0
                      /\ End(r) \in Nat /\ rows[r].from <= End(r)
    OBVIOUS
  <2>1. rows[r].from # 0
    BY DatedFacts
  <2>2. r \in Int /\ rows[r].from \in Nat /\ rows[r].to \in Nat
    BY <1>1 DEF RowRecord
  <2>3. QED
    BY <2>1, <2>2 DEF End
<1> HIDE DEF S
<1>3. before \in [S -> SUBSET S] /\ \A x, y \in S : x \in before[y] <=> Earlier(x, y)
  OBVIOUS
<1> HIDE DEF before
<1>4. \A x \in S : ~Earlier(x, x)
  BY <1>2 DEF Earlier
<1>5. \A x, y \in S : x = y \/ Earlier(x, y) \/ Earlier(y, x)
  BY <1>2 DEF Earlier
<1>6. \A x, y, z \in S : Earlier(x, y) /\ Earlier(y, z) => Earlier(x, z)
  BY <1>2 DEF Earlier
<1>7. Ordered(S, before)
  <2>1. \A x, y \in S : x \in before[y] => before[x] \subseteq before[y]
    BY <1>3, <1>6
  <2>2. QED
    BY <1>1, <1>3, <1>4, <1>5, <2>1 DEF Ordered
<1>8. Entries = Arranged(S, before)
  BY DEF Entries, Sort, S, before
<1>9. Entries \in Seq(S) /\ Through(Entries, Len(Entries), S, before)
  BY <1>7, <1>8, ArrangedGoesThrough
<1>10. ToSet(Entries) = S
  BY <1>9, LenProperties DEF Through, ToSet
<1>11. QED
  BY <1>2, <1>9, <1>10 DEF S

\* The axis holds the dates of every entry.
LEMMA AxisFacts ==
  ASSUME Answered, NEW r \in ToSet(Entries)
  PROVE  LET axis == Axis(Entries) IN
         /\ axis.first \in Nat /\ axis.days \in Nat
         /\ axis.first <= rows[r].from
         /\ End(r) <= axis.first + axis.days - 1
<1> DEFINE E == ToSet(Entries)
           F == {rows[x].from : x \in E}
           L == {End(x) : x \in E}
<1>1. /\ IsFiniteSet(E)
      /\ \A x \in E : rows[x].from \in Nat \ {0} /\ End(x) \in Nat /\ rows[x].from <= End(x)
  BY EntriesFacts, DatedFacts
<1>2. IsFiniteSet(F) /\ IsFiniteSet(L)
  <2> DEFINE f == [x \in E |-> rows[x].from]
             l == [x \in E |-> End(x)]
  <2>1. F = {f[x] : x \in E} /\ L = {l[x] : x \in E}
    OBVIOUS
  <2> HIDE DEF f, l, E
  <2>2. IsFiniteSet({f[x] : x \in E}) /\ IsFiniteSet({l[x] : x \in E})
    <3>1. f \in Surjection(E, {f[x] : x \in E}) /\ l \in Surjection(E, {l[x] : x \in E})
      BY DEF Surjection, f, l
    <3>2. QED
      BY <1>1, <3>1, FS_Surjection DEF ExistsSurjection
  <2>3. QED
    BY <2>1, <2>2
<1>3. F \in SUBSET Int /\ L \in SUBSET Int /\ rows[r].from \in F /\ End(r) \in L
  BY <1>1
<1>4. Min(F) \in Nat /\ Max(L) \in Nat
  <2>1. Min(F) \in F /\ Max(L) \in L
    BY <1>2, <1>3, Extremes
  <2>2. QED
    BY <1>1, <2>1
<1>5. Min(F) <= rows[r].from /\ End(r) <= Max(L)
  BY <1>2, <1>3, <1>4, Extremes
<1>6. Axis(Entries).first = Min(F) /\ Axis(Entries).days = Max(L) - Min(F) + 1
  BY DEF Axis
<1>7. rows[r].from <= End(r) /\ rows[r].from \in Nat /\ End(r) \in Nat
  BY <1>1
<1> HIDE DEF F, L, E
<1>8. QED
  BY <1>4, <1>5, <1>6, <1>7

\* The bars tell the dates.
LEMMA BarsTell == ViewInv => BarsTellDates
<1> SUFFICES ASSUME ViewInv, stage = "done", NEW i \in DOMAIN bars, bars[i].start # 0
             PROVE  LET r == bars[i].row
                        axis == Axis(Entries)
                    IN  /\ axis.first + bars[i].start - 1 = rows[r].from
                        /\ axis.first + bars[i].start + bars[i].span - 2 = End(r)
                        /\ bars[i].start >= 1
                        /\ bars[i].start + bars[i].span - 1 <= axis.days
  BY DEF BarsTellDates
<1> DEFINE r == Entries[i]
           axis == Axis(Entries)
<1>1. bars = Bars /\ Answered
  <2>1. bars # <<>>
    OBVIOUS
  <2>2. QED
    BY <2>1 DEF ViewInv, Rendered
<1>2. DOMAIN bars = DOMAIN Entries /\ bars[i] = Bar(r, axis)
  BY <1>1 DEF Bars
<1>3. r \in ToSet(Entries)
  BY <1>2 DEF ToSet
<1>4. /\ axis.first \in Nat /\ axis.days \in Nat
      /\ axis.first <= rows[r].from
      /\ End(r) <= axis.first + axis.days - 1
  BY <1>1, <1>3, AxisFacts
<1>5. rows[r].from \in Nat \ {0} /\ End(r) \in Nat /\ rows[r].from <= End(r)
  BY <1>1, <1>3, EntriesFacts
<1> HIDE DEF r, axis
<1> DEFINE start == rows[r].from - axis.first + 1
           span == End(r) - rows[r].from + 1
<1>6. start \in Int /\ span \in Int /\ start >= 1 /\ span >= 1 /\ start + span - 1 <= axis.days
  BY <1>4, <1>5
<1>7. Max({1, start}) = start /\ Max({1, span}) = span
  BY <1>6, AtLeast
<1>8. bars[i] = [row |-> r, start |-> start, span |-> span]
  <2>1. bars[i] = [row |-> r, start |-> Max({1, start}),
                   span |-> IF Max({1, start}) + Max({1, span}) - 1 > axis.days
                            THEN axis.days - Max({1, start}) + 1 ELSE Max({1, span})]
    BY <1>2 DEF Bar
  <2> HIDE DEF start, span
  <2>2. ~(start + span - 1 > axis.days)
    BY <1>4, <1>6
  <2>3. QED
    BY <1>7, <2>1, <2>2
<1>9. QED
  BY <1>4, <1>5, <1>6, <1>8 DEF axis

\* On every timeline, of any rows and dates, each bar covers the dates of its row and
\* lies on the axis: renderCollectionTimeline never has to clamp one.
THEOREM BarsTold == ViewSpec => []BarsTellDates
BY ViewAlways, BarsTell, PTL

\* A list of sections.
SectionList(ss) == ss \in Seq(ToSet(ss)) /\ \A x \in ToSet(ss) : x.rows \in Seq(Row)

LEMMA ListOfSections ==
  ASSUME NEW T, NEW ss \in Seq(T), \A x \in T : x.rows \in Seq(Row)
  PROVE  SectionList(ss)
<1>1. \A i \in 1..Len(ss) : ss[i] \in T
  BY ElementOfSeq
<1>2. ss \in Seq(ToSet(ss)) /\ ToSet(ss) \subseteq T
  BY <1>1, LenProperties DEF ToSet
<1>3. QED
  BY <1>2 DEF SectionList

\* A list of one.
LEMMA OneInList ==
  ASSUME NEW S, NEW x \in S
  PROVE  <<x>> \in Seq(S) /\ ToSet(<<x>>) = {x}
BY DEF ToSet

\* What a section is made of.
LEMMA SectionParts ==
  ASSUME NEW h, NEW rs, NEW b
  PROVE  /\ Section(h, rs, b).head = h /\ Section(h, rs, b).rows = rs
         /\ Section(h, rs, b).hidden = b
BY DEF Section

\* The rows that are shown of a list.
LEMMA ShownFacts ==
  ASSUME NEW s \in Seq(Row)
  PROVE  Shown(s) \in Seq(Row) /\ ToSet(Shown(s)) = {r \in ToSet(s) : rows[r].there}
<1>1. Shown(s) = Pick(s, {j \in DOMAIN s : rows[s[j]].there})
  BY DEF Shown, Select
<1>2. /\ Shown(s) \in Seq(Row)
      /\ ToSet(Shown(s)) = {s[i] : i \in {j \in DOMAIN s : rows[s[j]].there} \cap DOMAIN s}
  BY <1>1, PickMembers, PickClimbs
<1>3. QED
  BY <1>2 DEF ToSet

\* The page has the rows of the sections that are not hidden, under their headings.
LEMMA VisibleFacts ==
  ASSUME NEW ss, SectionList(ss), sections = Visible(ss)
  PROVE  /\ \A r : OnPage(r) <=> \E x \in ToSet(ss) :
                                   ~x.hidden /\ r \in ToSet(x.rows) /\ rows[r].there
         /\ \A x \in ToSet(ss) : ~x.hidden /\ x.rows # <<>> =>
              \E j \in DOMAIN sections : sections[j] = [head |-> x.head, rows |-> Shown(x.rows)]
<1> DEFINE here == {j \in DOMAIN ss : ~ss[j].hidden /\ ss[j].rows # <<>>}
           seen == Pick(ss, here)
           Of(x) == [head |-> x.head, rows |-> Shown(x.rows)]
<1>1. sections = [i \in DOMAIN seen |-> Of(seen[i])]
  BY DEF Visible, Select
<1>2. ToSet(seen) = {ss[i] : i \in here \cap DOMAIN ss}
  BY PickMembers DEF SectionList
<1>3. {seen[i] : i \in DOMAIN seen} = {x \in ToSet(ss) : ~x.hidden /\ x.rows # <<>>}
  BY <1>2 DEF ToSet
<1> HIDE DEF seen
<1>4. \A x \in ToSet(ss) : x.rows \in Seq(Row)
  BY DEF SectionList
<1>5. \A r : OnPage(r) <=> \E x \in ToSet(ss) : ~x.hidden /\ r \in ToSet(x.rows) /\ rows[r].there
  <2> SUFFICES ASSUME NEW r
               PROVE  OnPage(r) <=> \E x \in ToSet(ss) : ~x.hidden /\ r \in ToSet(x.rows) /\ rows[r].there
    OBVIOUS
  <2>1. OnPage(r) <=> \E i \in DOMAIN seen : r \in ToSet(Shown(seen[i].rows))
    <3>1. DOMAIN sections = DOMAIN seen /\ \A i \in DOMAIN seen : sections[i].rows = Shown(seen[i].rows)
      BY <1>1
    <3>2. QED
      BY <3>1 DEF OnPage
  <2>2. OnPage(r) <=> \E x \in {y \in ToSet(ss) : ~y.hidden /\ y.rows # <<>>} : r \in ToSet(Shown(x.rows))
    BY <1>3, <2>1
  <2>3. \A x \in ToSet(ss) : r \in ToSet(Shown(x.rows)) <=> r \in ToSet(x.rows) /\ rows[r].there
    BY <1>4, ShownFacts
  <2>4. \A x \in ToSet(ss) : r \in ToSet(x.rows) => x.rows # <<>>
    BY DEF ToSet
  <2>5. QED
    BY <2>2, <2>3, <2>4
<1>6. \A x \in ToSet(ss) : ~x.hidden /\ x.rows # <<>> =>
        \E j \in DOMAIN sections : sections[j] = [head |-> x.head, rows |-> Shown(x.rows)]
  BY <1>1, <1>3
<1>7. QED
  BY <1>5, <1>6

\* The rows without a date that are not hidden.
LEMMA UndatedFacts ==
  ASSUME Answered
  PROVE  /\ SectionList(Undated)
         /\ \A r : (\E x \in ToSet(Undated) : ~x.hidden /\ r \in ToSet(x.rows)) <=>
                   ~HideUndated /\ r \in ToSet(RowIDs) /\ rows[r].there /\ rows[r].from = 0
         /\ \A x \in ToSet(Undated) : ~x.hidden
<1> DEFINE u == Shown(RowIDs)
           o == Select(u, LAMBDA r : rows[r].from = 0)
           x0 == Section("No date", o, FALSE)
<1>1. u \in Seq(Row) /\ ToSet(u) = {r \in ToSet(RowIDs) : rows[r].there}
  BY DatedFacts
<1> HIDE DEF u
<1>2. /\ o \in Seq(Row)
      /\ ToSet(o) = {u[i] : i \in {j \in DOMAIN u : rows[u[j]].from = 0} \cap DOMAIN u}
  BY <1>1, PickMembers, PickClimbs DEF Select
<1>3. ToSet(o) = {r \in ToSet(RowIDs) : rows[r].there /\ rows[r].from = 0}
  <2>1. ToSet(o) = {r \in ToSet(u) : rows[r].from = 0}
    BY <1>2 DEF ToSet
  <2>2. QED
    BY <1>1, <2>1
<1>4. Undated = IF HideUndated THEN <<>> ELSE <<x0>>
  BY DEF Undated, u
<1> HIDE DEF o
<1>5. x0.rows = o /\ x0.hidden = FALSE
  BY DEF Section
<1> HIDE DEF x0
<1>6. CASE HideUndated
  BY <1>4, <1>6 DEF ToSet, SectionList
<1>7. CASE ~HideUndated
  <2>1. Undated = <<x0>>
    BY <1>4, <1>7
  <2>2. ToSet(Undated) = {x0}
    BY <2>1 DEF ToSet
  <2>3. QED
    <3>1. SectionList(Undated)
      BY <1>2, <1>5, <2>1, OneInList, ListOfSections
    <3>2. \A r : (\E x \in ToSet(Undated) : ~x.hidden /\ r \in ToSet(x.rows)) <=> r \in ToSet(o)
      BY <1>5, <2>2
    <3>3. QED
      BY <1>3, <1>5, <1>7, <2>2, <3>1, <3>2
<1>8. QED
  BY <1>6, <1>7

\* The days of a calendar have the rows that start on them.
LEMMA DaysFacts ==
  ASSUME Answered
  PROVE  /\ SectionList(Days)
         /\ \A r : (\E x \in ToSet(Days) : ~x.hidden /\ r \in ToSet(x.rows)) <=>
                   r \in ToSet(Dated) /\ rows[r].from \notin view.hiddenDays
<1> DEFINE d == Dated
           D == ToSet(d)
           p == [r \in D |-> rows[r].from]
           F == {rows[r].from : r \in D}
           days == Ascending(F)
           On(n) == Select(d, LAMBDA r : rows[r].from = n)
           Of(n) == Section(n, On(n), n \in view.hiddenDays)
<1>1. d \in Seq(Row) /\ D \in SUBSET Row /\ IsFiniteSet(D)
  BY DatedFacts
<1>2. \A r \in D : rows[r].from \in Nat
  BY <1>1, RowsFacts DEF Answered, RowRecord
<1>3. Days = [i \in DOMAIN days |-> Of(days[i])]
  BY DEF Days
<1> HIDE DEF d
<1>4. F \in SUBSET Nat /\ F \in SUBSET Int /\ IsFiniteSet(F)
  <2>1. p \in Surjection(D, F)
    BY DEF Surjection
  <2>2. IsFiniteSet(F)
    BY <1>1, <2>1, FS_Surjection DEF ExistsSurjection
  <2>3. QED
    BY <1>2, <2>2
<1>5. \A n : /\ On(n) \in Seq(Row)
             /\ ToSet(On(n)) = {r \in D : rows[r].from = n}
  <2> SUFFICES ASSUME NEW n
               PROVE  On(n) \in Seq(Row) /\ ToSet(On(n)) = {r \in D : rows[r].from = n}
    OBVIOUS
  <2>1. /\ On(n) \in Seq(Row)
        /\ ToSet(On(n)) = {d[i] : i \in {j \in DOMAIN d : rows[d[j]].from = n} \cap DOMAIN d}
    BY <1>1, PickMembers, PickClimbs DEF Select
  <2>2. QED
    BY <2>1 DEF ToSet
<1> HIDE DEF On
<1>6. \A n \in F : /\ Of(n).rows = On(n)
                   /\ Of(n).hidden <=> n \in view.hiddenDays
  BY DEF Section
<1> HIDE DEF Of, D
<1>7. days \in Seq(F) /\ ToSet(days) = F
  <2>1. days \in Seq(F) /\ Ascends(days, Cardinality(F), F) /\ Len(days) = Cardinality(F)
    BY <1>4, AscendingGoesThrough
  <2>2. QED
    BY <2>1, LenProperties DEF Ascends, ToSet
<1>8. \A r \in D : rows[r].from \in F
  OBVIOUS
<1> HIDE DEF F, days
<1>9. DOMAIN days = 1..Len(days) /\ Len(days) \in Nat /\ \A i \in DOMAIN days : days[i] \in F
  BY <1>7, LenProperties DEF ToSet
<1>10. SectionList(Days)
  <2>1. Days \in Seq({Of(n) : n \in F})
    BY <1>3, <1>9
  <2>2. \A x \in {Of(n) : n \in F} : x.rows \in Seq(Row)
    BY <1>5, <1>6
  <2>3. QED
    BY <2>1, <2>2, ListOfSections
<1>11. ToSet(Days) = {Of(n) : n \in F}
  <2>1. \A n \in F : \E i \in DOMAIN days : days[i] = n
    BY <1>7 DEF ToSet
  <2>2. QED
    BY <1>3, <1>9, <2>1 DEF ToSet
<1>12. \A r : (\E x \in ToSet(Days) : ~x.hidden /\ r \in ToSet(x.rows)) <=>
              r \in D /\ rows[r].from \notin view.hiddenDays
  <2> SUFFICES ASSUME NEW r
               PROVE  (\E x \in ToSet(Days) : ~x.hidden /\ r \in ToSet(x.rows)) <=>
                      r \in D /\ rows[r].from \notin view.hiddenDays
    OBVIOUS
  <2>1. (\E x \in ToSet(Days) : ~x.hidden /\ r \in ToSet(x.rows)) <=>
        \E n \in F : n \notin view.hiddenDays /\ r \in ToSet(On(n))
    BY <1>6, <1>11
  <2>2. \A n : r \in ToSet(On(n)) <=> r \in D /\ rows[r].from = n
    BY <1>5
  <2>3. QED
    BY <1>8, <2>1, <2>2
<1>13. QED
  BY <1>10, <1>12 DEF d, D

\* Sections of two kinds in a row.
LEMMA TwoLists ==
  ASSUME NEW s, NEW t, SectionList(s), SectionList(t)
  PROVE  SectionList(s \o t) /\ ToSet(s \o t) = ToSet(s) \cup ToSet(t)
<1> DEFINE U == ToSet(s) \cup ToSet(t)
<1>1. \A x \in U : x.rows \in Seq(Row)
  BY DEF SectionList
<1>2. ToSet(s) \subseteq U /\ ToSet(t) \subseteq U
  OBVIOUS
<1> HIDE DEF U
<1>3. \A A, B : A \subseteq B => Seq(A) \subseteq Seq(B)
  OBVIOUS
<1>4. s \in Seq(U) /\ t \in Seq(U)
  BY <1>2, <1>3 DEF SectionList
<1>5. s \o t \in Seq(U)
  BY <1>4, ConcatProperties
<1>6. ToSet(s \o t) = ToSet(s) \cup ToSet(t)
  BY <1>4, ToSetConcat
<1>7. QED
  BY <1>1, <1>5, <1>6, ListOfSections

\* By date, a row is shown unless its day, or that it has none, is hidden.
LEMMA DatesShown ==
  ASSUME Answered, Rendered, NEW r \in ToSet(RowIDs), rows[r].there,
         view.type \in {"calendar", "timeline"}
  PROVE  OnPage(r) <=> ByDate(r)
<1>0. ByDate(r) <=> IF rows[r].from = 0 THEN ~HideUndated
                    ELSE view.type = "timeline" \/ rows[r].from \notin view.hiddenDays
  BY DEF ByDate
<1>1. \A x \in ToSet(Undated) : ~x.hidden
  BY UndatedFacts
<1>2. /\ SectionList(Undated)
      /\ (\E x \in ToSet(Undated) : ~x.hidden /\ r \in ToSet(x.rows)) <=>
            ~HideUndated /\ rows[r].from = 0
  BY UndatedFacts
<1>3. r \in ToSet(Dated) <=> rows[r].from # 0
  BY DatedFacts
<1>4. CASE view.type = "calendar"
  <2>1. sections = Visible(Days \o Undated)
    BY <1>4 DEF Rendered
  <2>2. SectionList(Days \o Undated)
        /\ ToSet(Days \o Undated) = ToSet(Days) \cup ToSet(Undated)
    BY <1>2, DaysFacts, TwoLists
  <2>3. OnPage(r) <=> \E x \in ToSet(Days) \cup ToSet(Undated) : ~x.hidden /\ r \in ToSet(x.rows)
    BY <2>1, <2>2, VisibleFacts
  <2>4. (\E x \in ToSet(Days) : ~x.hidden /\ r \in ToSet(x.rows)) <=>
        rows[r].from # 0 /\ rows[r].from \notin view.hiddenDays
    BY <1>3, DaysFacts
  <2>5. QED
    BY <1>0, <1>2, <1>4, <2>3, <2>4
<1>5. CASE view.type = "timeline"
  <2> DEFINE e == Section("", Entries, FALSE)
  <2>1. sections = Visible(<<e>> \o Undated)
    BY <1>5 DEF Rendered
  <2>2. e.rows = Entries /\ ~e.hidden /\ Entries \in Seq(Row)
    <3>1. Entries \in Seq(Row)
      BY EntriesFacts, DatedFacts, ElementOfSeq
    <3>2. e.rows = Entries /\ ~e.hidden
      BY DEF Section
    <3>3. QED
      BY <3>1, <3>2
  <2> HIDE DEF e
  <2>3. SectionList(<<e>>) /\ ToSet(<<e>>) = {e}
    <3>1. \A x \in {e} : x.rows \in Seq(Row)
      BY <2>2
    <3>2. <<e>> \in Seq({e}) /\ ToSet(<<e>>) = {e}
      BY OneInList
    <3>3. QED
      BY <3>1, <3>2, ListOfSections
  <2>4. /\ SectionList(<<e>> \o Undated)
        /\ ToSet(<<e>> \o Undated) = {e} \cup ToSet(Undated)
    BY <1>2, <2>3, TwoLists
  <2>5. OnPage(r) <=> \E x \in {e} \cup ToSet(Undated) : ~x.hidden /\ r \in ToSet(x.rows)
    BY <2>1, <2>4, VisibleFacts
  <2>6. r \in ToSet(e.rows) <=> rows[r].from # 0
    BY <1>3, <2>2, EntriesFacts
  <2>7. QED
    BY <1>0, <1>2, <1>5, <2>2, <2>5, <2>6
<1>6. QED
  BY <1>4, <1>5

\* The groups of a view, and the lanes that upstream makes of them.
GroupRecord == [value : DOMAIN Fold \cup {None}, hidden : BOOLEAN]

LEMMA GroupsFacts ==
  ASSUME Answered
  PROVE  /\ Groups \in Seq(GroupRecord) /\ Len(Groups) \in Nat /\ DOMAIN Groups = 1..Len(Groups)
         /\ \A i \in DOMAIN Groups :
              /\ Groups[i] \in GroupRecord
              /\ Label(Groups[i]) \in DOMAIN Fold \cap DOMAIN Escaped
              /\ QueryLabel(Groups[i]) \in Keys
         /\ columns \in Seq(GroupRecord) /\ Len(columns) \in Nat /\ DOMAIN columns = 1..Len(columns)
         /\ view.type = "board" /\ DOMAIN buckets # {} => ToSet(columns) = ToSet(Groups)
<1> DEFINE g == Groups
           n == Len(g)
<1>1. g \in Seq(GroupRecord)
  BY ViewsAssumption DEF Answered, GroupRecord, Groups
<1>2. \A i \in DOMAIN g : Label(g[i]) \in DOMAIN Fold \cap DOMAIN Escaped /\ QueryLabel(g[i]) \in Keys
  BY ViewsAssumption DEF Answered, Groups
<1>3. columns \in {<<>>, g, Reverse(g)}
  BY DEF Answered
<1>4. view.type = "board" /\ DOMAIN buckets # {} => columns \in {g, Reverse(g)}
  BY DEF Answered
<1> HIDE DEF g
<1>5. DOMAIN g = 1..n /\ n \in Nat /\ \A i \in 1..n : g[i] \in GroupRecord
  BY <1>1, LenProperties, ElementOfSeq
<1> HIDE DEF n
<1>6. Reverse(g) = [i \in 1..n |-> g[(n - i) + 1]]
  BY DEF Reverse, n
<1>7. \A i \in 1..n : (n - i) + 1 \in 1..n /\ (n - ((n - i) + 1)) + 1 = i
  BY <1>5
<1>8. Reverse(g) \in Seq(GroupRecord) /\ ToSet(Reverse(g)) = ToSet(g)
  <2>1. Reverse(g) \in Seq(GroupRecord)
    BY <1>5, <1>6, <1>7
  <2>2. ToSet(Reverse(g)) \subseteq ToSet(g)
    BY <1>5, <1>6, <1>7 DEF ToSet
  <2>3. ASSUME NEW x \in ToSet(g)
        PROVE  x \in ToSet(Reverse(g))
    <3>1. PICK i \in 1..n : x = g[i]
      BY <1>5, <2>3 DEF ToSet
    <3> DEFINE j == (n - i) + 1
    <3>2. j \in 1..n /\ (n - j) + 1 = i
      BY <1>7
    <3> HIDE DEF j
    <3>3. Reverse(g)[j] = x
      BY <1>6, <3>1, <3>2
    <3>4. QED
      BY <1>6, <3>2, <3>3 DEF ToSet
  <2>4. QED
    BY <2>1, <2>2, <2>3
<1>9. columns \in Seq(GroupRecord)
  BY <1>1, <1>3, <1>8, EmptySeq
<1>10. view.type = "board" /\ DOMAIN buckets # {} => ToSet(columns) = ToSet(g)
  BY <1>4, <1>8
<1>11. QED
  BY <1>1, <1>2, <1>5, <1>9, <1>10, LenProperties DEF g, n

\* The lanes of a board have the buckets of their columns, and what none of them has
\* comes last.
LEMMA LanesFacts ==
  ASSUME Answered, NEW r
  PROVE  LET ss == Lanes \o Unplaced(Lanes) IN
         /\ SectionList(ss)
         /\ (\E x \in ToSet(ss) : ~x.hidden /\ r \in ToSet(x.rows)) <=>
              \/ \E c \in ToSet(columns) : ~c.hidden /\ r \in ToSet(LaneRows(c))
              \/ r \in ToSet(RowIDs) /\ \A c \in ToSet(columns) : r \notin ToSet(LaneRows(c))
<1> DEFINE S == ToSet(columns)
           Of(c) == Section(QueryLabel(c), LaneRows(c), c.hidden)
           here == {j \in DOMAIN RowIDs : \A i \in DOMAIN Lanes : RowIDs[j] \notin ToSet(Lanes[i].rows)}
           u == Pick(RowIDs, here)
           last == Section(Other, u, FALSE)
<1>1. DOMAIN columns = 1..Len(columns) /\ Len(columns) \in Nat /\ \A i \in DOMAIN columns : columns[i] \in S
  BY GroupsFacts DEF ToSet
<1>2. Lanes = [i \in DOMAIN columns |-> Of(columns[i])]
  BY DEF Lanes
<1>3. \A c \in S : LaneRows(c) \in Seq(Row)
  BY EmptySeq DEF LaneRows, Answered
<1>4. \A c \in S : Of(c).rows = LaneRows(c) /\ (Of(c).hidden <=> c.hidden)
  <2>1. \A c \in S : c.hidden \in BOOLEAN
    <3>1. \A c \in S : c \in GroupRecord
      BY <1>1, GroupsFacts, ElementOfSeq DEF ToSet
    <3>2. QED
      BY <3>1 DEF GroupRecord
  <2>2. QED
    BY <2>1 DEF Section
<1>5. last.rows = u /\ ~last.hidden
  BY DEF Section
<1>6. Unplaced(Lanes) = <<last>>
  BY DEF Unplaced, Select
<1> HIDE DEF Of, last
<1>7. ToSet(Lanes) = {Of(c) : c \in S} /\ Lanes \in Seq({Of(c) : c \in S})
  BY <1>1, <1>2 DEF ToSet
<1>8. SectionList(Lanes)
  <2>1. \A x \in {Of(c) : c \in S} : x.rows \in Seq(Row)
    BY <1>3, <1>4
  <2>2. QED
    BY <1>7, <2>1, ListOfSections
<1>9. RowIDs \in Seq(Row) /\ u \in Seq(Row) /\ ToSet(u) = {RowIDs[i] : i \in here \cap DOMAIN RowIDs}
  BY RowIDsFacts, PickClimbs, PickMembers
<1> HIDE DEF u
<1>10. r \in ToSet(u) <=> r \in ToSet(RowIDs) /\ \A x \in ToSet(Lanes) : r \notin ToSet(x.rows)
  <2>1. (\A x \in ToSet(Lanes) : r \notin ToSet(x.rows)) <=> \A i \in DOMAIN Lanes : r \notin ToSet(Lanes[i].rows)
    BY DEF ToSet
  <2>2. r \in ToSet(RowIDs) <=> \E j \in DOMAIN RowIDs : RowIDs[j] = r
    BY DEF ToSet
  <2>3. QED
    BY <1>9, <2>1, <2>2
<1>11. SectionList(<<last>>) /\ ToSet(<<last>>) = {last}
  <2>1. <<last>> \in Seq({last}) /\ ToSet(<<last>>) = {last}
    BY OneInList
  <2>2. \A x \in {last} : x.rows \in Seq(Row)
    BY <1>5, <1>9
  <2>3. QED
    BY <2>1, <2>2, ListOfSections
<1> DEFINE ss == Lanes \o Unplaced(Lanes)
<1>12. SectionList(ss) /\ ToSet(ss) = ToSet(Lanes) \cup {last}
  BY <1>6, <1>8, <1>11, TwoLists
<1> HIDE DEF ss, S
<1>13. \A x \in ToSet(Lanes) : \E c \in S : x = Of(c)
  BY <1>7
<1>14. \A c \in S : Of(c) \in ToSet(Lanes)
  BY <1>7
<1>15. (\E x \in ToSet(Lanes) : ~x.hidden /\ r \in ToSet(x.rows)) <=>
         \E c \in S : ~c.hidden /\ r \in ToSet(LaneRows(c))
  BY <1>4, <1>13, <1>14
<1>16. (\A x \in ToSet(Lanes) : r \notin ToSet(x.rows)) <=> \A c \in S : r \notin ToSet(LaneRows(c))
  BY <1>4, <1>13, <1>14
<1>17. (\E x \in ToSet(ss) : ~x.hidden /\ r \in ToSet(x.rows)) <=>
         \/ \E c \in S : ~c.hidden /\ r \in ToSet(LaneRows(c))
         \/ r \in ToSet(RowIDs) /\ \A c \in S : r \notin ToSet(LaneRows(c))
  BY <1>5, <1>10, <1>12, <1>15, <1>16
<1>18. QED
  BY <1>12, <1>17 DEF ss, S

\* The buckets of a row are those that hold it.
LEMMA BucketsOfFacts ==
  ASSUME NEW r
  PROVE  \A k : k \in BucketsOf(r) <=> k \in DOMAIN buckets /\ r \in ToSet(buckets[k])
BY DEF BucketsOf, Filled, ToSet

\* A group may take the bucket that is asked for in its name.
LEMMA OwnMayTake ==
  ASSUME NEW k, NEW i \in OwnGroup(k)
  PROVE  i \in MayTake(k)
<1>1. i \in DOMAIN Groups /\ k = QueryLabel(Groups[i])
  BY DEF OwnGroup
<1>2. QED
  BY <1>1 DEF MayTake

\* On a board, a row is shown if none of its buckets is hidden, and is not if all are.
LEMMA BoardShown ==
  ASSUME Answered, Rendered, NEW r \in Known, rows[r].there, view.type = "board"
  PROVE  /\ (\A k \in BucketsOf(r) : ~MayBeHidden(k)) => OnPage(r)
         /\ BucketsOf(r) # {} /\ (\A k \in BucketsOf(r) : IsHidden(k)) => ~OnPage(r)
<1> DEFINE S == ToSet(columns)
<1>1. sections = Visible(Lanes \o Unplaced(Lanes))
  BY DEF Rendered
<1>2. OnPage(r) <=>
        \/ \E c \in S : ~c.hidden /\ r \in ToSet(LaneRows(c))
        \/ r \in ToSet(RowIDs) /\ \A c \in S : r \notin ToSet(LaneRows(c))
  BY <1>1, LanesFacts, VisibleFacts
<1>3. \A c : r \in ToSet(LaneRows(c)) <=>
                /\ QueryLabel(c) \in DOMAIN buckets
                /\ r \in ToSet(buckets[QueryLabel(c)])
  BY DEF LaneRows, ToSet
<1>4. CASE DOMAIN buckets = {}
  <2>1. r \in ToSet(RowIDs)
    BY <1>4 DEF Known
  <2>2. OnPage(r)
    BY <1>2, <1>3, <1>4, <2>1
  <2>3. BucketsOf(r) = {}
    BY <1>4, BucketsOfFacts
  <2>4. QED
    BY <2>2, <2>3
<1>5. CASE DOMAIN buckets # {}
  <2>1. S = {Groups[i] : i \in DOMAIN Groups}
    BY <1>5, GroupsFacts DEF ToSet
  <2>2. \A k : k \in BucketsOf(r) <=> k \in DOMAIN buckets /\ r \in ToSet(buckets[k])
    BY BucketsOfFacts
  <2>3. \A i \in DOMAIN Groups : r \in ToSet(LaneRows(Groups[i])) <=> QueryLabel(Groups[i]) \in BucketsOf(r)
    BY <1>3, <2>2
  <2>4. OnPage(r) <=>
          \/ \E i \in DOMAIN Groups : ~Groups[i].hidden /\ QueryLabel(Groups[i]) \in BucketsOf(r)
          \/ r \in ToSet(RowIDs) /\ \A i \in DOMAIN Groups : QueryLabel(Groups[i]) \notin BucketsOf(r)
    BY <1>2, <2>1, <2>3
  <2>5. r \in ToSet(RowIDs) \/ \E i \in DOMAIN Groups : QueryLabel(Groups[i]) \in BucketsOf(r)
    <3>1. SUFFICES ASSUME r \notin ToSet(RowIDs)
                   PROVE  \E i \in DOMAIN Groups : QueryLabel(Groups[i]) \in BucketsOf(r)
      OBVIOUS
    <3>2. PICK k \in DOMAIN buckets : Reads(k) /\ r \in ToSet(buckets[k])
      BY <3>1 DEF Known
    <3>3. OwnGroup(k) # {}
      BY <3>2 DEF Reads
    <3>4. PICK i \in DOMAIN Groups : QueryLabel(Groups[i]) = k
      BY <3>3 DEF OwnGroup
    <3>5. QED
      BY <2>2, <3>2, <3>4
  <2>6. \A i \in DOMAIN Groups : i \in OwnGroup(QueryLabel(Groups[i]))
    BY DEF OwnGroup
  <2>7. (\A k \in BucketsOf(r) : ~MayBeHidden(k)) => OnPage(r)
    <3>1. \A i \in DOMAIN Groups : Groups[i].hidden => MayBeHidden(QueryLabel(Groups[i]))
      BY <2>6, OwnMayTake DEF MayBeHidden
    <3>2. QED
      BY <2>4, <2>5, <3>1
  <2>8. BucketsOf(r) # {} /\ (\A k \in BucketsOf(r) : IsHidden(k)) => ~OnPage(r)
    <3>1. SUFFICES ASSUME BucketsOf(r) # {}, \A k \in BucketsOf(r) : IsHidden(k)
                   PROVE  ~OnPage(r)
      OBVIOUS
    <3>2. \A i \in DOMAIN Groups : QueryLabel(Groups[i]) \in BucketsOf(r) => Groups[i].hidden
      BY <2>6, <3>1 DEF IsHidden
    <3>3. \E i \in DOMAIN Groups : QueryLabel(Groups[i]) \in BucketsOf(r)
      BY <3>1 DEF IsHidden, OwnGroup
    <3>4. QED
      BY <2>4, <3>2, <3>3
  <2>9. QED
    BY <2>7, <2>8
<1>6. QED
  BY <1>4, <1>5

\* Ungrouped, all rows are in one section.
LEMMA UngroupedShown ==
  ASSUME Answered, Rendered, NEW r \in ToSet(RowIDs), rows[r].there, view.type = "table",
         ~view.grouped, DOMAIN buckets = {}
  PROVE  OnPage(r)
<1> DEFINE e == Section("", RowIDs, FALSE)
<1>1. sections = Visible(<<e>>)
  BY DEF Rendered, RowSections, Ungrouped
<1>2. e.rows = RowIDs /\ ~e.hidden
  BY Zenon DEF Section
<1> HIDE DEF e
<1>3. SectionList(<<e>>) /\ ToSet(<<e>>) = {e}
  <2>1. \A x \in {e} : x.rows \in Seq(Row)
    BY <1>2, RowIDsFacts
  <2>2. <<e>> \in Seq({e}) /\ ToSet(<<e>>) = {e}
    BY OneInList
  <2>3. QED
    BY <2>1, <2>2, ListOfSections
<1>4. QED
  BY <1>1, <1>2, <1>3, VisibleFacts

\* The keys in their order, and the first of them.
LEMMA KeysFacts ==
  ASSUME NEW K \in SUBSET Keys
  PROVE  /\ Sorted(K) \in Seq(STRING) /\ ToSet(Sorted(K)) = K
         /\ K # {} => FirstKey(K) \in K
         /\ K = {} => FirstKey(K) = None
<1> DEFINE o == Sorted(K)
<1>1. KeyOrder \in Seq(STRING)
  BY ViewsAssumption
<1>2. ToSet(o) = {KeyOrder[i] : i \in {j \in DOMAIN KeyOrder : KeyOrder[j] \in K} \cap DOMAIN KeyOrder}
  BY <1>1, PickMembers DEF Sorted, Select
<1>3. K \subseteq {KeyOrder[i] : i \in DOMAIN KeyOrder}
  BY DEF Keys, ToSet
<1>4. o \in Seq(STRING)
  BY <1>1, PickClimbs DEF Sorted, Select
<1>5. ToSet(o) = K
  BY <1>2, <1>3
<1>6. FirstKey(K) = IF K = {} THEN None ELSE Head(o)
  BY DEF FirstKey
<1> HIDE DEF o
<1>7. K # {} => Head(o) \in K
  <2>1. SUFFICES ASSUME K # {}
                 PROVE  Head(o) \in K
    OBVIOUS
  <2>2. o # <<>>
    BY <1>5, <2>1 DEF ToSet
  <2>3. Head(o) = o[1] /\ 1 \in DOMAIN o
    BY <1>4, <2>2, LenProperties
  <2>4. QED
    BY <1>5, <2>3 DEF ToSet
<1>8. QED
  BY <1>4, <1>5, <1>6, <1>7 DEF o

\* Grouped without buckets, a row is in the sections of its values.
LEMMA FromViewShown ==
  ASSUME Answered, Rendered, NEW r \in ToSet(RowIDs), rows[r].there, view.type = "table",
         view.grouped, DOMAIN buckets = {}
  PROVE  OnPage(r) <=> ByValue(r)
<1> DEFINE D == DOMAIN Groups
           there == Shown(RowIDs)
           Of(l) == Select(there, LAMBDA q : l \in Values(q))
           One(i) == Section(Label(Groups[i]), Of(Label(Groups[i])), Groups[i].hidden)
           Rest(l) == Section(l, Of(l), FALSE)
           s == [i \in D |-> One(i)]
           here == {j \in DOMAIN s : s[j].rows # <<>>}
           first == Pick(s, here)
           labels == (UNION {Values(q) : q \in ToSet(there)}) \ {Label(Groups[i]) : i \in D}
           left == Sorted(labels)
           last == [i \in DOMAIN left |-> Rest(left[i])]
<1>1. GroupsFromView = first \o last
  BY DEF GroupsFromView, Select, Shown
<1>2. there \in Seq(Row) /\ ToSet(there) \subseteq Row /\ r \in ToSet(there)
  <2>1. RowIDs \in Seq(Row)
    BY RowIDsFacts
  <2>2. there \in Seq(Row) /\ r \in ToSet(there)
    BY <2>1, ShownFacts
  <2>3. QED
    BY <2>2, LenProperties, ElementOfSeq DEF ToSet
<1> HIDE DEF there
<1>3. \A l : Of(l) \in Seq(Row) /\ (r \in ToSet(Of(l)) <=> l \in Values(r))
  <2> SUFFICES ASSUME NEW l
               PROVE  Of(l) \in Seq(Row) /\ (r \in ToSet(Of(l)) <=> l \in Values(r))
    OBVIOUS
  <2> DEFINE his == {j \in DOMAIN there : l \in Values(there[j])}
  <2>1. Of(l) = Pick(there, his)
    BY DEF Select
  <2>2. /\ Pick(there, his) \in Seq(Row)
        /\ ToSet(Pick(there, his)) = {there[j] : j \in his \cap DOMAIN there}
    <3> HIDE DEF his
    <3>1. QED
      BY <1>2, PickMembers, PickClimbs
  <2>3. \E j \in DOMAIN there : there[j] = r
    BY <1>2 DEF ToSet
  <2>4. r \in ToSet(Pick(there, his)) <=> l \in Values(r)
    BY <2>2, <2>3
  <2>5. QED
    BY <2>1, <2>2, <2>4
<1>4. D = 1..Len(Groups) /\ Len(Groups) \in Nat /\ \A i \in D : Groups[i].hidden \in BOOLEAN
  BY GroupsFacts DEF GroupRecord
<1> HIDE DEF Of, D
<1>5. \A i \in D : One(i).rows = Of(Label(Groups[i])) /\ (One(i).hidden <=> Groups[i].hidden)
  BY <1>4 DEF Section
<1>6. \A l : Rest(l).rows = Of(l) /\ ~Rest(l).hidden
  BY DEF Section
<1> HIDE DEF One, Rest
<1>7. s \in Seq({One(i) : i \in D}) /\ DOMAIN s = D /\ \A i \in D : s[i] = One(i)
  BY <1>4
<1> HIDE DEF s
<1>8. SectionList(first) /\ ToSet(first) = {One(i) : i \in {j \in D : One(j).rows # <<>>}}
  <2>1. first \in Seq({One(i) : i \in D}) /\ ToSet(first) = {s[i] : i \in here \cap DOMAIN s}
    BY <1>7, PickMembers, PickClimbs
  <2>2. \A x \in {One(i) : i \in D} : x.rows \in Seq(Row)
    BY <1>3, <1>5
  <2>3. SectionList(first)
    BY <2>1, <2>2, ListOfSections
  <2>4. QED
    BY <1>7, <2>1, <2>3
<1>9. labels \in SUBSET Keys
  <2>1. \A q \in Row : Values(q) \subseteq Keys
    <3>1. \A q \in Row : rows[q] \in RowRecord
      BY RowsFacts DEF Answered
    <3>2. \A q \in Row : rows[q].labels \subseteq Keys
      BY <3>1 DEF RowRecord
    <3>3. NoValue \in Keys
      BY ViewsAssumption
    <3>4. QED
      BY <3>2, <3>3 DEF Values
  <2>2. QED
    BY <1>2, <2>1
<1>10. left \in Seq(STRING) /\ ToSet(left) = labels
  BY <1>9, KeysFacts
<1>11. Values(r) # {} /\ \A l \in Values(r) : (\A i \in D : Label(Groups[i]) # l) <=> l \in labels
  <2>1. Values(r) # {}
    BY DEF Values
  <2>2. \A l \in Values(r) : l \in UNION {Values(q) : q \in ToSet(there)}
    BY <1>2
  <2>3. QED
    BY <2>1, <2>2
<1> HIDE DEF left, labels, first
<1>12. SectionList(last) /\ ToSet(last) = {Rest(l) : l \in labels}
  <2>1. DOMAIN left = 1..Len(left) /\ Len(left) \in Nat
    BY <1>10, LenProperties
  <2>2. ToSet(last) = {Rest(l) : l \in labels} /\ last \in Seq({Rest(l) : l \in labels})
    <3>1. labels = {left[i] : i \in DOMAIN left}
      BY <1>10 DEF ToSet
    <3>2. DOMAIN last = DOMAIN left /\ \A i \in DOMAIN left : last[i] = Rest(left[i])
      OBVIOUS
    <3>3. ToSet(last) = {Rest(l) : l \in labels}
      BY <3>1, <3>2 DEF ToSet
    <3>4. QED
      BY <2>1, <3>1, <3>3
  <2>3. \A x \in {Rest(l) : l \in labels} : x.rows \in Seq(Row)
    BY <1>3, <1>6
  <2>4. QED
    BY <2>2, <2>3, ListOfSections
<1> HIDE DEF last
<1>13. SectionList(GroupsFromView) /\ ToSet(GroupsFromView) = ToSet(first) \cup ToSet(last)
  BY <1>1, <1>8, <1>12, TwoLists
<1>14. \A i \in D : Label(Groups[i]) \in Values(r) => One(i) \in ToSet(GroupsFromView) /\ r \in ToSet(One(i).rows)
  <2> SUFFICES ASSUME NEW i \in D, Label(Groups[i]) \in Values(r)
               PROVE  One(i) \in ToSet(GroupsFromView) /\ r \in ToSet(One(i).rows)
    OBVIOUS
  <2>1. r \in ToSet(One(i).rows)
    BY <1>3, <1>5
  <2>2. One(i).rows # <<>>
    BY <2>1 DEF ToSet
  <2>3. QED
    BY <1>8, <1>13, <2>1, <2>2
<1>15. \A l \in Values(r) \cap labels : Rest(l) \in ToSet(GroupsFromView) /\ r \in ToSet(Rest(l).rows)
  BY <1>3, <1>6, <1>12, <1>13
<1>16. GroupsFromView # <<>>
  <2>1. \E x : x \in ToSet(GroupsFromView)
    <3>1. PICK l \in Values(r) : TRUE
      BY <1>11
    <3>2. CASE l \in labels
      BY <1>15, <3>2
    <3>3. CASE l \notin labels
      <4>1. PICK i \in D : Label(Groups[i]) = l
        BY <1>11, <3>3
      <4>2. QED
        BY <1>14, <4>1
    <3>4. QED
      BY <3>2, <3>3
  <2>2. QED
    BY <2>1 DEF ToSet
<1>17. sections = Visible(GroupsFromView)
  BY <1>16 DEF Rendered, RowSections
<1>18. OnPage(r) <=> \E x \in ToSet(GroupsFromView) : ~x.hidden /\ r \in ToSet(x.rows)
  BY <1>13, <1>17, VisibleFacts
<1>19. ASSUME OnPage(r)
       PROVE  ByValue(r)
  <2>1. PICK x \in ToSet(GroupsFromView) : ~x.hidden /\ r \in ToSet(x.rows)
    BY <1>18, <1>19
  <2>2. CASE x \in ToSet(first)
    <3>1. PICK i \in D : x = One(i)
      BY <1>8, <2>2
    <3>2. Label(Groups[i]) \in Values(r) /\ ~Groups[i].hidden
      BY <1>3, <1>5, <2>1, <3>1
    <3>3. QED
      BY <3>2 DEF ByValue, D
  <2>3. CASE x \in ToSet(last)
    <3>1. PICK l \in labels : x = Rest(l)
      BY <1>12, <2>3
    <3>2. l \in Values(r)
      BY <1>3, <1>6, <2>1, <3>1
    <3>3. QED
      BY <1>11, <3>2 DEF ByValue, D
  <2>4. QED
    BY <1>13, <2>2, <2>3
<1>20. ASSUME ByValue(r)
       PROVE  OnPage(r)
  <2>1. PICK l \in Values(r) : \/ \A i \in D : Label(Groups[i]) # l
                              \/ \E i \in D : Label(Groups[i]) = l /\ ~Groups[i].hidden
    BY <1>20 DEF ByValue, D
  <2>2. CASE \A i \in D : Label(Groups[i]) # l
    BY <1>6, <1>11, <1>15, <1>18, <2>2
  <2>3. CASE \E i \in D : Label(Groups[i]) = l /\ ~Groups[i].hidden
    BY <1>5, <1>14, <1>18, <2>3
  <2>4. QED
    BY <2>1, <2>2, <2>3
<1>21. QED
  BY <1>19, <1>20

\* A pass gives a group what it names, or leaves it what it has; what a group without
\* a bucket names is taken by the end of the pass.
LEMMA ClaimFacts ==
  ASSUME Answered, NEW m, NEW nm, DOMAIN m = DOMAIN Groups
  PROVE  LET c == Claim(m, nm) IN
         /\ DOMAIN c = DOMAIN Groups
         /\ \A i \in DOMAIN Groups :
              /\ m[i] # None => c[i] = m[i]
              /\ c[i] = m[i] \/ (c[i] = nm[i] /\ nm[i] \notin ToSet(m))
              /\ m[i] = None /\ nm[i] \notin ToSet(m) => nm[i] \in ToSet(c)
         /\ \A k \in ToSet(m) : k # None => k \in ToSet(c)
<1> DEFINE c == Claim(m, nm)
           D == DOMAIN Groups
           First(i) == /\ m[i] = None /\ nm[i] \notin ToSet(m)
                       /\ \A j \in 1..i - 1 : m[j] = None => nm[j] # nm[i]
<1>1. c = [i \in D |-> IF First(i) THEN nm[i] ELSE m[i]]
  BY DEF Claim
<1>2. D \in SUBSET Nat /\ \A i \in D : \A j \in 1..i - 1 : j \in D
  BY GroupsFacts
<1> HIDE DEF c
<1>3. DOMAIN c = D /\ \A i \in D : c[i] = IF First(i) THEN nm[i] ELSE m[i]
  BY <1>1
<1>4. \A i \in D : m[i] # None => c[i] = m[i]
  BY <1>3
<1>5. \A i \in D : c[i] = m[i] \/ (c[i] = nm[i] /\ nm[i] \notin ToSet(m))
  BY <1>3
<1>6. ASSUME NEW i \in D, m[i] = None, nm[i] \notin ToSet(m)
      PROVE  nm[i] \in ToSet(c)
  <2> DEFINE W == {j \in D : m[j] = None /\ nm[j] = nm[i]}
  <2>1. W \in SUBSET Nat /\ W # {}
    BY <1>2, <1>6
  <2>2. PICK j \in W : \A l \in W : j <= l
    BY <2>1, LeastNumber
  <2>3. j \in D /\ j \in Nat /\ m[j] = None /\ nm[j] = nm[i]
    BY <1>2, <2>2
  <2>4. ASSUME NEW l \in 1..j - 1, m[l] = None
        PROVE  nm[l] # nm[j]
    <3>1. l \in D /\ l \in Nat /\ ~(j <= l)
      BY <1>2, <2>3
    <3>2. QED
      BY <2>2, <2>3, <2>4, <3>1
  <2>5. First(j)
    BY <1>6, <2>3, <2>4
  <2>6. c[j] = nm[i]
    BY <1>3, <2>3, <2>5
  <2>7. QED
    BY <1>3, <2>3, <2>6 DEF ToSet
<1>7. \A k \in ToSet(m) : k # None => k \in ToSet(c)
  BY <1>3, <1>4 DEF ToSet
<1>8. QED
  BY <1>3, <1>4, <1>5, <1>6, <1>7 DEF c

\* What the groups name.
LEMMA NamesFacts ==
  ASSUME Answered, NEW i \in DOMAIN Groups
  PROVE  LET g == Groups[i] IN
         /\ Filled \subseteq Keys /\ None \notin Filled
         /\ ByLabel(g) # None => ByLabel(g) \in Filled /\ Decode[ByLabel(g)] = Label(g)
         /\ \A k \in Filled : Decode[k] = Label(g) => ByLabel(g) # None
         /\ ByKey(g) # None => ByKey(g) \in Filled /\ ByKey(g) \in {Label(g), Escaped[Label(g)]}
         /\ Label(g) \in Filled => ByKey(g) = Label(g)
         /\ ByFolded(g) # None => ByFolded(g) \in Filled /\ Fold[Decode[ByFolded(g)]] = Fold[Label(g)]
<1> DEFINE g == Groups[i]
           K == {k \in Filled : Decode[k] = Label(g)}
           L == {k \in Filled : Fold[Decode[k]] = Fold[Label(g)]}
<1>1. Filled \subseteq Keys /\ None \notin Keys
  BY ViewsAssumption DEF Filled, Answered
<1>2. K \in SUBSET Keys /\ L \in SUBSET Keys
  BY <1>1
<1>3. ByLabel(g) = FirstKey(K) /\ ByFolded(g) = FirstKey(L)
  BY DEF ByLabel, ByFolded
<1>4. /\ K # {} => FirstKey(K) \in K
      /\ K = {} => FirstKey(K) = None
      /\ L # {} => FirstKey(L) \in L
      /\ L = {} => FirstKey(L) = None
  BY <1>2, KeysFacts
<1>5. ByLabel(g) # None => ByLabel(g) \in K
  BY <1>3, <1>4
<1>6. K # {} => ByLabel(g) # None
  BY <1>1, <1>2, <1>3, <1>4
<1>7. ByFolded(g) # None => ByFolded(g) \in L
  BY <1>3, <1>4
<1>8. /\ ByKey(g) # None => ByKey(g) \in Filled /\ ByKey(g) \in {Label(g), Escaped[Label(g)]}
      /\ Label(g) \in Filled => ByKey(g) = Label(g)
  BY DEF ByKey
<1>9. QED
  BY <1>1, <1>5, <1>6, <1>7, <1>8

\* Who names a distinct bucket by label or by key is one of its own groups.
LEMMA NamesOwn ==
  ASSUME Answered, NEW i \in DOMAIN Groups, NEW k \in Filled, Distinct(k),
         k = ByLabel(Groups[i]) \/ k = ByKey(Groups[i])
  PROVE  i \in OwnGroup(k)
<1> DEFINE g == Groups[i]
<1>1. /\ Filled \subseteq Keys /\ None \notin Filled
      /\ Label(g) \in DOMAIN Escaped
      /\ Decode[k] = Label(g) => i \in OwnGroup(k)
      /\ QueryLabel(g) = k => i \in OwnGroup(k)
  BY NamesFacts, GroupsFacts DEF Distinct, OwnGroup
<1>2. CASE k = ByLabel(g)
  BY <1>1, <1>2, NamesFacts
<1>3. CASE k = ByKey(g)
  <2>1. k \in {Label(g), Escaped[Label(g)]}
    BY <1>1, <1>3, NamesFacts
  <2>2. CASE k = Label(g)
    <3>1. CASE g.value = None
      <4>1. k = NoValue /\ Decode[k] = NoValue
        BY <2>2, <3>1, ViewsAssumption DEF Label
      <4>2. QED
        BY <1>1, <2>2, <4>1
    <3>2. CASE g.value # None
      BY <1>1, <2>2, <3>2 DEF Label, QueryLabel
    <3>3. QED
      BY <3>1, <3>2
  <2>3. CASE k = Escaped[Label(g)] /\ k = Uncategorized
    <3>1. Label(g) = Uncategorized
      BY <1>1, <2>3, ViewsAssumption
    <3>2. QED
      BY <2>2, <2>3, <3>1
  <2>4. CASE k = Escaped[Label(g)] /\ k # Uncategorized
    <3>1. Decode[k] = Label(g)
      BY <1>1, <2>4, ViewsAssumption
    <3>2. QED
      BY <1>1, <3>1
  <2>5. QED
    BY <2>1, <2>2, <2>3, <2>4
<1>4. QED
  BY <1>2, <1>3

\* The passes: every group gets a bucket that may go with it, and a distinct bucket with
\* groups of its own goes with one of them, in the first two passes.
LEMMA PassesFacts ==
  ASSUME Answered
  PROVE  /\ DOMAIN Matched = DOMAIN Groups
         /\ \A i \in DOMAIN Groups : Matched[i] # None =>
              Matched[i] \in Filled /\ i \in MayTake(Matched[i])
         /\ \A k \in Filled : OwnGroup(k) # {} /\ Distinct(k) => k \in ToSet(Matched)
<1> DEFINE D == DOMAIN Groups
           labels == [i \in D |-> ByLabel(Groups[i])]
           keys == [i \in D |-> ByKey(Groups[i])]
           folded == [i \in D |-> ByFolded(Groups[i])]
           none == Unmatched
           one == AfterLabels
           two == AfterKeys
           three == Matched
<1>1. /\ DOMAIN none = D /\ \A i \in D : none[i] = None
      /\ one = Claim(none, labels) /\ two = Claim(one, keys) /\ three = Claim(two, folded)
  BY DEF Unmatched, AfterLabels, AfterKeys, Matched
<1>2. \A i \in D : labels[i] = ByLabel(Groups[i]) /\ keys[i] = ByKey(Groups[i]) /\ folded[i] = ByFolded(Groups[i])
  OBVIOUS
<1>3. ToSet(none) \subseteq {None}
  BY <1>1 DEF ToSet
<1> HIDE DEF labels, keys, folded, none, one, two, three
<1>4. /\ DOMAIN one = D
      /\ \A i \in D :
           /\ one[i] = None \/ one[i] = labels[i]
           /\ labels[i] # None => labels[i] \in ToSet(one)
  BY <1>1, <1>3, ClaimFacts
<1>5. /\ DOMAIN two = D
      /\ \A i \in D :
           /\ one[i] # None => two[i] = one[i]
           /\ two[i] = one[i] \/ two[i] = keys[i]
           /\ one[i] = None /\ keys[i] \notin ToSet(one) => keys[i] \in ToSet(two)
      /\ \A k \in ToSet(one) : k # None => k \in ToSet(two)
  BY <1>1, <1>4, ClaimFacts
<1>6. /\ DOMAIN three = D
      /\ \A i \in D : three[i] = two[i] \/ (three[i] = folded[i] /\ folded[i] \notin ToSet(two))
      /\ \A k \in ToSet(two) : k # None => k \in ToSet(three)
  BY <1>1, <1>5, ClaimFacts
<1>7. \A i \in D : two[i] # None =>
        two[i] \in Filled /\ (two[i] = ByLabel(Groups[i]) \/ two[i] = ByKey(Groups[i]))
  <2> SUFFICES ASSUME NEW i \in D, two[i] # None
               PROVE  two[i] \in Filled /\ (two[i] = ByLabel(Groups[i]) \/ two[i] = ByKey(Groups[i]))
    OBVIOUS
  <2>1. two[i] = ByLabel(Groups[i]) \/ two[i] = ByKey(Groups[i])
    BY <1>2, <1>4, <1>5
  <2>2. QED
    BY <2>1, NamesFacts
<1>8. ASSUME NEW k \in Filled, NEW i \in OwnGroup(k), Distinct(k)
      PROVE  k \in ToSet(two)
  <2>1. i \in D /\ k = QueryLabel(Groups[i])
    BY <1>8 DEF OwnGroup
  <2>2. k # None /\ \A l \in Filled : Decode[l] = Label(Groups[i]) => l = k
    BY <1>8, <2>1, NamesFacts DEF Distinct
  <2>3. ByLabel(Groups[i]) # None => ByLabel(Groups[i]) = k
    BY <2>1, <2>2, NamesFacts
  <2>4. CASE ByLabel(Groups[i]) # None
    BY <1>2, <1>4, <1>5, <2>1, <2>2, <2>3, <2>4
  <2>5. CASE ByLabel(Groups[i]) = None
    <3>1. Groups[i].value # None
      <4>1. SUFFICES ASSUME Groups[i].value = None
                     PROVE  FALSE
        OBVIOUS
      <4>2. k = Uncategorized /\ Label(Groups[i]) = NoValue
        BY <2>1, <4>1 DEF QueryLabel, Label
      <4>3. Decode[k] = Label(Groups[i])
        BY <4>2, ViewsAssumption
      <4>4. QED
        BY <1>8, <2>1, <2>5, <4>3, NamesFacts
    <3>2. Label(Groups[i]) = k
      BY <2>1, <3>1 DEF QueryLabel, Label
    <3>3. keys[i] = k /\ one[i] = None
      BY <1>2, <1>4, <1>8, <2>1, <2>5, <3>2, NamesFacts
    <3>4. QED
      BY <1>5, <2>1, <2>2, <3>3
  <2>6. QED
    BY <2>4, <2>5
<1>9. ASSUME NEW i \in D, three[i] # None
      PROVE  three[i] \in Filled /\ i \in MayTake(three[i])
  <2> DEFINE k == three[i]
  <2>1. CASE k = two[i]
    <3>1. k \in Filled /\ (k = ByLabel(Groups[i]) \/ k = ByKey(Groups[i]))
      BY <1>7, <1>9, <2>1
    <3>2. CASE OwnGroup(k) # {} /\ Distinct(k)
      BY <3>1, <3>2, NamesOwn DEF MayTake
    <3>3. CASE ~(OwnGroup(k) # {} /\ Distinct(k))
      <4>1. \/ k \in {QueryLabel(Groups[i]), Escaped[Label(Groups[i])]}
            \/ Fold[Label(Groups[i])] = Fold[Decode[k]]
        <5>1. CASE k = ByLabel(Groups[i])
          <6>1. Decode[k] = Label(Groups[i])
            BY <1>9, <5>1, NamesFacts
          <6>2. QED
            BY <6>1
        <5>2. CASE k = ByKey(Groups[i])
          <6>1. k = Label(Groups[i]) \/ k = Escaped[Label(Groups[i])]
            BY <1>9, <5>2, NamesFacts
          <6>2. CASE k = Label(Groups[i]) /\ Groups[i].value = None
            <7>1. Decode[k] = k
              BY <6>2, ViewsAssumption DEF Label
            <7>2. QED
              BY <6>2, <7>1
          <6>3. CASE k = Label(Groups[i]) /\ Groups[i].value # None
            BY <6>3 DEF Label, QueryLabel
          <6>4. QED
            BY <6>1, <6>2, <6>3
        <5>3. QED
          BY <3>1, <5>1, <5>2
      <4>2. QED
        BY <3>1, <3>3, <4>1 DEF MayTake
    <3>4. QED
      BY <3>1, <3>2, <3>3
  <2>2. CASE k = folded[i] /\ folded[i] \notin ToSet(two)
    <3>1. k = ByFolded(Groups[i])
      BY <1>2, <2>2
    <3>2. k \in Filled /\ Fold[Decode[k]] = Fold[Label(Groups[i])]
      BY <1>9, <3>1, NamesFacts
    <3>3. ~(OwnGroup(k) # {} /\ Distinct(k))
      BY <1>8, <2>2, <3>2
    <3>4. QED
      BY <3>2, <3>3 DEF MayTake
  <2>3. QED
    BY <1>6, <2>1, <2>2
<1>10. \A k \in Filled : OwnGroup(k) # {} /\ Distinct(k) => k \in ToSet(three)
  <2>1. SUFFICES ASSUME NEW k \in Filled, NEW i \in OwnGroup(k), Distinct(k)
                 PROVE  k \in ToSet(three)
    OBVIOUS
  <2>2. k # None
    BY NamesFacts DEF OwnGroup
  <2>3. QED
    BY <1>6, <1>8, <2>1, <2>2
<1>11. QED
  BY <1>6, <1>9, <1>10 DEF three

\* No group of a view is the group that stands for none.
LEMMA GroupsHaveNoLabel ==
  ASSUME NEW g \in GroupRecord, NEW x
  PROVE  g # [value |-> None, hidden |-> FALSE, label |-> x]
<1>1. DOMAIN g = {"value", "hidden"}
  BY DEF GroupRecord
<1>2. DOMAIN [value |-> None, hidden |-> FALSE, label |-> x] = {"value", "hidden", "label"}
  OBVIOUS
<1>3. QED
  BY <1>1, <1>2

LEMMA NoGroupIsNone ==
  /\ \A g \in GroupRecord : g # NoGroup
  /\ ~NoGroup.hidden
<1>1. ~NoGroup.hidden
  BY Zenon DEF NoGroup
<1>2. QED
  BY <1>1, GroupsHaveNoLabel, Zenon DEF NoGroup

\* A bucket that is left goes with a group of its label, but for case, or with none.
LEMMA GroupOfFacts ==
  ASSUME Answered, NEW l \in DOMAIN Fold
  PROVE  \/ GroupOf(l) = NoGroup
         \/ \E j \in DOMAIN Groups : GroupOf(l) = Groups[j] /\ Fold[Label(Groups[j])] = Fold[l]
<1> DEFINE exact == {i \in DOMAIN Groups : Label(Groups[i]) = l}
           folded == {i \in DOMAIN Groups : Fold[Label(Groups[i])] = l}
<1>1. /\ exact \in SUBSET Int /\ IsFiniteSet(exact) /\ exact \subseteq DOMAIN Groups
      /\ folded \in SUBSET Int /\ IsFiniteSet(folded) /\ folded \subseteq DOMAIN Groups
  <2>1. DOMAIN Groups = 1..Len(Groups) /\ Len(Groups) \in Nat
    BY GroupsFacts
  <2>2. IsFiniteSet(DOMAIN Groups)
    BY <2>1, FS_Interval
  <2>3. exact \subseteq DOMAIN Groups /\ folded \subseteq DOMAIN Groups
    OBVIOUS
  <2> HIDE DEF exact, folded
  <2>4. QED
    BY <2>1, <2>2, <2>3, FS_Subset
<1>2. \A i \in folded : Fold[Label(Groups[i])] = Fold[l]
  BY GroupsFacts, ViewsAssumption
<1>3. \A i \in exact : Fold[Label(Groups[i])] = Fold[l]
  OBVIOUS
<1>4. GroupOf(l) = IF exact # {} THEN Groups[Max(exact)] ELSE IF folded # {} THEN Groups[Min(folded)] ELSE NoGroup
  BY DEF GroupOf
<1> HIDE DEF exact, folded
<1>5. /\ exact # {} => Max(exact) \in exact
      /\ folded # {} => Min(folded) \in folded
  BY <1>1, Extremes
<1>6. QED
  BY <1>1, <1>2, <1>3, <1>4, <1>5

LEMMA GroupOfKeyFacts ==
  ASSUME Answered, NEW k \in Keys
  PROVE  \/ GroupOfKey(k) = NoGroup
         \/ \E j \in DOMAIN Groups :
              GroupOfKey(k) = Groups[j] /\ Fold[Label(Groups[j])] = Fold[Decode[k]]
<1>1. /\ Decode[k] \in DOMAIN Fold /\ Fold[Decode[k]] \in DOMAIN Fold
      /\ Fold[Fold[Decode[k]]] = Fold[Decode[k]]
  BY ViewsAssumption
<1>2. QED
  BY <1>1, GroupOfFacts DEF GroupOfKey

\* A filled bucket with a group that may take it, or with none, which a distinct bucket
\* with groups of its own never is.
WellMatched(c) ==
  /\ c[1] \in Filled
  /\ \/ \E j \in MayTake(c[1]) : c[2] = Groups[j]
     \/ c[2] = NoGroup /\ ~(OwnGroup(c[1]) # {} /\ Distinct(c[1]))

LEMMA PairsFacts ==
  ASSUME Answered
  PROVE  LET all == Claimed \o Remaining IN
         /\ all \in Seq(ToSet(all))
         /\ \A c \in ToSet(all) : WellMatched(c)
         /\ \A k \in Filled : \E c \in ToSet(all) : c[1] = k
<1> DEFINE D == DOMAIN Groups
           s == [i \in D |-> <<Matched[i], Groups[i]>>]
           here == {i \in DOMAIN s : s[i][1] # None}
           left == Sorted(Filled \ ToSet(Matched))
           P == ToSet(Claimed)
           R == ToSet(Remaining)
<1>1. D = 1..Len(Groups) /\ Len(Groups) \in Nat
  BY GroupsFacts
<1>2. s \in Seq(ToSet(s))
  BY <1>1 DEF ToSet
<1>3. Claimed = Pick(s, here)
  BY DEF Claimed, Select
<1> HIDE DEF D
<1>4. DOMAIN s = D /\ \A i \in D : s[i] = <<Matched[i], Groups[i]>> /\ s[i][1] = Matched[i] /\ s[i][2] = Groups[i]
  OBVIOUS
<1> HIDE DEF s
<1>5. Claimed \in Seq(ToSet(s)) /\ P = {s[i] : i \in here \cap DOMAIN s}
  BY <1>2, <1>3, PickMembers, PickClimbs
<1>6. \A c \in P : \E i \in D : c = s[i] /\ Matched[i] # None
  BY <1>4, <1>5
<1>7. \A i \in D : Matched[i] # None => s[i] \in P
  BY <1>4, <1>5
<1>8. \A c \in P : WellMatched(c)
  <2> SUFFICES ASSUME NEW c \in P
               PROVE  WellMatched(c)
    OBVIOUS
  <2>1. PICK i \in D : c = s[i] /\ Matched[i] # None
    BY <1>6
  <2>2. c[1] = Matched[i] /\ c[2] = Groups[i] /\ i \in DOMAIN Groups
    BY <1>4, <2>1 DEF D
  <2>3. c[1] \in Filled /\ i \in MayTake(c[1])
    BY <2>1, <2>2, PassesFacts
  <2>4. QED
    BY <2>2, <2>3 DEF WellMatched
<1>9. Filled \ ToSet(Matched) \in SUBSET Keys
  BY DEF Filled, Answered
<1>10. left \in Seq(STRING) /\ ToSet(left) = Filled \ ToSet(Matched)
  BY <1>9, KeysFacts
<1>11. Remaining = [i \in DOMAIN left |-> <<left[i], GroupOfKey(left[i])>>]
  BY DEF Remaining
<1> HIDE DEF left
<1>12. DOMAIN left = 1..Len(left) /\ Len(left) \in Nat
  BY <1>10, LenProperties
<1>13. Remaining \in Seq(R)
  BY <1>11, <1>12 DEF ToSet
<1>14. \A c \in R : \E k \in ToSet(left) : c[1] = k /\ c[2] = GroupOfKey(k)
  BY <1>11 DEF ToSet
<1>15. \A k \in ToSet(left) : \E c \in R : c[1] = k
  BY <1>11 DEF ToSet
<1>16. \A c \in R : WellMatched(c)
  <2> SUFFICES ASSUME NEW c \in R
               PROVE  WellMatched(c)
    OBVIOUS
  <2>1. PICK k \in ToSet(left) : c[1] = k /\ c[2] = GroupOfKey(k)
    BY <1>14
  <2>2. k \in Filled /\ k \in Keys /\ k \notin ToSet(Matched)
    BY <1>9, <1>10
  <2>3. ~(OwnGroup(k) # {} /\ Distinct(k))
    BY <2>2, PassesFacts
  <2>4. \A j \in DOMAIN Groups : Fold[Label(Groups[j])] = Fold[Decode[k]] => j \in MayTake(k)
    BY <2>3 DEF MayTake
  <2>5. QED
    BY <2>1, <2>2, <2>3, <2>4, GroupOfKeyFacts DEF WellMatched
<1>17. \A k \in Filled : \E c \in P \cup R : c[1] = k
  <2> SUFFICES ASSUME NEW k \in Filled
               PROVE  \E c \in P \cup R : c[1] = k
    OBVIOUS
  <2>1. CASE k \in ToSet(left)
    BY <1>15, <2>1
  <2>2. CASE k \notin ToSet(left)
    <3>1. k \in ToSet(Matched) /\ k # None
      BY <1>9, <1>10, <2>2, ViewsAssumption DEF Filled, Answered
    <3>2. PICK i \in D : Matched[i] = k
      BY <3>1, PassesFacts DEF ToSet, D
    <3>3. s[i] \in P /\ s[i][1] = k
      BY <1>4, <1>7, <3>1, <3>2
    <3>4. QED
      BY <3>3
  <2>3. QED
    BY <2>1, <2>2
<1>18. Claimed \o Remaining \in Seq(P \cup R) /\ ToSet(Claimed \o Remaining) = P \cup R
  <2>1. Claimed \in Seq(P)
    BY <1>5, LenProperties DEF ToSet
  <2> HIDE DEF P, R
  <2>2. \A A, B : A \subseteq B => Seq(A) \subseteq Seq(B)
    OBVIOUS
  <2>3. P \subseteq P \cup R /\ R \subseteq P \cup R
    OBVIOUS
  <2>4. Claimed \in Seq(P \cup R) /\ Remaining \in Seq(P \cup R)
    BY <1>13, <2>1, <2>2, <2>3
  <2>5. QED
    BY <2>4, ConcatProperties, ToSetConcat DEF P, R
<1>19. QED
  BY <1>8, <1>16, <1>17, <1>18

\* The sections of a grouped table are the filled buckets, each as its group is, and one
\* of the rows in none of them.
LEMMA QuerySections ==
  ASSUME Answered
  PROVE  LET all == Claimed \o Remaining
             ss == GroupsOfQuery
         IN  /\ SectionList(ss)
             /\ \A c \in ToSet(all) : Emit(c) \in ToSet(ss)
             /\ \A x \in ToSet(ss) : \/ \E c \in ToSet(all) : x = Emit(c)
                                   \/ \A r \in ToSet(x.rows) : BucketsOf(r) = {}
             /\ \A r \in ToSet(RowIDs) : BucketsOf(r) = {} =>
                  \E x \in ToSet(ss) : ~x.hidden /\ r \in ToSet(x.rows)
<1> DEFINE all == Claimed \o Remaining
           A == ToSet(all)
           first == [i \in DOMAIN all |-> Emit(all[i])]
           x0 == Section(Other, Uncovered, FALSE)
           rest == IF Uncovered = <<>> THEN <<>> ELSE <<x0>>
<1>1. all \in Seq(A) /\ (\A c \in A : WellMatched(c))
  BY PairsFacts
<1>2. GroupsOfQuery = first \o rest
  BY DEF GroupsOfQuery
<1>3. DOMAIN all = 1..Len(all) /\ Len(all) \in Nat
  BY <1>1, LenProperties
<1> HIDE DEF all
<1>4. ToSet(first) = {Emit(c) : c \in A} /\ first \in Seq({Emit(c) : c \in A})
  BY <1>3 DEF ToSet
<1>5. \A c \in A : Emit(c).rows = buckets[c[1]] /\ buckets[c[1]] \in Seq(Row)
  BY <1>1 DEF WellMatched, Filled, Answered, Emit, Section
<1>6. SectionList(first)
  <2>1. \A x \in {Emit(c) : c \in A} : x.rows \in Seq(Row)
    BY <1>5
  <2>2. QED
    BY <1>4, <2>1, ListOfSections
<1>7. x0.rows = Uncovered /\ ~x0.hidden
  BY Zenon DEF Section
<1>8. /\ Uncovered \in Seq(Row)
      /\ \A r : r \in ToSet(Uncovered) <=> r \in ToSet(RowIDs) /\ BucketsOf(r) = {}
  <2> DEFINE here == {j \in DOMAIN RowIDs : \A k \in Filled : RowIDs[j] \notin ToSet(buckets[k])}
  <2>1. Uncovered = Pick(RowIDs, here)
    BY DEF Uncovered, Select
  <2>2. Uncovered \in Seq(Row) /\ ToSet(Uncovered) = {RowIDs[i] : i \in here \cap DOMAIN RowIDs}
    BY <2>1, RowIDsFacts, PickMembers, PickClimbs
  <2>3. \A r : BucketsOf(r) = {} <=> \A k \in Filled : r \notin ToSet(buckets[k])
    BY DEF BucketsOf
  <2>4. \A r : r \in ToSet(RowIDs) <=> \E j \in DOMAIN RowIDs : RowIDs[j] = r
    BY DEF ToSet
  <2>5. QED
    BY <2>2, <2>3, <2>4
<1> HIDE DEF x0, first, A
<1>9. SectionList(rest) /\ ToSet(rest) \subseteq {x0} /\ (Uncovered # <<>> => ToSet(rest) = {x0})
  <2>1. CASE Uncovered = <<>>
    BY <2>1 DEF SectionList, ToSet
  <2>2. CASE Uncovered # <<>>
    <3>1. \A x \in {x0} : x.rows \in Seq(Row)
      BY <1>7, <1>8
    <3>2. <<x0>> \in Seq({x0}) /\ ToSet(<<x0>>) = {x0}
      BY OneInList
    <3>3. SectionList(<<x0>>)
      BY <3>1, <3>2, ListOfSections
    <3>4. QED
      BY <2>2, <3>2, <3>3
  <2>3. QED
    BY <2>1, <2>2
<1> HIDE DEF rest
<1>10. SectionList(first \o rest) /\ ToSet(first \o rest) = ToSet(first) \cup ToSet(rest)
  BY <1>6, <1>9, TwoLists
<1>11. ToSet(GroupsOfQuery) = {Emit(c) : c \in A} \cup ToSet(rest) /\ SectionList(GroupsOfQuery)
  BY <1>2, <1>4, <1>10
<1>12. ASSUME NEW x \in ToSet(GroupsOfQuery)
       PROVE  (\E c \in A : x = Emit(c)) \/ \A r \in ToSet(x.rows) : BucketsOf(r) = {}
  BY <1>7, <1>8, <1>9, <1>11, <1>12
<1>13. ASSUME NEW r \in ToSet(RowIDs), BucketsOf(r) = {}
       PROVE  \E x \in ToSet(GroupsOfQuery) : ~x.hidden /\ r \in ToSet(x.rows)
  <2>1. r \in ToSet(Uncovered)
    BY <1>8, <1>13
  <2>2. Uncovered # <<>>
    BY <2>1 DEF ToSet
  <2>3. x0 \in ToSet(GroupsOfQuery)
    BY <1>9, <1>11, <2>2
  <2>4. QED
    BY <1>7, <2>1, <2>3
<1>14. \A c \in A : Emit(c) \in ToSet(GroupsOfQuery)
  BY <1>11
<1>15. QED
  BY <1>11, <1>12, <1>13, <1>14 DEF A, all

\* A section is hidden with the group of its bucket, and has that group's label.
LEMMA EmitFacts ==
  ASSUME Answered, NEW c, WellMatched(c)
  PROVE  /\ Emit(c).rows = buckets[c[1]] /\ c[1] \in Filled
         /\ Emit(c).hidden => MayBeHidden(c[1])
         /\ IsHidden(c[1]) => Emit(c).hidden
         /\ Distinct(c[1]) => \A i \in OwnGroup(c[1]) : Emit(c).head = Label(Groups[i])
<1>1. c[1] \in Filled /\ Emit(c).rows = buckets[c[1]] /\ Emit(c).hidden = c[2].hidden
  BY DEF WellMatched, Emit, Section
<1>2. CASE \E j \in MayTake(c[1]) : c[2] = Groups[j]
  <2>1. PICK j \in MayTake(c[1]) : c[2] = Groups[j]
    BY <1>2
  <2>2. j \in DOMAIN Groups /\ Groups[j] \in GroupRecord
    BY GroupsFacts DEF MayTake, OwnGroup
  <2>3. Emit(c).hidden => MayBeHidden(c[1])
    BY <1>1, <2>1 DEF MayBeHidden
  <2>4. IsHidden(c[1]) => Emit(c).hidden
    BY <1>1, <2>1 DEF IsHidden, MayTake
  <2>5. Emit(c).head = Label(Groups[j])
    <3>1. c[2] # NoGroup
      BY <2>1, <2>2, NoGroupIsNone
    <3>2. QED
      BY <2>1, <3>1 DEF Emit, Section
  <2>6. ASSUME Distinct(c[1]), NEW i \in OwnGroup(c[1])
        PROVE  Label(Groups[i]) = Label(Groups[j])
    <3>1. j \in OwnGroup(c[1])
      BY <2>6 DEF MayTake
    <3>2. i \in DOMAIN Groups /\ QueryLabel(Groups[i]) = QueryLabel(Groups[j])
      BY <2>6, <3>1 DEF OwnGroup
    <3>3. Groups[i].value # Uncategorized /\ Groups[j].value # Uncategorized
      BY <2>6, <3>1 DEF Distinct
    <3>4. QED
      BY <3>2, <3>3 DEF QueryLabel, Label
  <2>7. QED
    BY <1>1, <2>3, <2>4, <2>5, <2>6
<1>3. CASE c[2] = NoGroup /\ ~(OwnGroup(c[1]) # {} /\ Distinct(c[1]))
  <2>1. ~Emit(c).hidden
    BY <1>1, <1>3, NoGroupIsNone
  <2>2. ~IsHidden(c[1])
    BY <1>3 DEF IsHidden
  <2>3. QED
    BY <1>1, <1>3, <2>1, <2>2
<1>4. QED
  BY <1>2, <1>3 DEF WellMatched

\* In a grouped table, a row is shown if none of its buckets may be hidden with a
\* group, and is not if all are; a bucket is shown under its own heading.
LEMMA TableShown ==
  ASSUME Answered, Rendered, view.type = "table", DOMAIN buckets # {}
  PROVE  /\ \A r \in Known : rows[r].there =>
              /\ (\A k \in BucketsOf(r) : ~MayBeHidden(k)) => OnPage(r)
              /\ BucketsOf(r) # {} /\ (\A k \in BucketsOf(r) : IsHidden(k)) => ~OnPage(r)
         /\ \A i \in DOMAIN Groups :
              LET k == QueryLabel(Groups[i]) IN
                k \in Filled /\ Distinct(k) /\ ~MayBeHidden(k) =>
                  \E j \in DOMAIN sections :
                    sections[j] = [head |-> Label(Groups[i]), rows |-> Shown(buckets[k])]
<1> DEFINE A == ToSet(Claimed \o Remaining)
           ss == GroupsOfQuery
<1>1. sections = Visible(ss)
  BY DEF Rendered, RowSections
<1>2. /\ \A c \in A : WellMatched(c)
      /\ \A k \in Filled : \E c \in A : c[1] = k
  BY PairsFacts
<1>3. /\ SectionList(ss)
      /\ \A c \in A : Emit(c) \in ToSet(ss)
      /\ \A x \in ToSet(ss) : \/ \E c \in A : x = Emit(c)
                             \/ \A r \in ToSet(x.rows) : BucketsOf(r) = {}
      /\ \A r \in ToSet(RowIDs) : BucketsOf(r) = {} =>
           \E x \in ToSet(ss) : ~x.hidden /\ r \in ToSet(x.rows)
  BY QuerySections
<1>4. \A c \in A : /\ Emit(c).rows = buckets[c[1]] /\ c[1] \in Filled
                   /\ Emit(c).hidden => MayBeHidden(c[1])
                   /\ IsHidden(c[1]) => Emit(c).hidden
                   /\ Distinct(c[1]) => \A i \in OwnGroup(c[1]) : Emit(c).head = Label(Groups[i])
  BY <1>2, EmitFacts
<1> HIDE DEF A, ss
<1>5. /\ \A r : OnPage(r) <=> \E x \in ToSet(ss) : ~x.hidden /\ r \in ToSet(x.rows) /\ rows[r].there
      /\ \A x \in ToSet(ss) : ~x.hidden /\ x.rows # <<>> =>
           \E j \in DOMAIN sections : sections[j] = [head |-> x.head, rows |-> Shown(x.rows)]
  BY <1>1, <1>3, VisibleFacts
<1>6. ASSUME NEW r \in Known, rows[r].there, \A k \in BucketsOf(r) : ~MayBeHidden(k)
      PROVE  OnPage(r)
  <2>1. CASE BucketsOf(r) = {}
    <3>1. r \in ToSet(RowIDs)
      BY <2>1, BucketsOfFacts, <1>6 DEF Known
    <3>2. QED
      BY <1>3, <1>5, <1>6, <2>1, <3>1
  <2>2. CASE BucketsOf(r) # {}
    <3>1. PICK k \in BucketsOf(r) : TRUE
      BY <2>2
    <3>2. k \in Filled /\ r \in ToSet(buckets[k]) /\ ~MayBeHidden(k)
      BY <1>6, <3>1 DEF BucketsOf
    <3>3. PICK c \in A : c[1] = k
      BY <1>2, <3>2
    <3>4. Emit(c) \in ToSet(ss) /\ ~Emit(c).hidden /\ r \in ToSet(Emit(c).rows)
      BY <1>3, <1>4, <3>2, <3>3
    <3>5. QED
      BY <1>5, <1>6, <3>4
  <2>3. QED
    BY <2>1, <2>2
<1>7. ASSUME NEW r \in Known, OnPage(r), BucketsOf(r) # {}, \A k \in BucketsOf(r) : IsHidden(k)
      PROVE  FALSE
  <2>1. PICK x \in ToSet(ss) : ~x.hidden /\ r \in ToSet(x.rows)
    BY <1>5, <1>7
  <2>2. PICK c \in A : x = Emit(c)
    BY <1>3, <1>7, <2>1
  <2>3. c[1] \in BucketsOf(r)
    BY <1>4, <2>1, <2>2 DEF BucketsOf
  <2>4. QED
    BY <1>4, <1>7, <2>1, <2>2, <2>3
<1>8. ASSUME NEW i \in DOMAIN Groups, QueryLabel(Groups[i]) \in Filled,
             Distinct(QueryLabel(Groups[i])), ~MayBeHidden(QueryLabel(Groups[i]))
      PROVE  \E j \in DOMAIN sections :
               sections[j] = [head |-> Label(Groups[i]), rows |-> Shown(buckets[QueryLabel(Groups[i])])]
  <2>1. PICK c \in A : c[1] = QueryLabel(Groups[i])
    BY <1>2, <1>8
  <2>2. i \in OwnGroup(c[1])
    BY <1>8, <2>1 DEF OwnGroup
  <2>3. /\ Emit(c) \in ToSet(ss) /\ ~Emit(c).hidden /\ Emit(c).head = Label(Groups[i])
        /\ Emit(c).rows = buckets[QueryLabel(Groups[i])]
    BY <1>3, <1>4, <1>8, <2>1, <2>2
  <2>4. Emit(c).rows # <<>>
    BY <1>8, <2>3 DEF Filled
  <2>5. QED
    BY <1>5, <2>3, <2>4
<1>9. QED
  BY <1>6, <1>7, <1>8

\* The layouts together.
LEMMA RowsTell == ViewInv => RowsPlaced
<1> SUFFICES ASSUME ViewInv, stage = "done"
             PROVE  RowsPlaced
  BY DEF RowsPlaced, RowsShown, UnderOwnHeading
<1>1. Answered /\ Rendered
  BY DEF ViewInv
<1>2. view.type \in {"table", "board", "calendar", "timeline"}
  BY <1>1 DEF Rendered
<1>3. ASSUME NEW r \in Known, rows[r].there
      PROVE  IF view.type \in {"calendar", "timeline"} THEN OnPage(r) <=> ByDate(r)
             ELSE IF view.type = "table" /\ DOMAIN buckets = {} THEN OnPage(r) <=> ByValue(r)
             ELSE /\ (\A k \in BucketsOf(r) : ~MayBeHidden(k)) => OnPage(r)
                  /\ BucketsOf(r) # {} /\ (\A k \in BucketsOf(r) : IsHidden(k)) => ~OnPage(r)
  <2>1. CASE view.type \in {"calendar", "timeline"}
    <3>1. r \in ToSet(RowIDs)
      BY <1>3, <2>1 DEF Known, Reads
    <3>2. OnPage(r) <=> ByDate(r)
      BY <1>1, <1>3, <2>1, <3>1, DatesShown
    <3>3. QED
      BY <2>1, <3>2
  <2>2. CASE view.type = "table" /\ DOMAIN buckets = {}
    <3>1. r \in ToSet(RowIDs)
      BY <1>3, <2>2 DEF Known
    <3>2. OnPage(r) <=> ByValue(r)
      <4>1. CASE view.grouped
        BY <1>1, <1>3, <2>2, <3>1, <4>1, FromViewShown
      <4>2. CASE ~view.grouped
        BY <1>1, <1>3, <2>2, <3>1, <4>2, UngroupedShown DEF ByValue
      <4>3. QED
        BY <4>1, <4>2
    <3>3. QED
      BY <2>2, <3>2
  <2>3. CASE view.type = "table" /\ DOMAIN buckets # {}
    <3>1. /\ (\A k \in BucketsOf(r) : ~MayBeHidden(k)) => OnPage(r)
          /\ BucketsOf(r) # {} /\ (\A k \in BucketsOf(r) : IsHidden(k)) => ~OnPage(r)
      BY <1>1, <1>3, <2>3, TableShown
    <3>2. QED
      BY <2>3, <3>1
  <2>4. CASE view.type = "board"
    <3>1. /\ (\A k \in BucketsOf(r) : ~MayBeHidden(k)) => OnPage(r)
          /\ BucketsOf(r) # {} /\ (\A k \in BucketsOf(r) : IsHidden(k)) => ~OnPage(r)
      BY <1>1, <1>3, <2>4, BoardShown
    <3>2. QED
      BY <2>4, <3>1
  <2>5. QED
    BY <1>2, <2>1, <2>2, <2>3, <2>4
<1>4. RowsShown
  BY <1>3 DEF RowsShown
<1>5. UnderOwnHeading
  <2> SUFFICES ASSUME view.type = "table", NEW i \in DOMAIN Groups,
                      QueryLabel(Groups[i]) \in Filled, Distinct(QueryLabel(Groups[i])),
                      ~MayBeHidden(QueryLabel(Groups[i]))
               PROVE  \E j \in DOMAIN sections :
                        sections[j] = [head |-> Label(Groups[i]), rows |-> Shown(buckets[QueryLabel(Groups[i])])]
    BY DEF UnderOwnHeading
  <2>1. DOMAIN buckets # {}
    BY DEF Filled
  <2>2. QED
    BY <1>1, <2>1, TableShown
<1>6. QED
  BY <1>4, <1>5 DEF RowsPlaced

\* Whatever list and buckets a query has, every row that upstream sent with its block is
\* where the view's settings put it: shown, unless its day, its value or a group that may
\* take its bucket is hidden, also if it is in no bucket, and not shown if only hidden
\* groups hold it; and a distinct bucket of a table is under the heading of its group.
THEOREM RowsAreShown == ViewSpec => []RowsPlaced
BY ViewAlways, RowsTell, PTL

--------------------------------------------------------------------------------
(* The links.                                                                   *)

\* What the functions return, once they have.
LinksInv ==
  /\ table \in BlockTables
  /\ linkStage \in {"paths", "links", "render", "done", "error"}
  /\ linkStage \in {"links", "render", "done"} => Home \in BlockIds /\ paths = LinkablePages
  /\ linkStage \in {"render", "done"} => links = ChildPages
  /\ linkStage = "done" => anchors = [id \in BlockIds |-> AnchorsOf(id)]

\* What is returned depends on the table and the paths.
LEMMA LinksRest ==
  ASSUME table' = table
  PROVE  /\ BlockIds' = BlockIds /\ LinkablePages' = LinkablePages /\ ChildPages' = ChildPages
         /\ paths' = paths => \A id : AnchorsOf(id)' = AnchorsOf(id)
<1> USE DEF BlockIds, Linked, Candidates, TextPages, Select
<1>1. BlockIds' = BlockIds /\ \A id : TextPages(id)' = TextPages(id) /\ Linked(id)' = Linked(id)
  OBVIOUS
<1>2. LinkablePages' = LinkablePages
  BY <1>1 DEF LinkablePages
<1>3. ChildPages' = ChildPages
  <2>1. \A id : Content(id)' = Content(id)
    BY DEF Content
  <2>2. \A id : Child(id)' <=> Child(id)
    BY DEF Child
  <2>3. \A id : LinksOf(id)' = LinksOf(id)
    <3>1. SUFFICES ASSUME NEW id
                   PROVE  LinksOf(id)' = LinksOf(id)
      OBVIOUS
    <3>2. Select(TextPages(id), Child)' = Select(TextPages(id), Child)
      <4> HIDE DEF TextPages
      <4>1. QED
        BY <1>1, <2>2
    <3> HIDE DEF Select, Linked, TextPages
    <3>3. QED
      BY <1>1, <3>2 DEF LinksOf
  <2> HIDE DEF BlockIds
  <2>4. [id \in BlockIds |-> Content(id)]' = [id \in BlockIds |-> Content(id)]
    BY <1>1, <2>1
  <2>5. QED
    BY <1>1, <2>3, <2>4 DEF ChildPages
<1>4. ASSUME paths' = paths
      PROVE  \A id : AnchorsOf(id)' = AnchorsOf(id)
  <2>1. \A id : PageHref(id)' = PageHref(id)
    BY <1>4 DEF PageHref
  <2>2. \A to, resolver : LinkHref(to, resolver)' = LinkHref(to, resolver)
    BY <2>1 DEF LinkHref
  <2>3. \A deco, resolver : MentionText(deco, resolver)' = MentionText(deco, resolver)
    BY <2>1 DEF MentionText
  <2>4. \A part, resolver : applyDecorations(part, resolver)' = applyDecorations(part, resolver)
    BY <2>2, <2>3 DEF applyDecorations
  <2>5. \A parts, resolver : richText(parts, resolver)' = richText(parts, resolver)
    BY <2>4 DEF richText
  <2>6. \A id : LinkedPage(id)' = LinkedPage(id)
    <3> HIDE DEF BlockIds, Linked, Select
    <3>1. ASSUME NEW id
          PROVE  LinkedPage(id)' = LinkedPage(id)
      <4> DEFINE to == Linked(id)
      <4>1. to' = to /\ PageHref(to)' = PageHref(to) /\ (to \in BlockIds)' = (to \in BlockIds)
        BY <1>1, <2>1
      <4>2. /\ richText(table[id].parts, TRUE)' = richText(table[id].parts, TRUE)
            /\ richText(table[to].parts, FALSE)' = richText(table[to].parts, FALSE)
        BY <2>5, <4>1
      <4> HIDE DEF to
      <4>3. QED
        BY <4>1, <4>2 DEF LinkedPage, to
    <3>2. QED
      BY <3>1
  <2>7. \A id : Picture(id)' = Picture(id)
    BY <2>2 DEF Picture
  <2>8. QED
    BY <2>5, <2>6, <2>7 DEF AnchorsOf
<1>5. QED
  BY <1>1, <1>2, <1>3, <1>4

\* Every step keeps what was returned.
LEMMA LinksSteps == LinksInv /\ [LinksNext]_linkVars => LinksInv'
<1> SUFFICES ASSUME LinksInv, [LinksNext]_linkVars
             PROVE  LinksInv'
  OBVIOUS
<1>1. CASE NoRoot
  BY <1>1 DEF NoRoot, LinksInv
<1>2. CASE BuildPagePaths
  BY <1>2, LinksRest DEF BuildPagePaths, LinksInv
<1>3. CASE DirectSubpageLinks
  BY <1>3, LinksRest DEF DirectSubpageLinks, LinksInv
<1>4. CASE RenderLinks
  <2>1. table' = table /\ paths' = paths /\ links' = links
    BY <1>4 DEF RenderLinks
  <2>2. /\ BlockIds' = BlockIds /\ LinkablePages' = LinkablePages /\ ChildPages' = ChildPages
        /\ \A id : AnchorsOf(id)' = AnchorsOf(id)
    BY <2>1, LinksRest
  <2>3. QED
    BY <1>4, <2>1, <2>2 DEF RenderLinks, LinksInv
<1>5. CASE UNCHANGED linkVars
  <2>1. table' = table /\ paths' = paths /\ links' = links /\ anchors' = anchors
        /\ linkStage' = linkStage
    BY <1>5 DEF linkVars
  <2>2. /\ BlockIds' = BlockIds /\ LinkablePages' = LinkablePages /\ ChildPages' = ChildPages
        /\ \A id : AnchorsOf(id)' = AnchorsOf(id)
    BY <2>1, LinksRest
  <2>3. QED
    BY <2>1, <2>2 DEF LinksInv
<1>6. QED
  BY <1>1, <1>2, <1>3, <1>4, <1>5 DEF LinksNext, LinksDone

\* What a block consists of.
LEMMA LinkBlockFacts ==
  ASSUME table \in BlockTables, NEW id \in BlockIds
  PROVE  /\ id \in PageIds /\ table[id].pointer \in Targets /\ table[id].picture \in Targets
         /\ table[id].content \in Seq(PageIds) /\ table[id].parts \in Seq(Seq(Decorations))
<1>1. /\ DOMAIN table \subseteq PageIds
      /\ table \in [DOMAIN table -> LinkBlocks]
  BY LinksAssumption
<1>2. table[id] \in LinkBlocks /\ id \in PageIds
  BY <1>1 DEF BlockIds
<1>3. QED
  BY <1>2 DEF LinkBlocks, Targets

\* The pages that the text of a block names.
LEMMA TextPagesFacts ==
  ASSUME table \in BlockTables, NEW id \in BlockIds
  PROVE  /\ TextPages(id) \in Seq(PageIds)
         /\ \A i \in DOMAIN table[id].parts : \A j \in DOMAIN table[id].parts[i] :
              LET deco == table[id].parts[i][j] IN
              deco.kind \in LinkKinds /\ deco.to \in PageIds => deco.to \in ToSet(TextPages(id))
<1> DEFINE parts == table[id].parts
           Named == {deco \in Decorations : deco.kind \in LinkKinds /\ deco.to \in PageIds}
           of == [i \in DOMAIN parts |-> Candidates(parts[i])]
           all == FlattenSeq(of)
<1>1. parts \in Seq(Seq(Decorations)) /\ \A i \in DOMAIN parts : parts[i] \in Seq(Decorations)
  BY LinkBlockFacts, LenProperties, ElementOfSeq
<1> HIDE DEF parts
<1>2. ASSUME NEW part \in Seq(Decorations)
      PROVE  /\ Candidates(part) \in Seq(Named)
             /\ \A j \in DOMAIN part : part[j] \in Named => part[j] \in ToSet(Candidates(part))
  <2> DEFINE spots == {i \in DOMAIN part : part[i].kind \in LinkKinds /\ part[i].to \in PageIds}
  <2>1. Candidates(part) = Pick(part, spots)
    BY DEF Candidates, Select
  <2>2. ToSet(Pick(part, spots)) = {part[i] : i \in spots \cap DOMAIN part}
    BY PickMembers
  <2>3. Pick(part, spots) \in Seq(Decorations)
    BY PickClimbs
  <2>4. \A i \in DOMAIN part : part[i] \in Decorations
    BY LenProperties, ElementOfSeq
  <2>5. ToSet(Pick(part, spots)) \subseteq Named
    BY <2>2, <2>4
  <2> HIDE DEF Named
  <2>6. Pick(part, spots) \in Seq(Named)
    BY <2>3, <2>5, ListOf
  <2>7. \A j \in DOMAIN part : part[j] \in Named => j \in spots
    BY DEF Named
  <2>8. QED
    BY <2>1, <2>2, <2>6, <2>7
<1>3. of \in Seq(Seq(Named)) /\ DOMAIN of = DOMAIN parts
  <2>1. DOMAIN parts = 1..Len(parts) /\ Len(parts) \in Nat
    BY <1>1, LenProperties
  <2>2. \A i \in 1..Len(parts) : Candidates(parts[i]) \in Seq(Named)
    BY <1>1, <1>2, <2>1
  <2>3. QED
    BY <2>1, <2>2
<1>4. all \in Seq(Named) /\ ToSet(all) = UNION {ToSet(of[i]) : i \in DOMAIN of}
  <2> HIDE DEF of, Named
  <2>1. QED
    BY <1>3, FlatType, FlatMembers
<1>5. TextPages(id) = [i \in DOMAIN all |-> all[i].to]
  BY DEF TextPages, parts
<1> HIDE DEF all
<1>6. DOMAIN all = 1..Len(all) /\ Len(all) \in Nat /\ \A i \in DOMAIN all : all[i] \in Named
  <2> HIDE DEF Named
  <2>1. QED
    BY <1>4, LenProperties, ElementOfSeq
<1>7. TextPages(id) \in Seq(PageIds)
  BY <1>5, <1>6
<1>8. ASSUME NEW i \in DOMAIN parts, NEW j \in DOMAIN parts[i],
             parts[i][j].kind \in LinkKinds, parts[i][j].to \in PageIds
      PROVE  parts[i][j].to \in ToSet(TextPages(id))
  <2>1. parts[i] \in Seq(Decorations) /\ parts[i][j] \in Decorations
    BY <1>1, LenProperties, ElementOfSeq
  <2>2. parts[i][j] \in ToSet(Candidates(parts[i]))
    BY <1>2, <1>8, <2>1
  <2>3. parts[i][j] \in ToSet(all)
    BY <1>3, <1>4, <2>2
  <2>4. PICK k \in DOMAIN all : all[k] = parts[i][j]
    BY <2>3 DEF ToSet
  <2>5. QED
    BY <1>5, <2>4 DEF ToSet
<1>9. QED
  BY <1>7, <1>8 DEF parts

\* What is listed for a block: pages that are linked, or targets that cannot be.
LEMMA LinksOfFacts ==
  ASSUME table \in BlockTables, NEW id \in BlockIds
  PROVE  /\ LinksOf(id) \in Seq(Targets)
         /\ ToSet(LinksOf(id)) \subseteq {Linked(id)} \cup ToSet(TextPages(id))
         /\ Content(id) \in Seq(PageIds)
<1>1. /\ id \in PageIds /\ table[id].pointer \in Targets /\ table[id].content \in Seq(PageIds)
      /\ TextPages(id) \in Seq(PageIds)
  BY LinkBlockFacts, TextPagesFacts
<1>2. Content(id) \in Seq(PageIds)
  BY <1>1 DEF Content
<1>3. CASE table[id].type \in PageTypes
  <2> DEFINE to == Linked(id)
  <2>1. to \in Targets
    BY <1>1 DEF Linked, Targets
  <2> HIDE DEF to
  <2>2. <<to>> \in Seq(Targets) /\ DOMAIN <<to>> = {1} /\ <<to>>[1] = to
    BY <2>1
  <2>3. ToSet(<<to>>) = {to}
    BY <2>2 DEF ToSet
  <2>4. LinksOf(id) = <<to>>
    BY <1>3 DEF LinksOf, to
  <2>5. QED
    BY <1>2, <2>2, <2>3, <2>4 DEF to
<1>4. CASE table[id].type \notin PageTypes
  <2> DEFINE names == TextPages(id)
             spots == {i \in DOMAIN names : Child(names[i])}
  <2>1. LinksOf(id) = Pick(names, spots)
    BY <1>4 DEF LinksOf, Select
  <2>2. names \in Seq(PageIds)
    BY <1>1
  <2> HIDE DEF names, spots
  <2>3. Pick(names, spots) \in Seq(PageIds) /\ ToSet(Pick(names, spots)) = {names[i] : i \in spots \cap DOMAIN names}
    BY <2>2, PickClimbs, PickMembers
  <2>4. ToSet(Pick(names, spots)) \subseteq ToSet(names)
    BY <2>3 DEF ToSet
  <2>5. Pick(names, spots) \in Seq(Targets)
    <3>1. \A i \in DOMAIN Pick(names, spots) : Pick(names, spots)[i] \in PageIds
      BY <2>3, LenProperties, ElementOfSeq
    <3>2. ToSet(Pick(names, spots)) \subseteq Targets
      BY <3>1 DEF ToSet, Targets
    <3>3. QED
      BY <2>3, <3>2, ListOf
  <2>6. QED
    BY <1>2, <2>1, <2>4, <2>5 DEF names
<1>5. QED
  BY <1>3, <1>4

\* The walk visits the blocks of the page itself.
LEMMA WalkIsInside ==
  ASSUME table \in BlockTables, Home \in BlockIds
  PROVE  LET walked == Visited(table[Home].content, [id \in BlockIds |-> Content(id)])
         IN  walked \in Seq(BlockIds) /\ ToSet(walked) = Inside
<1> DEFINE start == table[Home].content
           below == [id \in BlockIds |-> Content(id)]
           walked == Visited(start, below)
           B == BlockIds
<1>1. start \in Seq(PageIds) /\ below \in [B -> Seq(PageIds)] /\ \A b \in B : below[b] = Content(b)
  BY LinkBlockFacts, LinksOfFacts
<1>2. IsFiniteSet(B)
  BY LinksAssumption DEF BlockIds
<1>3. Inside = {id \in B : \A S \in SUBSET B : Closed(S, B, start, below) => id \in S}
  <2>1. ASSUME NEW S \in SUBSET B
        PROVE  Closed(S, B, start, below)
                 <=> HasContent(S, start) /\ (\A b \in S : HasContent(S, Content(b)))
    BY <1>1, <2>1 DEF Closed, HasContent
  <2>2. QED
    BY <2>1 DEF Inside
<1> HIDE DEF start, below, B
<1>4. /\ walked \in Seq(B) /\ Closed(ToSet(walked), B, start, below)
      /\ \A S : Closed(S, B, start, below) => ToSet(walked) \subseteq S
  BY <1>1, <1>2, VisitedFacts
<1> HIDE DEF walked
<1>5. ToSet(walked) \subseteq B
  <2>1. \A i \in DOMAIN walked : walked[i] \in B
    BY <1>4, LenProperties, ElementOfSeq
  <2>2. QED
    BY <2>1 DEF ToSet
<1>6. ToSet(walked) = Inside
  BY <1>3, <1>4, <1>5
<1>7. QED
  BY <1>4, <1>6 DEF walked, start, below, B

\* The children are listed: all, once, and among the pages that may be linked to.
LEMMA ChildrenListed == LinksInv => ChildrenAreListed
<1> SUFFICES ASSUME LinksInv, linkStage \in {"render", "done"}
             PROVE  /\ ToSet(links) = (UNION {ToSet(LinksOf(id)) : id \in Inside}) \cap (PageIds \ {Home})
                    /\ IsInjective(links)
                    /\ ToSet(links) \subseteq paths
  BY DEF ChildrenAreListed
<1>1. table \in BlockTables /\ Home \in BlockIds /\ paths = LinkablePages /\ links = ChildPages
  BY DEF LinksInv
<1> DEFINE walked == Visited(table[Home].content, [id \in BlockIds |-> Content(id)])
           of == [i \in DOMAIN walked |-> LinksOf(walked[i])]
           named == FlattenSeq(of)
           spots == {i \in DOMAIN named : named[i] \in PageIds \ {Home}}
           kept == Pick(named, spots)
<1>2. links = Unique(kept)
  BY <1>1 DEF ChildPages, Select
<1>3. walked \in Seq(BlockIds) /\ ToSet(walked) = Inside
  BY <1>1, WalkIsInside
<1> HIDE DEF walked
<1>4. DOMAIN walked = 1..Len(walked) /\ Len(walked) \in Nat /\ \A i \in DOMAIN walked : walked[i] \in BlockIds
  BY <1>3, LenProperties, ElementOfSeq
<1>5. of \in Seq(Seq(Targets)) /\ DOMAIN of = DOMAIN walked
  <2>1. \A i \in 1..Len(walked) : LinksOf(walked[i]) \in Seq(Targets)
    BY <1>1, <1>4, LinksOfFacts
  <2>2. QED
    BY <1>4, <2>1
<1>6. UNION {ToSet(of[i]) : i \in DOMAIN of} = UNION {ToSet(LinksOf(id)) : id \in Inside}
  <2>1. /\ \A i \in DOMAIN walked : walked[i] \in Inside
        /\ \A id \in Inside : \E i \in DOMAIN walked : walked[i] = id
    BY <1>3 DEF ToSet
  <2>2. \A i \in DOMAIN walked : of[i] = LinksOf(walked[i])
    OBVIOUS
  <2> HIDE DEF of
  <2>3. {ToSet(of[i]) : i \in DOMAIN of} = {ToSet(LinksOf(id)) : id \in Inside}
    BY <1>5, <2>1, <2>2
  <2>4. QED
    BY <2>3
<1> HIDE DEF of
<1>7. named \in Seq(Targets) /\ ToSet(named) = UNION {ToSet(of[i]) : i \in DOMAIN of}
  BY <1>5, FlatType, FlatMembers
<1> HIDE DEF named
<1>8. kept \in Seq(Targets) /\ ToSet(kept) = ToSet(named) \cap (PageIds \ {Home})
  <2>1. kept \in Seq(Targets) /\ ToSet(kept) = {named[i] : i \in spots \cap DOMAIN named}
    <3> HIDE DEF spots
    <3>1. QED
      BY <1>7, PickClimbs, PickMembers
  <2>2. QED
    BY <2>1 DEF ToSet
<1> HIDE DEF kept
<1>9. ToSet(links) = ToSet(kept) /\ IsInjective(links)
  BY <1>2, <1>8, UniqueFacts, UniqueOnce
<1>10. ToSet(links) = (UNION {ToSet(LinksOf(id)) : id \in Inside}) \cap (PageIds \ {Home})
  BY <1>6, <1>7, <1>8, <1>9
<1>11. ASSUME NEW id \in Inside
       PROVE  ToSet(LinksOf(id)) \cap PageIds \subseteq LinkablePages
  <2>1. id \in BlockIds
    BY DEF Inside
  <2>2. ToSet(LinksOf(id)) \subseteq {Linked(id)} \cup ToSet(TextPages(id))
    BY <1>1, <2>1, LinksOfFacts
  <2>3. QED
    BY <2>1, <2>2 DEF LinkablePages, PagesOf
<1>12. ToSet(links) \subseteq paths
  BY <1>1, <1>10, <1>11
<1>13. QED
  BY <1>9, <1>10, <1>12

\* The target of a link becomes an anchor, or none.
LEMMA HrefFacts ==
  ASSUME NEW to \in Targets, NEW resolver \in BOOLEAN
  PROVE  /\ PageHref(to) \in {Bare, Local(to)}
         /\ LinkHref(to, resolver) \in {Bare, Local(to), Elsewhere(to)}
         /\ to \in paths \cap PageIds /\ resolver => LinkHref(to, resolver) = Local(to)
<1>1. Local(to) # Bare /\ PageHref(to) \in {Bare, Local(to)}
  BY DEF Local, Bare, PageHref
<1>2. to \in paths => PageHref(to) = Local(to)
  BY DEF PageHref
<1>3. QED
  BY <1>1, <1>2 DEF LinkHref

\* The texts that a part can become: without an anchor, or in one.
LEMMA AnchorShape ==
  ASSUME NEW to
  PROVE  /\ Len(Bare) = 0 /\ Bare \in Seq([local : BOOLEAN, to : {to}])
         /\ \A text \in {Local(to), Elsewhere(to)} :
              /\ text \in Seq([local : BOOLEAN, to : {to}])
              /\ Len(text) = 1 /\ text[1].to = to /\ (text[1].local <=> text = Local(to))
BY DEF Bare, Local, Elsewhere

\* A part becomes what a mention or a link in it becomes, or has no anchor.
LEMMA TextFrom ==
  ASSUME NEW part \in Seq(Decorations), NEW resolver \in BOOLEAN
  PROVE  LET text == applyDecorations(part, resolver) IN
         \/ text = Bare
         \/ \E j \in DOMAIN part :
              \/ part[j].kind \in Mentions /\ text = MentionText(part[j], resolver)
              \/ part[j].kind = "a" /\ text = LinkHref(part[j].to, resolver)
<1> DEFINE told == {i \in DOMAIN part : part[i].kind \in Mentions}
           on == {i \in DOMAIN part :
                    part[i].kind = "a" /\ LinkHref(part[i].to, resolver) # Bare}
           mentions == Pick(part, told)
           hrefs == Pick(part, on)
           said == IF mentions = <<>> THEN Bare ELSE MentionText(Last(mentions), resolver)
           text == applyDecorations(part, resolver)
<1>1. text = IF hrefs = <<>> \/ said # Bare THEN said ELSE LinkHref(Last(hrefs).to, resolver)
  BY DEF applyDecorations, Select
<1>2. mentions # <<>> => \E j \in DOMAIN part : part[j].kind \in Mentions /\ part[j] = Last(mentions)
  <2>1. ToSet(mentions) = {part[i] : i \in told \cap DOMAIN part} /\ mentions \in Seq(Decorations)
    <3> HIDE DEF told
    <3>1. QED
      BY PickMembers, PickClimbs
  <2> HIDE DEF mentions
  <2>2. mentions # <<>> => Last(mentions) \in ToSet(mentions)
    BY <2>1, LastOf
  <2>3. QED
    BY <2>1, <2>2
<1>3. hrefs # <<>> => \E j \in DOMAIN part : part[j].kind = "a" /\ part[j] = Last(hrefs)
  <2>1. ToSet(hrefs) = {part[i] : i \in on \cap DOMAIN part} /\ hrefs \in Seq(Decorations)
    <3> HIDE DEF on
    <3>1. QED
      BY PickMembers, PickClimbs
  <2> HIDE DEF hrefs
  <2>2. hrefs # <<>> => Last(hrefs) \in ToSet(hrefs)
    BY <2>1, LastOf
  <2>3. QED
    BY <2>1, <2>2
<1> HIDE DEF mentions, hrefs, text
<1>4. QED
  BY <1>1, <1>2, <1>3 DEF text

\* A part of a block's text: without an anchor or in one, which leads to where the page is
\* served, off the site, or is a preview.
LEMMA TextFacts ==
  ASSUME LinksInv, linkStage = "done", NEW id \in BlockIds, NEW i \in DOMAIN table[id].parts,
         NEW resolver \in BOOLEAN
  PROVE  LET text == applyDecorations(table[id].parts[i], resolver) IN
         \/ text = Bare
         \/ \E to \in Targets :
              /\ text \in {Local(to), Elsewhere(to)}
              /\ resolver => \/ text = Local(to) \/ to \notin PageIds
                             \/ \E j \in DOMAIN table[id].parts[i] :
                                  table[id].parts[i][j].kind \in {"lm", "mention"}
<1> DEFINE part == table[id].parts[i]
           text == applyDecorations(part, resolver)
<1>1. table \in BlockTables /\ paths = LinkablePages
  BY DEF LinksInv
<1>2. /\ part \in Seq(Decorations)
      /\ \A j \in DOMAIN part :
           part[j].kind \in LinkKinds /\ part[j].to \in PageIds => part[j].to \in ToSet(TextPages(id))
  BY <1>1, LinkBlockFacts, TextPagesFacts, LenProperties, ElementOfSeq
<1>3. ToSet(TextPages(id)) \cap PageIds \subseteq paths
  BY <1>1 DEF LinkablePages, PagesOf
<1> HIDE DEF part
<1>4. ASSUME NEW j \in DOMAIN part, part[j].kind \in LinkKinds, part[j].to \in PageIds
      PROVE  part[j].to \in paths
  BY <1>2, <1>3, <1>4
<1>5. \A j \in DOMAIN part : part[j] \in Decorations /\ part[j].to \in Targets
  <2>1. \A j \in DOMAIN part : part[j] \in Decorations
    BY <1>2, LenProperties, ElementOfSeq
  <2>2. QED
    BY <2>1 DEF Decorations
<1>6. CASE text = Bare
  BY <1>6 DEF part
<1>7. ASSUME NEW j \in DOMAIN part, part[j].kind = "a", text = LinkHref(part[j].to, resolver)
      PROVE  \/ text = Bare
             \/ \E to \in Targets :
                  /\ text \in {Local(to), Elsewhere(to)}
                  /\ resolver => text = Local(to) \/ to \notin PageIds
  <2> DEFINE to == part[j].to
  <2>1. to \in Targets /\ (to \in PageIds => to \in paths)
    BY <1>4, <1>5, <1>7 DEF LinkKinds
  <2> HIDE DEF to
  <2>2. /\ LinkHref(to, resolver) \in {Bare, Local(to), Elsewhere(to)}
        /\ to \in paths \cap PageIds /\ resolver => LinkHref(to, resolver) = Local(to)
    BY <2>1, HrefFacts
  <2>3. text = LinkHref(to, resolver)
    BY <1>7 DEF to
  <2> HIDE DEF text
  <2>4. QED
    BY <2>1, <2>2, <2>3
<1>8. ASSUME NEW j \in DOMAIN part, part[j].kind \in Mentions, text = MentionText(part[j], resolver)
      PROVE  \/ text = Bare
             \/ \E to \in Targets :
                  /\ text \in {Local(to), Elsewhere(to)}
                  /\ text = Local(to) \/ part[j].kind \in {"lm", "mention"}
  <2> DEFINE to == part[j].to
  <2>1. to \in Targets /\ PageHref(to) \in {Bare, Local(to)}
    BY <1>5, HrefFacts
  <2>2. \/ text = PageHref(to) \/ text = Bare
        \/ text = Elsewhere(to) /\ part[j].kind \in {"lm", "mention"}
    BY <1>8 DEF MentionText
  <2> HIDE DEF to, text
  <2>3. QED
    BY <2>1, <2>2
<1>9. \/ text = Bare
      \/ \E j \in DOMAIN part :
           \/ part[j].kind \in Mentions /\ text = MentionText(part[j], resolver)
           \/ part[j].kind = "a" /\ text = LinkHref(part[j].to, resolver)
  BY <1>2, TextFrom
<1> HIDE DEF text
<1>10. \/ text = Bare
       \/ \E to \in Targets :
            /\ text \in {Local(to), Elsewhere(to)}
            /\ resolver => \/ text = Local(to) \/ to \notin PageIds
                           \/ \E j \in DOMAIN part : part[j].kind \in {"lm", "mention"}
  BY <1>7, <1>8, <1>9
<1>11. QED
  BY <1>10 DEF text, part

\* What may stand in an anchor.
Anchor == [local : BOOLEAN, to : Targets]

\* Such a text is a list of at most one anchor.
LEMMA TextShape ==
  ASSUME NEW text, text = Bare \/ \E to \in Targets : text \in {Local(to), Elsewhere(to)}
  PROVE  text \in Seq(Anchor) /\ Len(text) <= 1
<1>1. CASE text = Bare
  BY <1>1 DEF Bare
<1>2. ASSUME NEW to \in Targets, text \in {Local(to), Elsewhere(to)}
      PROVE  text \in Seq(Anchor) /\ Len(text) <= 1
  <2>1. ASSUME NEW r \in Anchor, text = <<r>>
        PROVE  text \in Seq(Anchor) /\ Len(text) <= 1
    BY <2>1
  <2>2. [local |-> TRUE, to |-> to] \in Anchor /\ [local |-> FALSE, to |-> to] \in Anchor
    BY DEF Anchor
  <2>3. QED
    BY <1>2, <2>1, <2>2 DEF Local, Elsewhere
<1>3. QED
  BY <1>1, <1>2

\* The title of a linked page stands in the link to it.
LEMMA TitlesLinked ==
  ASSUME LinksInv, linkStage = "done", NEW id \in BlockIds, Linked(id) \in PageIds,
         NEW i \in DOMAIN LinkedPage(id)
  PROVE  Head(LinkedPage(id)[i]) = Local(Linked(id))[1]
<1> DEFINE to == Linked(id)
           ofPage == IF to \in BlockIds /\ table[to].type = "page"
                     THEN richText(table[to].parts, FALSE) ELSE <<>>
           title == IF table[id].parts # <<>> THEN richText(table[id].parts, TRUE)
                    ELSE IF ofPage # <<>> THEN ofPage ELSE <<Bare>>
           href == PageHref(to)
<1>1. table \in BlockTables /\ paths = LinkablePages
  BY DEF LinksInv
<1>2. LinkedPage(id) = [k \in DOMAIN title |-> href \o title[k]]
  BY DEF LinkedPage
<1>3. ASSUME NEW b \in BlockIds, NEW resolver \in BOOLEAN, NEW k \in DOMAIN richText(table[b].parts, resolver)
      PROVE  richText(table[b].parts, resolver)[k] \in Seq(Anchor)
  <2>1. k \in DOMAIN table[b].parts
        /\ richText(table[b].parts, resolver)[k] = applyDecorations(table[b].parts[k], resolver)
    BY <1>3 DEF richText
  <2> DEFINE text == applyDecorations(table[b].parts[k], resolver)
  <2>2. text = Bare \/ \E t \in Targets : text \in {Local(t), Elsewhere(t)}
    BY <2>1, TextFacts
  <2> HIDE DEF text
  <2>3. text \in Seq(Anchor)
    BY <2>2, TextShape
  <2>4. QED
    BY <2>1, <2>3 DEF text
<1>4. Bare \in Seq(Anchor)
  BY TextShape
<1>5. i \in DOMAIN title /\ LinkedPage(id)[i] = href \o title[i]
  BY <1>2
<1>6. title[i] \in Seq(Anchor)
  <2>1. CASE table[id].parts # <<>>
    BY <1>3, <1>5, <2>1
  <2>2. CASE table[id].parts = <<>> /\ ofPage # <<>>
    <3>1. to \in BlockIds /\ title = richText(table[to].parts, FALSE)
      BY <2>2
    <3>2. QED
      BY <1>3, <1>5, <3>1
  <2>3. CASE table[id].parts = <<>> /\ ofPage = <<>>
    <3>1. title = <<Bare>>
      BY <2>3
    <3> DEFINE none == Bare
    <3>2. i \in DOMAIN title /\ title = <<none>>
      BY <1>5, <3>1
    <3> HIDE DEF title, none
    <3>3. title[i] = none
      BY <3>2
    <3>4. QED
      BY <1>4, <3>3 DEF none
  <2>4. QED
    BY <2>1, <2>2, <2>3
<1>7. to \in Targets /\ to \in paths
  BY <1>1 DEF LinkablePages, PagesOf, Targets
<1> HIDE DEF to, title
<1>8. href = <<Local(to)[1]>> /\ Local(to)[1] \in Anchor
  BY <1>7 DEF PageHref, Local, Anchor
<1> DEFINE first == Local(to)[1]
           rest == title[i]
<1>9. first \in Anchor /\ rest \in Seq(Anchor) /\ href = <<first>>
  BY <1>6, <1>8
<1> HIDE DEF first, rest, href
<1>10. Head(<<first>> \o rest) = first
  BY <1>9
<1>11. QED
  BY <1>5, <1>9, <1>10 DEF first, rest, to

\* A picture and a text stand in one anchor at most, which leads where it says.
LEMMA TextsLinked ==
  ASSUME LinksInv, linkStage = "done", NEW id \in BlockIds,
         NEW i \in DOMAIN (Picture(id) \o richText(table[id].parts, TRUE))
  PROVE  LET text == (Picture(id) \o richText(table[id].parts, TRUE))[i] IN
         /\ Len(text) <= 1
         /\ \/ text = Bare \/ text[1].local \/ text[1].to \notin PageIds
            \/ \E part \in ToSet(table[id].parts) :
                 \E deco \in ToSet(part) : deco.kind \in {"lm", "mention"}
<1> DEFINE parts == table[id].parts
           T == Seq(Anchor)
           own == Picture(id)
           texts == richText(parts, TRUE)
           Previewed == \E part \in ToSet(parts) : \E deco \in ToSet(part) : deco.kind \in {"lm", "mention"}
           Leads(text) == /\ text \in T /\ Len(text) <= 1
                          /\ text = Bare \/ text[1].local \/ text[1].to \notin PageIds \/ Previewed
<1>1. table \in BlockTables /\ paths = LinkablePages
  BY DEF LinksInv
<1>2. ASSUME NEW to \in Targets, to \in PageIds => to \in paths
      PROVE  Leads(LinkHref(to, TRUE))
  <2> DEFINE text == LinkHref(to, TRUE)
  <2>1. text \in {Bare, Local(to), Elsewhere(to)} /\ (to \in PageIds => text = Local(to))
    BY <1>2, HrefFacts
  <2> HIDE DEF text
  <2>2. text \in T /\ Len(text) <= 1
    BY <2>1, TextShape
  <2>3. text = Bare \/ text[1].local \/ text[1].to \notin PageIds
    BY <2>1 DEF Local, Elsewhere
  <2>4. QED
    BY <2>2, <2>3 DEF text
<1>3. own \in Seq(T) /\ \A k \in DOMAIN own : Leads(own[k])
  <2> DEFINE to == table[id].picture
             href == LinkHref(to, TRUE)
  <2>1. to \in Targets /\ (to \in PageIds => to \in paths)
    BY <1>1, LinkBlockFacts DEF LinkablePages, PagesOf
  <2>2. own = <<href>> \/ own = <<>>
    BY DEF Picture
  <2> HIDE DEF to
  <2>3. Leads(href)
    BY <1>2, <2>1
  <2>4. href \in T
    BY <2>3
  <2> HIDE DEF own, href, Leads, T
  <2>5. own \in Seq(T) /\ \A k \in DOMAIN own : own[k] = href
    <3>1. CASE own = <<href>>
      BY <2>4, <3>1
    <3>2. CASE own = <<>>
      <4>1. own \in Seq(T) /\ Len(own) = 0
        BY <3>2, EmptySeq
      <4>2. DOMAIN own = 1..0
        BY <4>1, LenProperties
      <4>3. QED
        BY <4>1, <4>2
    <3>3. QED
      BY <2>2, <3>1, <3>2
  <2>6. QED
    BY <2>3, <2>5
<1>4. parts \in Seq(Seq(Decorations)) /\ DOMAIN parts = 1..Len(parts) /\ Len(parts) \in Nat
  BY <1>1, LinkBlockFacts, LenProperties
<1>5. ASSUME NEW k \in DOMAIN parts
      PROVE  texts[k] = applyDecorations(parts[k], TRUE) /\ Leads(texts[k])
  <2> DEFINE text == applyDecorations(parts[k], TRUE)
  <2>1. texts[k] = text
    BY DEF richText
  <2>2. \/ text = Bare
        \/ \E to \in Targets :
             /\ text \in {Local(to), Elsewhere(to)}
             /\ \/ text = Local(to) \/ to \notin PageIds
                \/ \E j \in DOMAIN parts[k] : parts[k][j].kind \in {"lm", "mention"}
    BY TextFacts
  <2>3. (\E j \in DOMAIN parts[k] : parts[k][j].kind \in {"lm", "mention"}) => Previewed
    BY DEF ToSet
  <2> HIDE DEF text, parts
  <2>4. text \in T /\ Len(text) <= 1
    BY <2>2, TextShape
  <2>5. text = Bare \/ text[1].local \/ text[1].to \notin PageIds \/ Previewed
    <3> HIDE DEF Previewed
    <3>1. CASE text = Bare
      BY <3>1
    <3>2. ASSUME NEW to \in Targets, text \in {Local(to), Elsewhere(to)},
                 text = Local(to) \/ to \notin PageIds \/ Previewed
          PROVE  text[1].local \/ text[1].to \notin PageIds \/ Previewed
      BY <3>2 DEF Local, Elsewhere
    <3>3. QED
      BY <2>2, <2>3, <3>1, <3>2
  <2>6. Leads(text)
    BY <2>4, <2>5
  <2> HIDE DEF texts, Leads
  <2>7. texts[k] = applyDecorations(parts[k], TRUE) /\ Leads(applyDecorations(parts[k], TRUE))
    BY <2>1, <2>6 DEF text
  <2>8. QED
    BY <2>7
<1>6. texts \in Seq(T) /\ Len(texts) = Len(parts)
  <2>1. texts = [k \in 1..Len(parts) |-> applyDecorations(parts[k], TRUE)]
    BY <1>4 DEF richText
  <2>2. \A k \in 1..Len(parts) : applyDecorations(parts[k], TRUE) \in T
    BY <1>4, <1>5
  <2> DEFINE n == Len(parts)
  <2>3. texts \in [1..n -> T] /\ n \in Nat
    <3> HIDE DEF parts, T
    <3>1. QED
      BY <1>4, <2>1, <2>2
  <2> HIDE DEF texts, T, n
  <2>4. texts \in Seq(T) /\ Len(texts) = n
    BY <2>3
  <2>5. QED
    BY <2>4 DEF n
<1> DEFINE all == own \o texts
<1>7. i \in DOMAIN all /\ all = Picture(id) \o richText(table[id].parts, TRUE)
  OBVIOUS
<1> HIDE DEF own, texts, parts, T, Leads
<1>8. Leads(all[i])
  <2>1. /\ DOMAIN own = 1..Len(own) /\ Len(own) \in Nat /\ DOMAIN texts = 1..Len(texts)
        /\ Len(texts) \in Nat
    BY <1>3, <1>6, LenProperties
  <2>2. /\ all \in Seq(T) /\ Len(all) = Len(own) + Len(texts)
        /\ \A k \in 1..Len(own) + Len(texts) :
             all[k] = IF k <= Len(own) THEN own[k] ELSE texts[k - Len(own)]
    BY <1>3, <1>6, ConcatProperties
  <2> HIDE DEF all
  <2>3. DOMAIN all = 1..Len(own) + Len(texts)
    BY <2>2, LenProperties
  <2> DEFINE n == Len(own)
             m == Len(texts)
  <2>4. i \in 1..n + m /\ n \in Nat /\ m \in Nat /\ DOMAIN own = 1..n /\ DOMAIN parts = 1..m
    BY <1>4, <1>6, <1>7, <2>1, <2>3
  <2>5. all[i] = IF i <= n THEN own[i] ELSE texts[i - n]
    BY <2>2, <2>4
  <2> HIDE DEF n, m
  <2>6. CASE i <= n
    <3>1. i \in DOMAIN own
      BY <2>4, <2>6
    <3>2. QED
      BY <1>3, <2>5, <2>6, <3>1
  <2>7. CASE ~(i <= n)
    <3>1. i - n \in DOMAIN parts
      BY <2>4, <2>7
    <3>2. QED
      BY <1>5, <2>5, <2>7, <3>1
  <2>8. QED
    BY <2>6, <2>7
<1>9. Len(all[i]) <= 1 /\ (all[i] = Bare \/ all[i][1].local \/ all[i][1].to \notin PageIds \/ Previewed)
  BY <1>8 DEF Leads
<1>10. QED
  BY <1>9 DEF parts, own, texts

\* Every anchor leads where it says.
LEMMA AnchorsLead == LinksInv => AnchorsAgree
<1> SUFFICES ASSUME LinksInv, linkStage = "done"
             PROVE  AnchorsAgree
  BY DEF AnchorsAgree
<1>1. anchors = [id \in BlockIds |-> AnchorsOf(id)]
  BY DEF LinksInv
<1>2. ASSUME NEW id \in BlockIds, NEW i \in DOMAIN anchors[id], table[id].type \in PageTypes,
             Linked(id) \in PageIds
      PROVE  Head(anchors[id][i]) = Local(Linked(id))[1]
  <2>1. anchors[id] = LinkedPage(id)
    BY <1>1, <1>2 DEF AnchorsOf
  <2>2. QED
    BY <1>2, <2>1, TitlesLinked
<1>3. ASSUME NEW id \in BlockIds, NEW i \in DOMAIN anchors[id], table[id].type \notin PageTypes
      PROVE  LET text == anchors[id][i] IN
             /\ Len(text) <= 1
             /\ \/ text = Bare \/ text[1].local \/ text[1].to \notin PageIds
                \/ \E part \in ToSet(table[id].parts) :
                     \E deco \in ToSet(part) : deco.kind \in {"lm", "mention"}
  <2>1. anchors[id] = Picture(id) \o richText(table[id].parts, TRUE)
    BY <1>1, <1>3 DEF AnchorsOf
  <2>2. QED
    BY <1>3, <2>1, TextsLinked
<1>4. QED
  BY <1>2, <1>3 DEF AnchorsAgree

\* LinksAgree: for any table of blocks, whatever their content leads back to, the children
\* of the page are listed completely, each once, and can be linked to, and what is rendered
\* has anchors that lead to where BuildPagePaths has pages (subpagelinks.go:14-116,
\* richtext.go:71-207, blocks_text.go:79-98).
THEOREM LinksLead == LinksSpec => []LinksAgree
<1>1. LinksInit => LinksInv
  BY DEF LinksInit, LinksInv
<1>2. LinksInv /\ [LinksNext]_linkVars => LinksInv'
  BY LinksSteps
<1>3. LinksInv => LinksAgree
  BY ChildrenListed, AnchorsLead DEF LinksAgree
<1>4. QED
  BY <1>1, <1>2, <1>3, PTL DEF LinksSpec
================================================================================
