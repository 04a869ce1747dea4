----------------------------- MODULE SnapshotProofs ----------------------------
(***************************************************************************)
(* Theorems about the repair of collection queries and about FetchSnapshot *)
(* for any page, any answers and any limits.  FetchSnapshot uses repair    *)
(* through its invariants: the steps of the pipeline are steps of repair   *)
(* or leave it alone.                                                      *)
(***************************************************************************)
EXTENDS Snapshot, Assets, DataTheorems

--------------------------------------------------------------------------------
\* Types.

\* A merged query is a query.
LEMMA MergeQueryType ==
  ASSUME NEW old \in Queries, NEW r \in Results
  PROVE  MergeQuery(old, r) \in Queries
  BY DEF MergeQuery, MergeMaps, NoQuery, IsMap, Queries, Results, Extras

\* What is merged into a usable query leaves it usable and with its groups; its list is
\* the old one, or that of the answer with the aggregations in it or without.
LEMMA MergeQueryKeeps ==
  ASSUME NEW old \in Queries, NEW r \in Results, IsMap(old)
  PROVE  LET new == MergeQuery(old, r)
         IN /\ IsMap(new)
            /\ "groups" \in old.extras => "groups" \in new.extras
            /\ List(new) = List(old) \/ ("list" \in r.keys /\ List(new) = List(r))
<1>1. CASE r.is # "map"
  BY <1>1 DEF MergeQuery, IsMap
<1> DEFINE new == MergeMaps(old, r)
<1>2. /\ new.is = "map"
      /\ new.rows = IF "list" \in r.keys THEN r.rows ELSE old.rows
      /\ new.extras = r.extras \cup (old.extras \ Replaced(r))
  BY DEF MergeMaps, IsMap
<1> HIDE DEF new
<1>3. "groups" \in old.extras => "groups" \in new.extras
  BY <1>2 DEF Replaced
<1>4. "aggregations" \in new.extras <=>
        "aggregations" \in IF "list" \in r.keys THEN r.extras ELSE old.extras
  BY <1>2 DEF Replaced, Results, Extras
<1>5. List(new) = List(IF "list" \in r.keys THEN r ELSE old)
  BY <1>2, <1>4 DEF List
<1>6. r.is = "map" => MergeQuery(old, r) = new
  BY DEF MergeQuery, new
<1>7. QED
  BY <1>1, <1>2, <1>3, <1>5, <1>6 DEF IsMap

\* The repair starts in its type.
LEMMA TypeInit == Init => TypeOK
<1> SUFFICES ASSUME Init
             PROVE  TypeOK
  OBVIOUS
<1>1. blocks \in Tables /\ views \subseteq Pairs /\ query \in [Pairs -> Queries]
  BY RepairAssumption DEF Init
<1>2. report \in [failed : SUBSET Pairs, budget : BOOLEAN, passes : BOOLEAN]
  BY DEF Init
<1>3. asked \in [Pairs -> Nat] /\ todo \in Seq(Pairs) /\ expired \in BOOLEAN
  BY DEF Init
<1>4. pass \in 0..MaxPasses - 1
  BY RepairAssumption DEF Init
<1>5. QED
  BY <1>1, <1>2, <1>3, <1>4 DEF Init, TypeOK

\* No step of the repair leaves it.
LEMMA TypeStep == TypeOK /\ [Next]_vars => TypeOK'
<1> SUFFICES ASSUME TypeOK, [Next]_vars
             PROVE  TypeOK'
  OBVIOUS
<1> USE DEF TypeOK
<1>1. CASE BeginPass
  BY <1>1 DEF BeginPass, Stored
<1>2. CASE NextBlock
  <2>1. PICK k \in keys : /\ keys' = keys \ {k}
                          /\ todo' = IF HasBlock(k) THEN ViewsOf[k] ELSE <<>>
    BY <1>2 DEF NextBlock
  <2>2. todo' \in Seq(Pairs)
    BY <2>1, RepairAssumption
  <2>3. QED
    BY <1>2, <2>1, <2>2 DEF NextBlock
<1>3. CASE EndBlock
  BY <1>3 DEF EndBlock
<1>4. CASE SkipView
  BY <1>4 DEF SkipView
<1>5. CASE SettleView
  BY <1>5 DEF SettleView, Candidate
<1>6. CASE GiveUp
  BY <1>6 DEF GiveUp, Candidate
<1>7. CASE AskView
  <2>1. Head(todo) \in Pairs
    BY <1>7 DEF AskView, Candidate
  <2>2. asked' \in [Pairs -> Nat]
    BY <1>7, <2>1 DEF AskView, Ask
  <2>3. QED
    BY <1>7, <2>1, <2>2 DEF AskView, Ask, Candidate
<1>8. CASE QueryFails
  <2>1. Head(todo) \in Pairs /\ report' = [report EXCEPT !.failed = @ \cup {Head(todo)}]
    BY <1>8 DEF QueryFails
  <2>3. report' \in [failed : SUBSET Pairs, budget : BOOLEAN, passes : BOOLEAN]
    BY <2>1
  <2>2. QED
    BY <1>8, <2>3 DEF QueryFails
<1>9. CASE RejectAnswer
  BY <1>9 DEF RejectAnswer
<1>10. CASE AnswerView
  <2>1. PICK a \in Answers :
          /\ blocks' = Merge(a.blocks)
          /\ views' = views \cup a.views
          /\ query' = [query EXCEPT ![Head(todo)] = MergeQuery(@, a.result)]
    BY <1>10 DEF AnswerView
  <2>2. a.blocks \in Tables /\ a.views \subseteq Pairs /\ a.result \in Results
    BY RepairAssumption
  <2>3. blocks' \in Tables
    BY <2>1, <2>2 DEF Merge, Tables
  <2>4. Head(todo) \in Pairs /\ MergeQuery(query[Head(todo)], a.result) \in Queries
    BY <1>10, <2>2, MergeQueryType DEF AnswerView
  <2>5. query' \in [Pairs -> Queries]
    BY <2>1, <2>4
  <2>6. QED
    BY <1>10, <2>1, <2>2, <2>3, <2>5 DEF AnswerView
<1>11. CASE Converge
  BY <1>11 DEF Converge, PassOver
<1>12. CASE EndPass
  <2>1. report' \in [failed : SUBSET Pairs, budget : BOOLEAN, passes : BOOLEAN]
    BY <1>12 DEF EndPass
  <2>2. pass' \in 0..MaxPasses - 1
    BY <1>12, RepairAssumption DEF EndPass
  <2>3. QED
    BY <1>12, <2>1, <2>2 DEF EndPass
<1>13. CASE Expire
  BY <1>13 DEF Expire
<1>14. CASE UNCHANGED vars
  BY <1>14 DEF vars
<1>15. QED
  BY <1>1, <1>2, <1>3, <1>4, <1>5, <1>6, <1>7, <1>8, <1>9, <1>10, <1>11, <1>12, <1>13,
     <1>14 DEF Next, Step

\* The repair keeps its types.
THEOREM RepairTypeCorrect == Spec => []TypeOK
  BY TypeInit, TypeStep, PTL DEF Spec

--------------------------------------------------------------------------------
\* Calls.

\* A pair is asked for only if it is not decided yet.
CallInv ==
  /\ calls <= MaxCalls
  /\ \A p \in Pairs : /\ asked[p] <= 1 /\ asked[p] <= calls
                      /\ p \notin processed => asked[p] = 0

\* No pair has been asked for at first.
LEMMA CallInit == Init => CallInv
  BY RepairAssumption DEF Init, CallInv

\* No step asks for a pair that is decided, or beyond the calls allowed.
LEMMA CallStep == TypeOK /\ CallInv /\ [Next]_vars => CallInv'
<1> SUFFICES ASSUME TypeOK, CallInv, [Next]_vars
             PROVE  CallInv'
  OBVIOUS
<1> USE DEF CallInv
<1>1. CASE AskView
  <2>1. /\ Head(todo) \in Pairs \ processed
        /\ processed' = processed \cup {Head(todo)}
        /\ calls' = calls + 1 /\ calls < MaxCalls
        /\ asked' = [asked EXCEPT ![Head(todo)] = @ + 1]
    BY <1>1 DEF AskView, Ask, Candidate, TypeOK
  <2>2. calls \in Nat /\ asked \in [Pairs -> Nat]
    BY DEF TypeOK
  <2>3. QED
    BY <2>1, <2>2, RepairAssumption
<1>2. CASE SettleView
  BY <1>2 DEF SettleView
<1>3. CASE BeginPass \/ NextBlock \/ EndBlock \/ SkipView \/ GiveUp \/ QueryFails
           \/ RejectAnswer \/ AnswerView \/ Converge \/ EndPass \/ Expire
  BY <1>3 DEF BeginPass, NextBlock, EndBlock, SkipView, GiveUp, QueryFails, RejectAnswer,
              AnswerView, Converge, EndPass, Expire
<1>4. CASE UNCHANGED vars
  BY <1>4 DEF vars
<1>5. QED
  BY <1>1, <1>2, <1>3, <1>4 DEF Next, Step

\* No pair is asked for twice, whatever fails and whatever is found on the way.
THEOREM OncePerPair == Spec => []AtMostOnce
<1>1. CallInv => AtMostOnce
  BY DEF CallInv, AtMostOnce
<1>2. QED
  BY <1>1, CallInit, CallStep, TypeInit, TypeStep, PTL DEF Spec

\* The upstream calls stay within their budget.
THEOREM BudgetKept == Spec => []CallBudget
<1>1. CallInv => CallBudget
  BY DEF CallInv, CallBudget
<1>2. QED
  BY <1>1, CallInit, CallStep, TypeInit, TypeStep, PTL DEF Spec

--------------------------------------------------------------------------------
\* Queries.

\* What an answer leaves of a usable query.
QueryStays(p) ==
  /\ IsMap(query'[p])
  /\ "groups" \in query[p].extras => "groups" \in query'[p].extras
  /\ \/ List(query'[p]) = List(query[p])
     \/ \E a \in Answers : "list" \in a.result.keys /\ List(query'[p]) = List(a.result)

\* Whatever is answered, a usable query stays usable and keeps its groups, and its rows
\* and aggregations are both the old ones or both those of one answer.
THEOREM QueriesAreKept == Spec => NeverClobbers
<1>1. TypeOK /\ [Next]_vars => [\A p \in Pairs : IsMap(query[p]) => QueryStays(p)]_query
  <2> SUFFICES ASSUME TypeOK, [Next]_vars, query' # query,
                      NEW p \in Pairs, IsMap(query[p])
               PROVE  QueryStays(p)
    OBVIOUS
  <2>1. AnswerView
    BY DEF Next, Step, vars, BeginPass, NextBlock, EndBlock, SkipView, SettleView, GiveUp,
           AskView, Ask, QueryFails, RejectAnswer, Converge, EndPass, Expire
  <2>2. PICK a \in Answers :
          query' = [query EXCEPT ![Head(todo)] = MergeQuery(@, a.result)]
    BY <2>1 DEF AnswerView
  <2>3. a.result \in Results
    BY RepairAssumption
  <2>4. query \in [Pairs -> Queries] /\ query[p] \in Queries
    BY DEF TypeOK
  <2>5. CASE p # Head(todo)
    BY <2>2, <2>4, <2>5 DEF QueryStays
  <2>6. CASE p = Head(todo)
    <3>1. query'[p] = MergeQuery(query[p], a.result)
      BY <2>2, <2>4, <2>6
    <3>2. QED
      BY <2>3, <2>4, <3>1, MergeQueryKeeps DEF QueryStays
  <2>7. QED
    BY <2>5, <2>6
<1>2. QED
  BY <1>1, TypeInit, TypeStep, PTL DEF Spec, NeverClobbers, QueryStays
--------------------------------------------------------------------------------
\* What is shown is decided.

Elements(S) == {S[i] : i \in DOMAIN S}

\* The pairs a visit of block k would still have to decide.
OpenAt(k) == (Elements(ViewsOf[k]) \cap views \cap Repairable) \ processed

\* In a pass that has not queried anything yet, what is open is shown by a block
\* that is still to be visited, or by the current one and still to be decided; and
\* when repair ends quietly nothing is open.
OpenInv ==
  /\ at = "query" => progressed
  /\ at \in {"key", "view"} /\ ~progressed =>
       \A k \in Keys : HasBlock(k) =>
         k \in keys \/ OpenAt(k) = {} \/ (at = "view" /\ OpenAt(k) \subseteq Elements(todo))
  /\ at = "done" /\ ~report.budget /\ ~report.passes =>
       \A k \in Keys : HasBlock(k) => OpenAt(k) = {}

\* No block is being visited at first.
LEMMA OpenInit == Init => OpenInv
  BY DEF Init, OpenInv

\* Of a sequence that is not empty everything but the head is in the tail.
LEMMA TailElements ==
  ASSUME NEW S \in Seq(Pairs), S # <<>>, NEW x \in Elements(S), x # Head(S)
  PROVE  x \in Elements(Tail(S))
<1>1. PICK i \in 1..Len(S) : x = S[i]
  BY DEF Elements
<1>2. i # 1 /\ Len(S) \in Nat
  BY <1>1
<1>3. i - 1 \in 1..Len(Tail(S)) /\ Tail(S)[i - 1] = S[i]
  BY <1>2
<1>4. DOMAIN Tail(S) = 1..Len(Tail(S))
  <2>1. Tail(S) \in Seq(Pairs)
    OBVIOUS
  <2>2. QED
    BY <2>1
<1>5. QED
  BY <1>1, <1>3, <1>4 DEF Elements

\* A step decides what is open or leaves it to a block that is still to be visited.
LEMMA OpenStep == TypeOK /\ OpenInv /\ [Next]_vars => OpenInv'
<1> SUFFICES ASSUME TypeOK, OpenInv, [Next]_vars
             PROVE  OpenInv'
  OBVIOUS
<1> USE DEF OpenInv, HasBlock, OpenAt
<1>1. CASE BeginPass
  BY <1>1 DEF BeginPass, Stored
<1>2. CASE NextBlock
  <2>1. PICK j \in keys : /\ keys' = keys \ {j}
                          /\ todo' = IF HasBlock(j) THEN ViewsOf[j] ELSE <<>>
    BY <1>2 DEF NextBlock
  <2>2. /\ at = "key" /\ at' = "view"
        /\ UNCHANGED <<blocks, views, processed, progressed, report>>
    BY <1>2 DEF NextBlock
  <2>3. ASSUME ~progressed, NEW k \in Keys, HasBlock(k)
        PROVE  k \in keys' \/ OpenAt(k) = {} \/ OpenAt(k) \subseteq Elements(todo')
    <3>1. CASE k = j
      BY <2>1, <2>3, <3>1
    <3>2. CASE k # j
      BY <2>1, <2>2, <2>3, <3>2
    <3>3. QED
      BY <3>1, <3>2
  <2>4. QED
    BY <2>2, <2>3
<1>3. CASE EndBlock
  <2>1. /\ at = "view" /\ at' = "key" /\ todo = <<>>
        /\ UNCHANGED <<blocks, views, processed, progressed, report, keys>>
    BY <1>3 DEF EndBlock
  <2>2. Elements(todo) = {}
    BY <2>1 DEF Elements
  <2>3. QED
    BY <2>1, <2>2
<1>4. CASE SkipView \/ SettleView
  <2>1. /\ at = "view" /\ at' = "view" /\ todo # <<>> /\ todo' = Tail(todo)
        /\ UNCHANGED <<blocks, views, progressed, report, keys>>
        /\ processed \subseteq processed'
        /\ Head(todo) \in processed' \/ Head(todo) \notin views \cap Repairable
    BY <1>4 DEF SkipView, SettleView, Candidate
  <2>2. todo \in Seq(Pairs)
    BY DEF TypeOK
  <2>3. ASSUME NEW k \in Keys, OpenAt(k) \subseteq Elements(todo)
        PROVE  OpenAt(k)' \subseteq Elements(todo')
    <3>1. OpenAt(k)' \subseteq OpenAt(k) \ {Head(todo)}
      BY <2>1
    <3>2. QED
      BY <2>1, <2>2, <2>3, <3>1, TailElements
  <2>4. \A k \in Keys : OpenAt(k)' \subseteq OpenAt(k)
    BY <2>1
  <2>5. QED
    BY <2>1, <2>3, <2>4
<1>5. CASE GiveUp
  <2>1. at' = "done" /\ report'.budget
    <3>1. report' = [report EXCEPT !.budget = TRUE]
      BY <1>5 DEF GiveUp
    <3>2. QED
      BY <1>5, <3>1 DEF GiveUp, TypeOK
  <2>2. QED
    BY <2>1
<1>6. CASE AskView
  BY <1>6 DEF AskView, Ask
<1>7. CASE QueryFails
  BY <1>7 DEF QueryFails
<1>8. CASE RejectAnswer
  BY <1>8 DEF RejectAnswer
<1>9. CASE AnswerView
  BY <1>9 DEF AnswerView
<1>10. CASE Converge
  BY <1>10 DEF Converge, PassOver
<1>11. CASE EndPass
  <2>1. CASE pass = MaxPasses - 1
    <3>1. at' = "done" /\ report' = [report EXCEPT !.passes = TRUE]
      BY <1>11, <2>1 DEF EndPass
    <3>2. report'.passes
      BY <3>1 DEF TypeOK
    <3>3. QED
      BY <3>1, <3>2
  <2>2. CASE pass # MaxPasses - 1
    BY <1>11, <2>2 DEF EndPass
  <2>3. QED
    BY <2>1, <2>2
<1>12. CASE Expire
  BY <1>12 DEF Expire
<1>13. CASE UNCHANGED vars
  BY <1>13 DEF vars
<1>14. QED
  BY <1>1, <1>2, <1>3, <1>4, <1>5, <1>6, <1>7, <1>8, <1>9, <1>10, <1>11, <1>12, <1>13
     DEF Next, Step

\* If repair ends without an exhausted budget, every view that is shown by then is
\* decided, also those of blocks that only answers of the repair brought.
THEOREM Convergence == Spec => []NothingLeftBehind
<1>1. OpenInv => NothingLeftBehind
  BY DEF OpenInv, NothingLeftBehind, OpenAt, Elements, Shown
<1>2. QED
  BY <1>1, OpenInit, OpenStep, TypeInit, TypeStep, PTL DEF Spec

--------------------------------------------------------------------------------
\* The limit.

\* Sets of keys are finite.
LEMMA FiniteKeys ==
  ASSUME NEW S \in SUBSET Keys
  PROVE  IsFiniteSet(S) /\ Cardinality(S) \in Nat
<1>1. IsFiniteSet(Keys)
  BY RepairAssumption, FS_Interval DEF Keys
<1>2. QED
  BY <1>1, FS_Subset, FS_CardinalityType

\* What the check of an answer lets through fits: a key that is new is counted by it,
\* one that holds null as well.
LEMMA MergeFits ==
  ASSUME TypeOK, NEW new \in Tables, ~Exceeds(new), MaxBlocks > 0,
         Cardinality(Stored) <= MaxBlocks, blocks' = Merge(new)
  PROVE  Cardinality(Stored') <= MaxBlocks
<1> DEFINE X == {k \in Keys : new[k] # "none" /\ blocks[k] = "none"}
           Y == {k \in Keys : new[k] # "none" /\ ~HasBlock(k)}
<1>1. Stored' = Stored \cup X
  BY DEF Stored, Merge
<1>2. CASE {k \in Keys : new[k] # "none"} = {}
  <2>1. X = {}
    BY <1>2
  <2>2. QED
    BY <1>1, <2>1
<1>3. CASE {k \in Keys : new[k] # "none"} # {}
  <2>1. X \in SUBSET Keys /\ Y \in SUBSET Keys /\ X \subseteq Y /\ Stored \in SUBSET Keys
    BY DEF HasBlock, Stored
  <2>2. /\ IsFiniteSet(X) /\ IsFiniteSet(Y) /\ IsFiniteSet(Stored)
        /\ Cardinality(X) \in Nat /\ Cardinality(Y) \in Nat /\ Cardinality(Stored) \in Nat
    BY <2>1, FiniteKeys
  <2>3. Cardinality(X) <= Cardinality(Y)
    BY <2>1, <2>2, FS_Subset
  <2>4. Cardinality(Stored \cup X) = Cardinality(Stored) + Cardinality(X)
    <3>1. Stored \cap X = {}
      BY DEF Stored
    <3>2. Cardinality(Stored \cap X) = 0
      BY <3>1, FS_EmptySet
    <3>3. Cardinality(Stored \cup X) =
            Cardinality(Stored) + Cardinality(X) - Cardinality(Stored \cap X)
      BY <2>2, FS_Union
    <3>4. QED
      BY <2>2, <3>2, <3>3
  <2>5. ~(Cardinality(Stored) + Cardinality(Y) > MaxBlocks)
    BY <1>3 DEF Exceeds
  <2>6. QED
    BY <1>1, <2>2, <2>3, <2>4, <2>5, RepairAssumption
<1>4. QED
  BY <1>2, <1>3

\* No step goes beyond the limit.
LEMMA LimitStep == TypeOK /\ WithinLimit /\ [Next]_vars => WithinLimit'
<1> SUFFICES ASSUME TypeOK, WithinLimit, [Next]_vars
             PROVE  WithinLimit'
  OBVIOUS
<1>1. CASE AnswerView
  <2>1. PICK a \in Answers : ~Exceeds(a.blocks) /\ blocks' = Merge(a.blocks)
    BY <1>1 DEF AnswerView
  <2>2. a.blocks \in Tables
    BY RepairAssumption
  <2>3. QED
    BY <2>1, <2>2, MergeFits DEF WithinLimit
<1>2. CASE blocks' = blocks
  BY <1>2 DEF WithinLimit, Stored
<1>3. QED
  BY <1>1, <1>2 DEF Next, Step, vars, BeginPass, NextBlock, EndBlock, SkipView, SettleView,
     GiveUp, AskView, Ask, QueryFails, RejectAnswer, Converge, EndPass, Expire

\* Whatever the answers hold, the table keeps the limit of the request, which nobody
\* checks again after repair (repair.go:180, fetcher.go:92).
THEOREM LimitKept == Spec => []WithinLimit
<1>1. Init => WithinLimit
  BY StartsFit DEF Init, WithinLimit, Stored
<1>2. QED
  BY <1>1, TypeInit, TypeStep, LimitStep, PTL DEF Spec

--------------------------------------------------------------------------------
\* The pipeline.

\* Every step of the pipeline is a step of repair or does not touch it.
LEMMA StepIsRepairStep == [FetchNext]_fetchVars => [Next]_vars
  BY DEF FetchNext, FetchStep, fetchVars, Next, PageFails, PageTooLarge, Fail, Page, RepairStep,
     RepairRejected, Repaired, Sign, Finish, DeadlinePasses

\* What repair keeps holds during the whole fetch.
RepairInv == TypeOK /\ OpenInv

\* The repair of a fetch starts as a repair does.
LEMMA RepairInit == FetchInit => RepairInv
  BY TypeInit, OpenInit DEF FetchInit, RepairInv

\* A step of a fetch repairs or leaves the repair alone.
LEMMA RepairKept == RepairInv /\ [FetchNext]_fetchVars => RepairInv'
  BY StepIsRepairStep, TypeStep, OpenStep DEF RepairInv

--------------------------------------------------------------------------------
\* What a failure is turned into.

\* The failures FetchSnapshot meets.
Causes ==
  {Network, Deadline, Guard(404, "page_not_found")}
    \cup {Guard(413, c) : c \in Limits} \cup {Guard(502, c) : c \in Incomplete}
    \cup [is : {"upstream"}, status : Int, code : {"none"}, retry : BOOLEAN, says : BOOLEAN]

\* A failed call has one of the causes.
LEMMA FetchCases ==
  ASSUME NEW r \in Responses, Fetch(r) # NoFailure
  PROVE  Fetch(r) \in Causes
<1>1. r.status \in Int /\ r.retry \in BOOLEAN /\ r.says \in BOOLEAN
  BY SnapshotAssumption
<1>2. \/ Fetch(r) = Network \/ Fetch(r) = NoFailure
      \/ Fetch(r) = Guard(413, "max_response_bytes_exceeded")
      \/ Fetch(r) = Failure("upstream", r.status, "none", r.retry, r.says)
      \/ Fetch(r) = Guard(502, "unexpected_content_type")
      \/ Fetch(r) = Guard(502, "malformed_response")
  BY DEF Fetch
<1>3. Failure("upstream", r.status, "none", r.retry, r.says) \in Causes
  BY <1>1 DEF Causes, Failure
<1>4. QED
  BY <1>2, <1>3 DEF Causes, Limits, Incomplete

\* What the property demands of what is told for a cause.
Honest(f, t) ==
  /\ t.code \in Codes
  /\ t.code = "notion_fetch_timeout" <=> f = Deadline
  /\ t.code = "notion_page_not_found" => f.status = 404 \/ f.says
  /\ t.code = "notion_rate_limited" <=> f.status = 429
  /\ t.status \in 400..499 => t.status = f.status \/ t.code = "notion_page_not_found"
  /\ f.code \in Incomplete => t.status = 502 /\ t.code = f.code
  /\ f.status \in 400..599 => t.retry = f.retry

\* Each cause maps to an error that tells it.
LEMMA CausesAreTold ==
  ASSUME NEW f \in Causes
  PROVE  Honest(f, mapNotionError(f))
<1>1. CASE f = Deadline
  <2>1. f.is = "deadline" /\ f.status = 0 /\ f.code = "none"
    BY <1>1 DEF Deadline, Failure
  <2>2. mapNotionError(f) = Told(504, "notion_fetch_timeout", NoHint)
    BY <2>1 DEF mapNotionError
  <2>3. QED
    BY <1>1, <2>1, <2>2 DEF Honest, Codes, Incomplete, Limits, Told
<1> SUFFICES ASSUME f # Deadline
             PROVE  Honest(f, mapNotionError(f))
  BY <1>1
<1>2. CASE f = Network
  <2>1. f.is = "other" /\ f.status = 0 /\ f.code = "none"
    BY <1>2 DEF Network, Failure
  <2>2. mapNotionError(f) = Told(500, "internal_error", NoHint)
    BY <2>1 DEF mapNotionError
  <2>3. QED
    BY <2>1, <2>2 DEF Honest, Codes, Incomplete, Limits, Told
<1>3. CASE f = Guard(404, "page_not_found")
  <2>1. f.is = "upstream" /\ f.status = 404 /\ f.code = "page_not_found"
    BY <1>3 DEF Guard, Failure
  <2>2. mapNotionError(f) = Told(404, "notion_page_not_found", f.retry)
    BY <2>1 DEF mapNotionError, OfStatus, Limits, Incomplete
  <2>3. QED
    BY <2>1, <2>2 DEF Honest, Codes, Incomplete, Limits, Told
<1>4. ASSUME NEW c \in Limits, f = Guard(413, c)
      PROVE  Honest(f, mapNotionError(f))
  <2>1. f.is = "upstream" /\ f.status = 413 /\ f.code = c
    BY <1>4 DEF Guard, Failure
  <2>2. mapNotionError(f) = Told(413, c, f.retry)
    BY <2>1 DEF mapNotionError
  <2>3. QED
    BY <2>1, <2>2 DEF Honest, Codes, Incomplete, Limits, Told
<1>5. ASSUME NEW c \in Incomplete, f = Guard(502, c)
      PROVE  Honest(f, mapNotionError(f))
  <2>1. f.is = "upstream" /\ f.status = 502 /\ f.code = c
    BY <1>5 DEF Guard, Failure
  <2>2. mapNotionError(f) = Told(502, c, f.retry)
    BY <2>1 DEF mapNotionError, Incomplete, Limits
  <2>3. QED
    BY <2>1, <2>2 DEF Honest, Codes, Incomplete, Limits, Told
<1>6. CASE f \in [is : {"upstream"}, status : Int, code : {"none"}, retry : BOOLEAN,
                 says : BOOLEAN]
  <2>1. /\ f.is = "upstream" /\ f.status \in Int /\ f.code = "none"
        /\ f.retry \in BOOLEAN /\ f.says \in BOOLEAN
    BY <1>6
  <2>2. mapNotionError(f) = OfStatus(f)
    BY <2>1 DEF mapNotionError, Limits, Incomplete
  <2>3. Honest(f, OfStatus(f))
    BY <2>1 DEF OfStatus, Honest, Codes, Incomplete, Limits, Told
  <2>4. QED
    BY <2>2, <2>3
<1>7. QED
  BY <1>2, <1>3, <1>4, <1>5, <1>6 DEF Causes

\* A failed fetch tells what its cause is turned into.
FailInv ==
  outcome \in Codes => cause \in Causes /\ told = mapNotionError(cause) /\ outcome = told.code

\* The failures of a fetch are among the causes.
LEMMA FailuresAreCauses ==
  ASSUME [FetchNext]_fetchVars, PageFails \/ PageTooLarge \/ RepairRejected
  PROVE  /\ cause' \in Causes /\ told' = mapNotionError(cause') /\ outcome' = told'.code
         /\ outcome' \in Codes /\ phase' = "done"
<1>1. ASSUME NEW f \in Causes, Fail(f)
      PROVE  /\ cause' \in Causes /\ told' = mapNotionError(cause') /\ outcome' = told'.code
             /\ outcome' \in Codes /\ phase' = "done"
  BY <1>1, CausesAreTold DEF Fail, Honest
<1>2. CASE PageFails
  <2>1. PICK f \in IF expired THEN {Deadline}
                   ELSE ({Fetch(r) : r \in Responses} \ {NoFailure})
                        \cup {Guard(502, "missing_blocks"), Guard(404, "page_not_found")} :
          Fail(f)
    BY <1>2 DEF PageFails
  <2>2. f \in Causes
    <3>1. Deadline \in Causes /\ Guard(404, "page_not_found") \in Causes
      BY DEF Causes
    <3>2. Guard(502, "missing_blocks") \in Causes
      BY DEF Causes, Incomplete
    <3>3. QED
      BY <2>1, <3>1, <3>2, FetchCases
  <2>3. QED
    BY <1>1, <2>1, <2>2
<1>3. CASE PageTooLarge \/ RepairRejected
  <2>1. Guard(413, "max_blocks_exceeded") \in Causes
    BY DEF Causes, Limits
  <2>2. QED
    BY <1>1, <1>3, <2>1 DEF PageTooLarge, RepairRejected
<1>4. QED
  BY <1>2, <1>3

\* A fetch starts without an outcome.
LEMMA FailInit == FetchInit => FailInv
  BY DEF FetchInit, FailInv, Codes, Limits, Incomplete

\* A step that fails the fetch tells its cause.
LEMMA FailKept == FailInv /\ [FetchNext]_fetchVars => FailInv'
<1> SUFFICES ASSUME FailInv, [FetchNext]_fetchVars
             PROVE  FailInv'
  OBVIOUS
<1>1. CASE PageFails \/ PageTooLarge \/ RepairRejected
  BY <1>1, FailuresAreCauses DEF FailInv
<1>2. CASE Finish
  <2>1. outcome' = "snapshot" /\ "snapshot" \notin Codes
    BY <1>2 DEF Finish, Codes, Limits, Incomplete
  <2>2. QED
    BY <2>1 DEF FailInv
<1>3. CASE UNCHANGED <<outcome, cause, told>>
  BY <1>3 DEF FailInv
<1>4. QED
  BY <1>1, <1>2, <1>3 DEF FetchNext, FetchStep, fetchVars, Page, RepairStep, Repaired, Sign, DeadlinePasses, vars

\* Whatever response, limit or deadline ends a fetch, its error says which, with the
\* upstream's status and retry hint where there are any (fetcher.go:199-252).
THEOREM ErrorsAreTold == FetchSpec => []ErrorsTellTheCause
<1>1. FailInv => ErrorsTellTheCause
  BY CausesAreTold DEF FailInv, ErrorsTellTheCause, Honest
<1>2. QED
  BY <1>1, FailInit, FailKept, PTL DEF FetchSpec

--------------------------------------------------------------------------------
\* The flags.

\* From the end of repair on nothing changes what the flags are about, and the row
\* limit, the errors and the collections flag are what that makes of them.
FlagsInv ==
  /\ phase \in {"sign", "assets"} \/ outcome = "snapshot" =>
       at = "done" /\ limitReached = (AtLimit # {})
  /\ phase = "assets" \/ outcome = "snapshot" =>
       errors \in {RepairErrors, {"signing"} \cup RepairErrors}
  /\ outcome = "snapshot" => phase = "done" /\ truncated.collections = CollectionsFlag

\* A fetch starts before its flags are set.
LEMMA FlagsInit == FetchInit => FlagsInv
  BY DEF FetchInit, FlagsInv

\* No step changes what the flags are about once they are set.
LEMMA FlagsKept == FlagsInv /\ [FetchNext]_fetchVars => FlagsInv'
<1> SUFFICES ASSUME FlagsInv, [FetchNext]_fetchVars
             PROVE  FlagsInv'
  OBVIOUS
<1>1. CASE PageFails \/ PageTooLarge \/ RepairRejected
  <2>1. outcome' \in Codes /\ phase' = "done"
    BY <1>1, FailuresAreCauses
  <2>2. outcome' # "snapshot"
    BY <2>1 DEF Codes, Limits, Incomplete
  <2>3. QED
    BY <2>1, <2>2 DEF FlagsInv
<1>2. CASE Page
  BY <1>2 DEF Page, FlagsInv
<1>3. CASE RepairStep
  BY <1>3 DEF RepairStep, FlagsInv
<1>4. CASE Repaired
  BY <1>4 DEF Repaired, FlagsInv, AtLimit, vars
<1>5. CASE Sign
  <2>1. /\ at' = at /\ limitReached' = limitReached /\ outcome' = outcome
        /\ AtLimit' = AtLimit /\ RepairErrors' = RepairErrors
    BY <1>5 DEF Sign, vars, AtLimit, RepairErrors
  <2>2. QED
    BY <1>5, <2>1 DEF Sign, FlagsInv
<1>6. CASE Finish
  <2>1. /\ at' = at /\ limitReached' = limitReached /\ errors' = errors
        /\ AtLimit' = AtLimit /\ RepairErrors' = RepairErrors
        /\ CollectionsFlag' = CollectionsFlag
    BY <1>6 DEF Finish, vars, AtLimit, RepairErrors, CollectionsFlag
  <2>2. truncated'.collections = CollectionsFlag
    BY <1>6 DEF Finish
  <2>3. QED
    BY <1>6, <2>1, <2>2 DEF Finish, FlagsInv
<1>7. CASE DeadlinePasses \/ UNCHANGED fetchVars
  <2>1. /\ UNCHANGED <<query, report, at, phase, outcome, limitReached, errors, truncated>>
    BY <1>7 DEF DeadlinePasses, Expire, fetchVars, vars
  <2>2. QED
    BY <2>1 DEF FlagsInv, AtLimit, RepairErrors, CollectionsFlag
<1>8. QED
  BY <1>1, <1>2, <1>3, <1>4, <1>5, <1>6, <1>7 DEF FetchNext, FetchStep

\* What is told when a snapshot is returned.
LEMMA FlagsAreTrue == RepairInv /\ FlagsInv => FlagsTellTheTruth
<1> SUFFICES ASSUME RepairInv, FlagsInv, outcome = "snapshot"
             PROVE  FlagsTellTheTruth
  BY DEF FlagsTellTheTruth
<1>1. /\ at = "done" /\ limitReached = (AtLimit # {})
      /\ errors \in {RepairErrors, {"signing"} \cup RepairErrors}
      /\ truncated.collections = CollectionsFlag
  BY DEF FlagsInv
<1>2. /\ report.failed \subseteq Pairs /\ report.budget \in BOOLEAN
      /\ report.passes \in BOOLEAN /\ "signing" \notin Pairs
  BY SnapshotAssumption DEF RepairInv, TypeOK
<1>3. CASE ~CollectionsFlag
  <2>1. ~report.budget /\ ~report.passes /\ ~limitReached /\ report.failed = {}
    BY <1>3 DEF CollectionsFlag
  <2>2. AtLimit = {}
    BY <1>1, <2>1
  <2>3. Shown \subseteq processed
    <3>1. \A k \in Keys : HasBlock(k) => OpenAt(k) = {}
      BY <1>1, <2>1 DEF RepairInv, OpenInv
    <3>2. QED
      BY <3>1 DEF Shown, OpenAt, Elements
  <2>4. RepairErrors = {}
    BY <2>1 DEF RepairErrors
  <2>5. errors \ {"signing"} = {}
    BY <1>1, <2>4
  <2>6. QED
    BY <1>1, <1>3, <2>1, <2>2, <2>3, <2>5 DEF FlagsTellTheTruth
<1>4. CASE CollectionsFlag
  <2>1. report.failed \subseteq RepairErrors /\ RepairErrors \subseteq errors
    BY <1>1 DEF RepairErrors
  <2>2. RepairErrors \ {"signing"} # {}
    <3>1. CASE report.failed # {}
      BY <1>2, <2>1, <3>1
    <3>2. CASE report.budget
      BY <3>2 DEF RepairErrors
    <3>3. CASE report.passes
      BY <3>3 DEF RepairErrors
    <3>4. CASE limitReached
      BY <3>4 DEF RepairErrors
    <3>5. QED
      BY <1>4, <3>1, <3>2, <3>3, <3>4 DEF CollectionsFlag
  <2>3. QED
    BY <1>1, <1>4, <2>1, <2>2 DEF FlagsTellTheTruth
<1>5. QED
  BY <1>3, <1>4

\* A snapshot that does not say that its collections are cut has decided on every
\* view, without a failure and below the row limit; whatever is cut is told by an
\* error too (types.go:69-72, fetcher.go:129-130).
THEOREM FlagsHonest == FetchSpec => []FlagsTellTheTruth
  BY RepairInit, RepairKept, FlagsInit, FlagsKept, FlagsAreTrue, PTL DEF FetchSpec

--------------------------------------------------------------------------------
\* Texts that name files.

\* The identity of a file is its own.
LEMMA IdentityFacts ==
  ASSUME NEW l \in Layers
  PROVE  \/ Identity(l) = None
         \/ \E form \in {"attachment", "builtin", "legacy", "opaque"} :
              Identity(l) = Plain(form, l.of)
<1>1. CASE l.form \in {"attachment", "file"}
  <2>1. Identity(l) = Plain("attachment", l.of)
    BY <1>1 DEF Identity
  <2>2. QED
    BY <2>1
<1>2. CASE l.form = "icon"
  <2>1. Identity(l) = Plain("builtin", l.of)
    BY <1>2 DEF Identity
  <2>2. QED
    BY <2>1
<1>3. CASE l.form = "legacy"
  BY <1>3 DEF Identity
<1>4. CASE l.form \in {"builtin", "opaque"} /\ ~l.signed
  BY <1>4 DEF Identity
<1>5. CASE ~(l.form \in {"attachment", "file"} \/ l.form = "icon" \/ l.form = "legacy"
             \/ (l.form \in {"builtin", "opaque"} /\ ~l.signed))
  BY <1>5 DEF Identity
<1>6. QED
  BY <1>1, <1>2, <1>3, <1>4, <1>5

\* A plain text of a form that has an identity is its own source, and not signed.
LEMMA PlainFacts ==
  ASSUME NEW form \in {"attachment", "builtin", "legacy", "opaque"}, NEW of \in STRING
  PROVE  /\ Plain(form, of) \in Texts /\ Plain(form, of) # None
         /\ Source(Plain(form, of)) = Plain(form, of)
         /\ ~Signed(Plain(form, of))
<1> DEFINE t == Plain(form, of)
      l == Layer(form, of, FALSE)
<1>0. /\ t = <<l>> /\ l \in Layers
  BY DEF Plain, Layer, Layers
<1>a. l.form = form /\ l.of = of /\ l.signed = FALSE
  BY DEF Layer
<1> HIDE DEF t, l
<1>1. /\ Len(t) = 1 /\ DOMAIN t = {1} /\ t[1] = l /\ t # None
      /\ t \in Seq(Layers)
  BY <1>0 DEF None
<1>2. t \in Texts
  <2>1. \A i \in DOMAIN t : ~(i < Len(t))
    BY <1>1
  <2>2. QED
    BY <1>1, <2>1 DEF Texts
<1>3. t[1].form = form /\ t[1].of = of /\ t[1].signed = FALSE
  BY <1>1, <1>a
<1>4. Identity(t[1]) = t
  BY <1>3 DEF Identity, t
<1>5. Source(t) = Identity(t[1])
  BY <1>1 DEF Source, MaxProxies
<1>6. ~Signed(t)
  BY <1>1, <1>3 DEF Signed, MaxProxies
<1>7. QED
  BY <1>1, <1>2, <1>4, <1>5, <1>6 DEF t

\* A source is a text that is its own source and is not signed.
LEMMA SourceFacts ==
  ASSUME NEW t \in Texts
  PROVE  /\ Source(t) \in Texts /\ Source(Source(t)) = Source(t) /\ ~Signed(Source(t))
<1>1. /\ None \in Texts /\ Source(None) = None /\ ~Signed(None)
  BY DEF None, Texts, Source, Signed
<1>2. CASE Source(t) = None
  BY <1>1, <1>2
<1>3. CASE Source(t) # None
  <2>1. t # None /\ t \in Seq(Layers)
    BY <1>3, <1>1 DEF Texts
  <2>2. Len(t) \in DOMAIN t /\ t[Len(t)] \in Layers
    <3>1. Len(t) \in Nat /\ DOMAIN t = 1..Len(t) /\ t # <<>>
      BY <2>1, LenProperties DEF None
    <3>2. Len(t) # 0
      BY <2>1, <3>1, EmptySeq
    <3>3. QED
      BY <2>1, <3>1, <3>2, ElementOfSeq
  <2>3. Source(t) = Identity(t[Len(t)])
    BY <1>3 DEF Source
  <2>4. PICK form \in {"attachment", "builtin", "legacy", "opaque"} :
               Source(t) = Plain(form, t[Len(t)].of)
    BY <1>3, <2>2, <2>3, IdentityFacts
  <2>5. t[Len(t)].of \in STRING
    BY <2>2 DEF Layers
  <2>6. QED
    BY <2>4, <2>5, PlainFacts
<1>4. QED
  BY <1>2, <1>3

\* Storage keeps the file and drops the credentials.
LEMMA StorageFacts ==
  ASSUME NEW t \in Texts
  PROVE  /\ ~Signed(ForStorage(t)) /\ Source(ForStorage(t)) = Source(t)
         /\ ForStorage(Source(t)) = Source(t)
BY SourceFacts DEF ForStorage

\* The text that a file is collected by has its source.
LEMMA HostedFacts ==
  ASSUME NEW t \in Texts
  PROVE  /\ Hosted(t) \in Texts
         /\ Hosted(t) # None => Source(Hosted(t)) = Source(t) /\ t # None
<1>1. None \in Texts /\ Source(t) \in Texts /\ Source(Source(t)) = Source(t)
  <2>1. None \in Texts
    BY DEF None, Texts
  <2>2. QED
    BY <2>1, SourceFacts
<1>2. Hosted(t) \in {None, t, Source(t)}
  BY DEF Hosted, DownloadURL
<1>3. t = None => Hosted(t) = None
  BY DEF Hosted, DownloadURL
<1>4. QED
  BY <1>1, <1>2, <1>3

\* What is signed is collected, and by its source.
LEMMA SigningFacts ==
  ASSUME NEW t \in Texts, SigningSource(t) # None
  PROVE  /\ t # None
         /\ SigningSource(t) = Source(t)
         /\ Source(Hosted(t)) = Source(t)
         /\ Source(SigningSource(t)) = SigningSource(t)
<1>1. SigningSource(t) = Source(t) /\ Source(t) # None /\ Source(t)[1].form \in {"attachment", "legacy"}
  BY DEF SigningSource
<1>2. t # None
  BY <1>1 DEF Source
<1>3. /\ t \in Seq(Layers)
      /\ \A i \in DOMAIN t : i < Len(t) => t[i].form = "proxy"
  BY DEF Texts
<1> DEFINE n == Len(t)
           l == t[n]
<1>4. n \in Nat /\ n >= 1 /\ n <= MaxProxies + 1 /\ Source(t) = Identity(l) /\ DOMAIN t = 1..n
  BY <1>1, <1>2, <1>3 DEF Source, MaxProxies, None
<1>5. l \in Layers
  BY <1>3, <1>4
<1>6. l.form \in {"attachment", "file", "legacy"}
  <2>1. CASE l.form = "icon"
    <3>1. Source(t)[1].form = "builtin"
      BY <1>4, <2>1 DEF Identity, Plain, Layer
    <3>2. QED
      BY <1>1, <3>1
  <2>2. CASE l.form \in {"builtin", "opaque"} /\ ~l.signed
    <3>1. Source(t)[1].form = l.form
      BY <1>4, <2>2 DEF Identity, Plain, Layer
    <3>2. QED
      BY <1>1, <2>2, <3>1
  <2>3. CASE ~(l.form \in {"attachment", "file"} \/ l.form = "icon" \/ l.form = "legacy"
               \/ (l.form \in {"builtin", "opaque"} /\ ~l.signed))
    <3>1. Identity(l) = None
      BY <2>3 DEF Identity
    <3>2. QED
      BY <1>1, <1>4, <3>1
  <2>4. QED
    BY <2>1, <2>2, <2>3
<1>7. Hosted(t) # None
  <2>1. CASE n = 1
    <3>1. t[1] = l
      BY <2>1
    <3>2. CASE l.form = "attachment"
      BY <1>1, <1>2, <3>1, <3>2 DEF Hosted
    <3>3. CASE l.form # "attachment"
      <4>1. IsURL(t[1]) /\ t[1].form \notin {"attachment", "icon"}
        BY <1>6, <3>1, <3>3 DEF IsURL
      <4>2. DownloadURL(t) = t
        BY <1>2, <2>1, <4>1 DEF DownloadURL
      <4>3. QED
        BY <1>2, <4>1, <4>2 DEF Hosted
    <3>4. QED
      BY <3>2, <3>3
  <2>2. CASE n > 1
    <3>1. t[1].form = "proxy" /\ IsURL(t[1])
      BY <1>3, <1>4, <2>2 DEF IsURL
    <3>2. /\ Tail(t) # None /\ Len(Tail(t)) = n - 1 /\ Tail(t)[n - 1] = l
      BY <1>3, <1>4, <2>2 DEF None
    <3>3. Source(Tail(t)) = Identity(l)
      <4> DEFINE u == Tail(t)
      <4>1. u # None /\ Len(u) = n - 1 /\ u[n - 1] = l
        BY <3>2
      <4>2. ~(Len(u) > MaxProxies + 1)
        BY <1>4, <4>1 DEF MaxProxies
      <4> HIDE DEF u, l, n
      <4>3. Source(u) = Identity(u[Len(u)])
        BY <4>1, <4>2 DEF Source
      <4>4. QED
        BY <4>1, <4>3 DEF u
    <3>4. DownloadURL(t) = t
      BY <1>1, <1>2, <1>4, <3>1, <3>3 DEF DownloadURL
    <3>5. QED
      BY <1>2, <3>1, <3>4 DEF Hosted
  <2>3. QED
    BY <1>4, <2>1, <2>2
<1>8. Source(Source(t)) = Source(t) /\ Source(Hosted(t)) = Source(t)
  BY <1>7, SourceFacts, HostedFacts
<1>9. QED
  BY <1>1, <1>2, <1>8

--------------------------------------------------------------------------------
\* The blocks of the record map in their order.

\* The normalised blocks: records under their own identifiers.
NormOK ==
  /\ DOMAIN norm \subseteq Ids
  /\ \A id \in DOMAIN norm : norm[id] \in Records /\ norm[id].id = id

\* What a record consists of.
LEMMA RecordFacts ==
  ASSUME NEW r \in Records
  PROVE  /\ r.null = FALSE /\ r.id \in 0..N /\ r.content \in Seq(Ids) /\ r.rows \in Seq(Ids)
         /\ r.texts \in Seq(Texts)
         /\ \A place \in {"cover", "icon", "main"} : r.files[place] \in Texts
  BY DEF Records

\* A set of identifiers is a finite set of numbers.
LEMMA IdsFacts ==
  ASSUME NEW S, S \subseteq Ids
  PROVE  IsFiniteSet(S) /\ S \in SUBSET Int
<1>1. IsFiniteSet(Ids)
  BY AssetsAssumption, FS_Interval DEF Ids
<1>2. IsFiniteSet(S)
  BY <1>1, FS_Subset
<1>3. S \in SUBSET Int
  BY AssetsAssumption DEF Ids
<1>4. QED
  BY <1>2, <1>3

\* The content of the page are blocks.
LEMMA ContentFacts ==
  ASSUME NormOK
  PROVE  PageContent \in Seq(DOMAIN norm)
<1> DEFINE B == DOMAIN norm
           below == [id \in DOMAIN norm |-> norm[id].content]
           start == <<Root>>
<1>1. IsFiniteSet(B)
  BY IdsFacts DEF NormOK
<1>2. below \in [B -> Seq(Ids)]
  <2>1. \A id \in DOMAIN norm : norm[id].content \in Seq(Ids)
    BY RecordFacts DEF NormOK
  <2>2. QED
    BY <2>1
<1>3. start \in Seq(Ids)
  BY AssetsAssumption DEF Ids
<1> HIDE DEF B, below, start
<1>4. Visited(start, below) \in Seq(B)
  BY <1>1, <1>2, <1>3, VisitedFacts
<1>5. QED
  BY <1>4 DEF PageContent, B, below, start

\* The rows that are blocks.
LEMMA RowsFacts ==
  ASSUME NormOK
  PROVE  Select(QueryRows, LAMBDA id : id \in DOMAIN norm) \in Seq(DOMAIN norm)
<1> DEFINE content == PageContent
           lists == [i \in DOMAIN content |-> norm[content[i]].rows]
           spots == {i \in DOMAIN QueryRows : QueryRows[i] \in DOMAIN norm}
<1>1. content \in Seq(DOMAIN norm)
  BY ContentFacts
<1>2. lists \in Seq(Seq(Ids))
  <2> HIDE DEF content
  <2>1. DOMAIN content = 1..Len(content) /\ Len(content) \in Nat
        /\ \A i \in 1..Len(content) : content[i] \in DOMAIN norm
    BY <1>1, LenProperties, ElementOfSeq
  <2>2. \A i \in 1..Len(content) : norm[content[i]].rows \in Seq(Ids)
    BY <2>1, RecordFacts DEF NormOK
  <2>3. QED
    BY <2>1, <2>2
<1>3. QueryRows \in Seq(Ids)
  <2>1. QueryRows = FlattenSeq(lists)
    BY DEF QueryRows
  <2> HIDE DEF lists
  <2>2. QED
    BY <1>2, <2>1, FlatType
<1>4. Select(QueryRows, LAMBDA id : id \in DOMAIN norm) = Pick(QueryRows, spots)
  BY DEF Select
<1> HIDE DEF content, lists
<1>5. ToSet(Pick(QueryRows, spots)) = {QueryRows[i] : i \in spots \cap DOMAIN QueryRows}
      /\ Pick(QueryRows, spots) \in Seq(Ids)
  BY <1>3, PickMembers, PickClimbs
<1>6. ToSet(Pick(QueryRows, spots)) \subseteq DOMAIN norm
  BY <1>5
<1> HIDE DEF spots
<1>7. Pick(QueryRows, spots) \in Seq(DOMAIN norm)
  BY <1>5, <1>6, ListOf
<1>8. QED
  BY <1>4, <1>7

\* The blocks in the order of their keys, with the rows in place: all blocks, and
\* nothing else.
LEMMA OthersFacts ==
  ASSUME NormOK
  PROVE  Others \in Seq(DOMAIN norm) /\ ToSet(Others) = DOMAIN norm
<1> DEFINE B == DOMAIN norm
           ids == Ascending(B)
           rows == Select(QueryRows, LAMBDA id : id \in DOMAIN norm)
           listed == ToSet(rows)
           part(i) == IF ids[i] \notin listed THEN <<ids[i]>>
                      ELSE IF \E j \in DOMAIN ids : j < i /\ ids[j] \in listed THEN <<>>
                      ELSE rows
           parts == [i \in DOMAIN ids |-> part(i)]
<1>1. /\ Ascends(ids, Cardinality(B), B) /\ ids \in Seq(B) /\ Len(ids) = Cardinality(B)
  BY IdsFacts, AscendingGoesThrough DEF NormOK
<1>2. rows \in Seq(B)
  BY RowsFacts
<1>3. Others = FlattenSeq(parts)
  BY DEF Others
<1> HIDE DEF B, ids, rows
<1> DEFINE m == Len(ids)
<1>4. m \in Nat /\ DOMAIN ids = 1..m /\ \A i \in 1..m : ids[i] \in B
  BY <1>1, LenProperties, ElementOfSeq
<1>5. \A x \in B : \E i \in 1..m : ids[i] = x
  BY <1>1 DEF Ascends
<1>6. listed \subseteq B
  <2>1. \A i \in DOMAIN rows : rows[i] \in B
    BY <1>2, LenProperties, ElementOfSeq
  <2>2. QED
    BY <2>1 DEF ToSet
<1> HIDE DEF listed
<1>7. \A i \in 1..m : part(i) \in Seq(B)
  <2>1. <<>> \in Seq(B) /\ \A i \in 1..m : <<ids[i]>> \in Seq(B)
    BY <1>4
  <2>2. QED
    BY <1>2, <2>1
<1>8. parts \in Seq(Seq(B)) /\ DOMAIN parts = 1..m /\ \A i \in 1..m : parts[i] = part(i)
  <2> HIDE DEF part
  <2>1. QED
    BY <1>4, <1>7
<1> HIDE DEF parts
<1>9. /\ FlattenSeq(parts) \in Seq(B)
      /\ ToSet(FlattenSeq(parts)) = UNION {ToSet(parts[i]) : i \in DOMAIN parts}
  BY <1>8, FlatType, FlatMembers
<1>10. ToSet(FlattenSeq(parts)) \subseteq B
  <2> DEFINE s == FlattenSeq(parts)
  <2>1. \A i \in DOMAIN s : s[i] \in B
    BY <1>9, LenProperties, ElementOfSeq
  <2>2. QED
    BY <2>1 DEF ToSet
<1>11. ASSUME NEW x \in B
       PROVE  \E i \in 1..m : x \in ToSet(parts[i])
  <2>1. CASE x \notin listed
    <3>1. PICK i \in 1..m : ids[i] = x
      BY <1>5
    <3>2. parts[i] = <<x>>
      BY <1>8, <2>1, <3>1
    <3>3. x \in ToSet(<<x>>)
      BY DEF ToSet
    <3>4. QED
      BY <3>2, <3>3
  <2>2. CASE x \in listed
    <3> DEFINE S == {i \in 1..m : ids[i] \in listed}
    <3>1. S # {} /\ S \in SUBSET Nat
      BY <1>5, <2>2
    <3>2. PICK i \in S : \A j \in S : i <= j
      <4> HIDE DEF S
      <4>1. QED
        BY <3>1, LeastNumber
    <3>3. ~(\E j \in DOMAIN ids : j < i /\ ids[j] \in listed)
      BY <1>4, <3>2
    <3>4. parts[i] = rows
      BY <1>8, <3>2, <3>3
    <3>5. QED
      BY <2>2, <3>2, <3>4 DEF listed
  <2>3. QED
    BY <2>1, <2>2
<1>12. B \subseteq ToSet(FlattenSeq(parts))
  BY <1>8, <1>9, <1>11
<1>13. QED
  BY <1>3, <1>9, <1>10, <1>12 DEF B

\* The order of the blocks: those of the page, then the rest.
LEMMA OrderFacts ==
  ASSUME NormOK
  PROVE  \E rest \in Seq(DOMAIN norm) :
           /\ OrderedBlocks = Unique(PageContent) \o rest
           /\ ToSet(OrderedBlocks) = DOMAIN norm
<1> DEFINE B == DOMAIN norm
<1>1. /\ PageContent \in Seq(B) /\ Others \in Seq(B) /\ ToSet(Others) = B
  BY ContentFacts, OthersFacts
<1>2. PageContent \o Others \in Seq(B)
  BY <1>1, ConcatProperties
<1>3. PICK rest \in Seq(B) : Unique(PageContent \o Others) = Unique(PageContent) \o rest
  BY <1>1, UniqueConcat
<1>4. ToSet(PageContent \o Others) = ToSet(PageContent) \cup B
  BY <1>1, ToSetConcat
<1>5. ToSet(PageContent) \subseteq B
  <2>1. \A i \in DOMAIN PageContent : PageContent[i] \in B
    BY <1>1, LenProperties, ElementOfSeq
  <2>2. QED
    BY <2>1 DEF ToSet
<1>6. ToSet(Unique(PageContent \o Others)) = ToSet(PageContent \o Others)
  BY <1>2, UniqueFacts
<1>7. QED
  BY <1>3, <1>4, <1>5, <1>6 DEF OrderedBlocks

--------------------------------------------------------------------------------
\* The files that are collected.

URLs == [is : {"none", "file", "answer", "proxy"}, source : Texts, block : 0..N]
AssetSet ==
  [block : 0..N, role : {"cover", "icon", "main", "text", "emoji"}, source : Texts, url : URLs]
SignedOK == \A k \in DOMAIN signed : signed[k] \in URLs

\* The asset that a block has in a place, in its text, or an emoji.
AtPlace(block, place) ==
  Asset(block.id, place, Hosted(block.files[place]), PlaceURL(block, place))
InText(block, text) == Asset(block.id, "text", text, URLOf(KeyOfFile(text)))
OfEmoji(text) == Asset(0, "emoji", text, URLOf(KeyOfFile(text)))

\* The places of a block.
LEMMA PlacesFacts ==
  ASSUME NEW type
  PROVE  /\ Places(type) \in Seq({"cover", "icon", "main"})
         /\ type = "page" => ToSet(Places(type)) = {"cover", "icon"}
         /\ type \in Media => ToSet(Places(type)) = {"main"}
         /\ type \notin Media => "main" \notin ToSet(Places(type))
<1>1. CASE type = "page"
  <2>1. Places(type) = <<"cover", "icon">> /\ type \notin Media
    BY <1>1 DEF Places, Media
  <2>2. ToSet(<<"cover", "icon">>) = {"cover", "icon"}
    <3>1. DOMAIN <<"cover", "icon">> = {1, 2}
      OBVIOUS
    <3>2. QED
      BY <3>1 DEF ToSet
  <2>3. QED
    BY <2>1, <2>2
<1>2. CASE type # "page" /\ type \in Media
  <2>1. Places(type) = <<"main">>
    BY <1>2 DEF Places
  <2>2. ToSet(<<"main">>) = {"main"}
    <3>1. DOMAIN <<"main">> = {1}
      OBVIOUS
    <3>2. QED
      BY <3>1 DEF ToSet
  <2>3. QED
    BY <1>2, <2>1, <2>2
<1>3. CASE type # "page" /\ type \notin Media
  <2>1. Places(type) \in {<<"icon">>, <<"icon", "cover">>, <<>>}
    BY <1>3 DEF Places
  <2>2. /\ DOMAIN <<"icon">> = {1} /\ DOMAIN <<"icon", "cover">> = {1, 2}
    OBVIOUS
  <2>3. /\ "main" \notin ToSet(<<"icon">>) /\ "main" \notin ToSet(<<"icon", "cover">>)
        /\ "main" \notin ToSet(<<>>)
    BY <2>2 DEF ToSet
  <2>4. /\ <<"icon">> \in Seq({"cover", "icon", "main"})
        /\ <<"icon", "cover">> \in Seq({"cover", "icon", "main"})
        /\ <<>> \in Seq({"cover", "icon", "main"})
    OBVIOUS
  <2>5. QED
    BY <1>3, <2>1, <2>3, <2>4
<1>4. QED
  BY <1>1, <1>2, <1>3

\* A place of a block is one of three.
LEMMA PlaceNames ==
  ASSUME NEW type
  PROVE  \A p \in ToSet(Places(type)) : p \in {"cover", "icon", "main"}
<1>1. \A i \in DOMAIN Places(type) : Places(type)[i] \in {"cover", "icon", "main"}
  BY PlacesFacts, LenProperties, ElementOfSeq
<1>2. QED
  BY <1>1 DEF ToSet

\* A URL is one.
LEMMA URLFacts ==
  ASSUME SignedOK
  PROVE  /\ NoURL \in URLs
         /\ \A k : URLOf(k) \in URLs
         /\ \A id \in 0..N, t \in Texts : Proxy(id, t) \in URLs
         /\ \A a, b \in URLs : First(a, b) \in URLs
<1>1. NoURL \in URLs
  BY AssetsAssumption DEF NoURL, URLs, None, Texts
<1>2. \A k : URLOf(k) \in URLs
  BY <1>1 DEF URLOf, SignedOK
<1>3. ASSUME NEW id \in 0..N, NEW t \in Texts
      PROVE  Proxy(id, t) \in URLs
  <2>1. Source(t) \in Texts
    BY SourceFacts
  <2>2. [is |-> "proxy", source |-> Source(t), block |-> id] \in URLs
    BY <2>1 DEF URLs
  <2>3. QED
    BY <1>1, <2>2 DEF Proxy
<1>4. QED
  BY <1>1, <1>2, <1>3 DEF First

\* The assets at the places of a block.
LEMMA PlaceAssetsFacts ==
  ASSUME SignedOK, NEW b \in Records
  PROVE  /\ PlaceAssets(b) \in Seq(AssetSet)
         /\ ToSet(PlaceAssets(b)) \subseteq {AtPlace(b, p) : p \in ToSet(Places(b.type))}
         /\ \A p \in ToSet(Places(b.type)) :
              Hosted(b.files[p]) # None => AtPlace(b, p) \in ToSet(PlaceAssets(b))
<1> DEFINE P == Places(b.type)
           all == [i \in DOMAIN P |->
                     LET place == P[i]
                         text == Hosted(b.files[place])
                     IN  Asset(b.id, place, text, PlaceURL(b, place))]
           fit == {i \in DOMAIN all : all[i].source # None
                                      \/ (all[i].role = "main" /\ all[i].url # NoURL)}
<1>1. PlaceAssets(b) = Pick(all, fit)
  BY DEF PlaceAssets, Select
<1>2. Len(P) \in Nat /\ DOMAIN P = 1..Len(P) /\ \A i \in DOMAIN P : P[i] \in {"cover", "icon", "main"}
  BY PlacesFacts, LenProperties, ElementOfSeq
<1>3. /\ all = [i \in DOMAIN P |-> AtPlace(b, P[i])]
      /\ DOMAIN all = DOMAIN P /\ \A i \in DOMAIN all : all[i] = AtPlace(b, P[i])
  BY DEF AtPlace
<1> HIDE DEF all, P
<1>4. ASSUME NEW p \in {"cover", "icon", "main"}
      PROVE  AtPlace(b, p) \in AssetSet
  <2>1. b.id \in 0..N /\ b.files[p] \in Texts
    BY RecordFacts
  <2>2. Hosted(b.files[p]) \in Texts
    BY <2>1, HostedFacts
  <2>3. PlaceURL(b, p) \in URLs
    BY <2>1, <2>2, URLFacts DEF PlaceURL
  <2>4. QED
    BY <2>1, <2>2, <2>3 DEF AtPlace, Asset, AssetSet
<1>5. all \in Seq(AssetSet)
  BY <1>2, <1>3, <1>4
<1>6. /\ Pick(all, fit) \in Seq(AssetSet)
      /\ ToSet(Pick(all, fit)) = {all[i] : i \in fit \cap DOMAIN all}
  <2> HIDE DEF fit
  <2>1. QED
    BY <1>5, PickClimbs, PickMembers
<1>7. ToSet(Pick(all, fit)) \subseteq {AtPlace(b, p) : p \in ToSet(P)}
  BY <1>3, <1>6 DEF ToSet
<1>8. ASSUME NEW p \in ToSet(P), Hosted(b.files[p]) # None
      PROVE  AtPlace(b, p) \in ToSet(Pick(all, fit))
  <2>1. PICK i \in DOMAIN P : P[i] = p
    BY DEF ToSet
  <2>2. all[i] = AtPlace(b, p) /\ all[i].source # None
    BY <1>3, <1>8, <2>1 DEF AtPlace, Asset
  <2>3. QED
    BY <1>3, <1>6, <2>2
<1>9. QED
  BY <1>1, <1>6, <1>7, <1>8 DEF P

\* The assets in the texts of a block, each file once.
LEMMA TextAssetsFacts ==
  ASSUME SignedOK, NEW b \in Records
  PROVE  /\ TextAssets(b) \in Seq(AssetSet)
         /\ ToSet(TextAssets(b)) = {InText(b, h) : h \in {Hosted(t) : t \in ToSet(b.texts)} \ {None}}
<1> DEFINE all == [i \in DOMAIN b.texts |-> Hosted(b.texts[i])]
           fit == {i \in DOMAIN all : all[i] # None}
           texts == Unique(Pick(all, fit))
           made == [i \in DOMAIN texts |-> Asset(b.id, "text", texts[i], URLOf(KeyOfFile(texts[i])))]
<1>1. TextAssets(b) = made
  BY DEF TextAssets, Select
<1>2. /\ b.texts \in Seq(Texts) /\ b.id \in 0..N
  BY RecordFacts
<1>3. Len(b.texts) \in Nat /\ DOMAIN b.texts = 1..Len(b.texts) /\ \A i \in DOMAIN b.texts : b.texts[i] \in Texts
  BY <1>2, LenProperties, ElementOfSeq
<1>4. all \in Seq(Texts)
  BY <1>3, HostedFacts
<1>5. /\ Pick(all, fit) \in Seq(Texts)
      /\ ToSet(Pick(all, fit)) = {all[i] : i \in fit \cap DOMAIN all}
  <2> HIDE DEF fit, all
  <2>1. QED
    BY <1>4, PickClimbs, PickMembers
<1>6. texts \in Seq(Texts) /\ ToSet(texts) = ToSet(Pick(all, fit))
  <2> HIDE DEF fit, all
  <2>1. QED
    BY <1>5, UniqueFacts
<1>7. ToSet(texts) = {Hosted(t) : t \in ToSet(b.texts)} \ {None}
  <2>1. {all[i] : i \in fit \cap DOMAIN all} = {Hosted(t) : t \in ToSet(b.texts)} \ {None}
    BY DEF ToSet
  <2>2. QED
    BY <1>5, <1>6, <2>1
<1> HIDE DEF texts
<1>8. Len(texts) \in Nat /\ DOMAIN texts = 1..Len(texts) /\ \A i \in DOMAIN texts : texts[i] \in Texts
  BY <1>6, LenProperties, ElementOfSeq
<1>9. \A t \in Texts : InText(b, t) \in AssetSet
  BY <1>2, URLFacts DEF InText, Asset, AssetSet
<1>10. made = [i \in DOMAIN texts |-> InText(b, texts[i])]
  BY DEF InText
<1>11. made \in Seq(AssetSet)
  BY <1>8, <1>9, <1>10
<1>12. ToSet(made) = {InText(b, h) : h \in ToSet(texts)}
  BY <1>10 DEF ToSet
<1>13. QED
  BY <1>1, <1>7, <1>11, <1>12

\* The assets of a block.
LEMMA BlockAssetsFacts ==
  ASSUME SignedOK, NEW b \in Records
  PROVE  /\ BlockAssets(b) \in Seq(AssetSet)
         /\ ToSet(BlockAssets(b)) = ToSet(PlaceAssets(b)) \cup ToSet(TextAssets(b))
<1>1. PlaceAssets(b) \in Seq(AssetSet) /\ TextAssets(b) \in Seq(AssetSet)
  BY PlaceAssetsFacts, TextAssetsFacts
<1>2. /\ PlaceAssets(b) \o TextAssets(b) \in Seq(AssetSet)
      /\ TextAssets(b) \o PlaceAssets(b) \in Seq(AssetSet)
      /\ ToSet(PlaceAssets(b) \o TextAssets(b)) = ToSet(PlaceAssets(b)) \cup ToSet(TextAssets(b))
      /\ ToSet(TextAssets(b) \o PlaceAssets(b)) = ToSet(TextAssets(b)) \cup ToSet(PlaceAssets(b))
  BY <1>1, ConcatProperties, ToSetConcat
<1>3. QED
  BY <1>2 DEF BlockAssets

\* The assets of the emojis.
LEMMA EmojiAssetsFacts ==
  ASSUME SignedOK
  PROVE  /\ EmojiAssets \in Seq(AssetSet)
         /\ ToSet(EmojiAssets) \subseteq {OfEmoji(t) : t \in Texts}
<1> DEFINE all == [i \in DOMAIN Emojis |-> Hosted(Emojis[i])]
           fit == {i \in DOMAIN all : all[i] # None}
           hosted == Pick(all, fit)
           made == [i \in DOMAIN hosted |-> Asset(0, "emoji", hosted[i], URLOf(KeyOfFile(hosted[i])))]
<1>1. EmojiAssets = made
  BY DEF EmojiAssets, Select
<1>2. /\ Len(Emojis) \in Nat /\ DOMAIN Emojis = 1..Len(Emojis)
      /\ \A i \in DOMAIN Emojis : Emojis[i] \in Texts
  BY AssetsAssumption, LenProperties, ElementOfSeq
<1>3. all \in Seq(Texts)
  BY <1>2, HostedFacts
<1>4. hosted \in Seq(Texts)
  <2> HIDE DEF all, fit
  <2>1. QED
    BY <1>3, PickClimbs
<1> HIDE DEF hosted
<1>5. Len(hosted) \in Nat /\ DOMAIN hosted = 1..Len(hosted) /\ \A i \in DOMAIN hosted : hosted[i] \in Texts
  BY <1>4, LenProperties, ElementOfSeq
<1>6. \A t \in Texts : OfEmoji(t) \in AssetSet
  BY AssetsAssumption, URLFacts DEF OfEmoji, Asset, AssetSet
<1>7. made = [i \in DOMAIN hosted |-> OfEmoji(hosted[i])]
  BY DEF OfEmoji
<1>8. made \in Seq(AssetSet)
  BY <1>5, <1>6, <1>7
<1>9. ToSet(made) \subseteq {OfEmoji(t) : t \in Texts}
  BY <1>5, <1>7 DEF ToSet
<1>10. QED
  BY <1>1, <1>8, <1>9

\* The assets of the blocks, as a function of the block.
AssetsOf == [id \in DOMAIN norm |-> BlockAssets(norm[id])]

LEMMA AssetsOfType ==
  ASSUME NormOK, SignedOK
  PROVE  AssetsOf \in [DOMAIN norm -> Seq(AssetSet)]
<1>1. \A id \in DOMAIN norm : BlockAssets(norm[id]) \in Seq(AssetSet)
  BY BlockAssetsFacts DEF NormOK
<1>2. QED
  BY <1>1 DEF AssetsOf

\* What is gathered from a list of blocks.
LEMMA GatherMembers ==
  ASSUME NormOK, SignedOK, NEW s \in Seq(DOMAIN norm)
  PROVE  /\ Gather(s, AssetsOf) \in Seq(AssetSet)
         /\ ToSet(Gather(s, AssetsOf)) = UNION {ToSet(BlockAssets(norm[id])) : id \in ToSet(s)}
<1> DEFINE lists == [i \in DOMAIN s |-> AssetsOf[s[i]]]
<1>1. /\ Len(s) \in Nat /\ DOMAIN s = 1..Len(s) /\ \A i \in DOMAIN s : s[i] \in DOMAIN norm
  BY LenProperties, ElementOfSeq
<1>2. AssetsOf \in [DOMAIN norm -> Seq(AssetSet)]
  BY AssetsOfType
<1>3. lists \in Seq(Seq(AssetSet))
  BY <1>1, <1>2
<1>4. /\ DOMAIN lists = DOMAIN s
      /\ \A i \in DOMAIN s : lists[i] = BlockAssets(norm[s[i]])
  BY <1>1 DEF AssetsOf
<1>5. Gather(s, AssetsOf) = FlattenSeq(lists)
  BY DEF Gather
<1> HIDE DEF lists
<1>6. /\ FlattenSeq(lists) \in Seq(AssetSet)
      /\ ToSet(FlattenSeq(lists)) = UNION {ToSet(lists[i]) : i \in DOMAIN lists}
  BY <1>3, FlatType, FlatMembers
<1>7. {ToSet(lists[i]) : i \in DOMAIN lists} = {ToSet(BlockAssets(norm[id])) : id \in ToSet(s)}
  <2>1. \A i \in DOMAIN s : s[i] \in ToSet(s)
    BY DEF ToSet
  <2>2. \A id \in ToSet(s) : \E i \in DOMAIN s : s[i] = id
    BY DEF ToSet
  <2>3. QED
    BY <1>4, <2>1, <2>2
<1>8. QED
  BY <1>5, <1>6, <1>7

\* Before the last fallbacks: the files of the page's own content, those of all other
\* blocks and the emojis.
LEMMA CollectIs ==
  ASSUME NormOK, SignedOK
  PROVE  \E all \in Seq(AssetSet), own \in Seq(AssetSet), rest \in Seq(AssetSet) :
           /\ all = own \o rest
           /\ CollectAssets = [i \in DOMAIN all |-> Finished(all[i])]
           /\ ToSet(own) = UNION {ToSet(BlockAssets(norm[id])) : id \in ToSet(PageContent)}
           /\ ToSet(all) = ToSet(EmojiAssets)
                           \cup UNION {ToSet(BlockAssets(norm[id])) : id \in DOMAIN norm}
<1> DEFINE order == OrderedBlocks
           first == Unique(PageContent)
           own == Gather(first, AssetsOf)
<1>1. PICK later \in Seq(DOMAIN norm) : order = first \o later /\ ToSet(order) = DOMAIN norm
  BY OrderFacts
<1>2. first \in Seq(DOMAIN norm) /\ ToSet(first) = ToSet(PageContent)
  BY ContentFacts, UniqueFacts
<1> DEFINE others == Gather(later, AssetsOf)
           rest == others \o EmojiAssets
           all == own \o rest
<1> HIDE DEF first, order
<1>3. order \in Seq(DOMAIN norm)
  BY <1>1, <1>2, ConcatProperties
<1>4. /\ own \in Seq(AssetSet) /\ others \in Seq(AssetSet) /\ EmojiAssets \in Seq(AssetSet)
      /\ Gather(order, AssetsOf) \in Seq(AssetSet)
  BY <1>1, <1>2, <1>3, GatherMembers, EmojiAssetsFacts
<1>5. Gather(order, AssetsOf) = own \o others
  BY <1>1, <1>2, AssetsOfType, GatherConcat
<1>6. [i \in DOMAIN order |-> BlockAssets(norm[order[i]])] = [i \in DOMAIN order |-> AssetsOf[order[i]]]
  <2>1. \A i \in DOMAIN order : order[i] \in DOMAIN norm
    BY <1>3, LenProperties, ElementOfSeq
  <2>2. QED
    BY <2>1 DEF AssetsOf
<1> DEFINE gathered == Gather(order, AssetsOf) \o EmojiAssets
<1>7. CollectAssets = [i \in DOMAIN gathered |-> Finished(gathered[i])]
  <2>1. FlattenSeq([i \in DOMAIN order |-> BlockAssets(norm[order[i]])]) = Gather(order, AssetsOf)
    BY <1>6 DEF Gather
  <2>2. QED
    BY <2>1 DEF CollectAssets, order
<1>8. gathered = all
  <2> HIDE DEF own, others
  <2>1. (own \o others) \o EmojiAssets = own \o (others \o EmojiAssets)
    BY <1>4, JoinAnyOrder
  <2>2. QED
    BY <1>5, <2>1
<1>9. rest \in Seq(AssetSet) /\ all \in Seq(AssetSet)
  BY <1>4, JoinAnyOrder
<1>10. ToSet(own) = UNION {ToSet(BlockAssets(norm[id])) : id \in ToSet(PageContent)}
  BY <1>2, GatherMembers
<1>11. ToSet(all) = ToSet(EmojiAssets) \cup UNION {ToSet(BlockAssets(norm[id])) : id \in DOMAIN norm}
  <2>1. ToSet(gathered) = ToSet(EmojiAssets) \cup ToSet(Gather(order, AssetsOf))
    BY <1>4, ToSetConcat
  <2>2. ToSet(Gather(order, AssetsOf)) = UNION {ToSet(BlockAssets(norm[id])) : id \in DOMAIN norm}
    BY <1>1, <1>3, GatherMembers
  <2> HIDE DEF gathered, all
  <2>3. QED
    BY <1>8, <2>1, <2>2
<1> HIDE DEF own, all, rest, gathered
<1>12. all = own \o rest
  BY DEF all
<1>13. QED
  BY <1>4, <1>7, <1>8, <1>9, <1>10, <1>11, <1>12

--------------------------------------------------------------------------------
\* The cut.

\* What a file is known by among the assets.
Kept(a) == <<a.block, a.role, a.source>>
AsKept(a) == <<a.block, a.role, Source(a.source)>>

\* The last fallbacks change the URL only.
LEMMA FinishedFacts ==
  ASSUME NEW a \in AssetSet
  PROVE  /\ Kept(Finished(a)) = AsKept(a)
         /\ Finished(a).block = a.block /\ Finished(a).role = a.role
         /\ Finished(a).source = Source(a.source)
         /\ Finished(a).url.is = "answer" => Finished(a).url = a.url
<1> DEFINE own == IF a.url # NoURL THEN a.url
                  ELSE IF IsAttachment(a.source) THEN NoURL ELSE File(a.source)
           url == IF own = NoURL /\ a.block \in DOMAIN norm THEN Proxy(a.block, a.source) ELSE own
<1>1. Finished(a) = [a EXCEPT !.source = Source(a.source), !.url = url]
  BY DEF Finished
<1>2. /\ NoURL.is # "answer" /\ File(a.source).is # "answer"
      /\ Proxy(a.block, a.source).is # "answer"
  BY DEF NoURL, File, Proxy
<1>3. url.is = "answer" => url = a.url
  BY <1>2
<1> HIDE DEF url
<1>4. /\ Finished(a).block = a.block /\ Finished(a).role = a.role
      /\ Finished(a).source = Source(a.source) /\ Finished(a).url = url
  BY <1>1 DEF AssetSet
<1>5. QED
  BY <1>3, <1>4 DEF Kept, AsKept

\* Every file of a block is among the block's assets.
LEMMA FilesAreCollected ==
  ASSUME NormOK, SignedOK, NEW id \in DOMAIN norm
  PROVE  FilesOf(id) \subseteq {AsKept(a) : a \in ToSet(BlockAssets(norm[id]))}
<1> DEFINE b == norm[id]
           listing == {AsKept(a) : a \in ToSet(BlockAssets(b))}
           places == {p \in ToSet(Places(b.type)) : Hosted(b.files[p]) # None}
           texts == {u \in ToSet(b.texts) : Hosted(u) # None}
<1>1. b \in Records /\ b.id = id
  BY DEF NormOK
<1>2. FilesOf(id) = {<<id, p, Source(b.files[p])>> : p \in places}
                    \cup {<<id, "text", Source(t)>> : t \in texts}
  BY DEF FilesOf
<1> HIDE DEF b
<1>3. ASSUME NEW p \in places
      PROVE  <<id, p, Source(b.files[p])>> \in listing
  <2>1. p \in {"cover", "icon", "main"}
    BY PlaceNames
  <2>2. b.files[p] \in Texts
    BY <1>1, <2>1, RecordFacts
  <2>3. Source(Hosted(b.files[p])) = Source(b.files[p])
    BY <2>2, HostedFacts
  <2>4. AtPlace(b, p) \in ToSet(BlockAssets(b))
    BY <1>1, PlaceAssetsFacts, BlockAssetsFacts
  <2>5. AsKept(AtPlace(b, p)) = <<id, p, Source(b.files[p])>>
    BY <1>1, <2>3 DEF AsKept, AtPlace, Asset
  <2>6. QED
    BY <2>4, <2>5
<1>4. ASSUME NEW t \in texts
      PROVE  <<id, "text", Source(t)>> \in listing
  <2>1. t \in Texts
    <3>1. \A i \in DOMAIN b.texts : b.texts[i] \in Texts
      BY <1>1, RecordFacts, LenProperties, ElementOfSeq
    <3>2. QED
      BY <3>1 DEF ToSet
  <2>2. Source(Hosted(t)) = Source(t)
    BY <2>1, HostedFacts
  <2>3. InText(b, Hosted(t)) \in ToSet(BlockAssets(b))
    BY <1>1, TextAssetsFacts, BlockAssetsFacts
  <2>4. AsKept(InText(b, Hosted(t))) = <<id, "text", Source(t)>>
    BY <1>1, <2>2 DEF AsKept, InText, Asset
  <2>5. QED
    BY <2>3, <2>4
<1> HIDE DEF listing, places, texts
<1>5. FilesOf(id) \subseteq listing
  BY <1>2, <1>3, <1>4
<1>6. QED
  BY <1>5 DEF listing, b

\* The assets of a block are the block's.
LEMMA AssetsAreOwn ==
  ASSUME NormOK, SignedOK, NEW id \in DOMAIN norm
  PROVE  \A a \in ToSet(BlockAssets(norm[id])) :
           /\ a.block = id /\ a \in AssetSet
           /\ \/ \E p \in ToSet(Places(norm[id].type)) : a = AtPlace(norm[id], p)
              \/ \E h \in Texts : a = InText(norm[id], h)
<1> DEFINE b == norm[id]
<1>1. b \in Records /\ b.id = id
  BY DEF NormOK
<1> HIDE DEF b
<1>2. \A i \in DOMAIN b.texts : b.texts[i] \in Texts
  BY <1>1, RecordFacts, LenProperties, ElementOfSeq
<1>3. {Hosted(t) : t \in ToSet(b.texts)} \subseteq Texts
  BY <1>2, HostedFacts DEF ToSet
<1>4. \A p : AtPlace(b, p).block = id
  BY <1>1 DEF AtPlace, Asset
<1>5. \A h : InText(b, h).block = id
  BY <1>1 DEF InText, Asset
<1>6. \A a \in ToSet(BlockAssets(b)) :
        \/ \E p \in ToSet(Places(b.type)) : a = AtPlace(b, p)
        \/ \E h \in Texts : a = InText(b, h)
  BY <1>1, <1>3, PlaceAssetsFacts, TextAssetsFacts, BlockAssetsFacts
<1>7. \A a \in ToSet(BlockAssets(b)) : a \in AssetSet
  <2>1. BlockAssets(b) \in Seq(AssetSet)
    BY <1>1, BlockAssetsFacts
  <2>2. \A i \in DOMAIN BlockAssets(b) : BlockAssets(b)[i] \in AssetSet
    BY <2>1, LenProperties, ElementOfSeq
  <2>3. QED
    BY <2>2 DEF ToSet
<1>8. QED
  BY <1>4, <1>5, <1>6, <1>7 DEF b

\* The assets of the snapshot are what was collected, up to the limit.
Collected ==
  /\ count = Len(CollectAssets)
  /\ assets = SubSeq(CollectAssets, 1, IF count < AssetLimit THEN count ELSE AssetLimit)
  /\ cut = (count > Len(assets))

\* The assets of the snapshot, one by one.
LEMMA CollectedFacts ==
  ASSUME NormOK, SignedOK, Collected
  PROVE  \E all \in Seq(AssetSet), own \in Seq(AssetSet), rest \in Seq(AssetSet) :
           /\ all = own \o rest
           /\ ToSet(own) = UNION {ToSet(BlockAssets(norm[id])) : id \in ToSet(PageContent)}
           /\ ToSet(all) = ToSet(EmojiAssets)
                           \cup UNION {ToSet(BlockAssets(norm[id])) : id \in DOMAIN norm}
           /\ Len(assets) \in Nat /\ DOMAIN assets = 1..Len(assets) /\ Len(assets) <= Len(all)
           /\ \A i \in 1..Len(assets) : assets[i] = Finished(all[i])
           /\ ~cut => Len(assets) = Len(all)
<1>1. PICK all \in Seq(AssetSet), own \in Seq(AssetSet), rest \in Seq(AssetSet) :
           /\ all = own \o rest
           /\ CollectAssets = [i \in DOMAIN all |-> Finished(all[i])]
           /\ ToSet(own) = UNION {ToSet(BlockAssets(norm[id])) : id \in ToSet(PageContent)}
           /\ ToSet(all) = ToSet(EmojiAssets)
                           \cup UNION {ToSet(BlockAssets(norm[id])) : id \in DOMAIN norm}
  BY CollectIs
<1> DEFINE made == CollectAssets
           S == {Finished(a) : a \in AssetSet}
           m == IF count < AssetLimit THEN count ELSE AssetLimit
<1>2. Len(all) \in Nat /\ DOMAIN all = 1..Len(all) /\ \A i \in 1..Len(all) : all[i] \in AssetSet
  BY LenProperties, ElementOfSeq
<1>3. made \in Seq(S) /\ Len(made) = Len(all) /\ \A i \in 1..Len(all) : made[i] = Finished(all[i])
  <2>1. made = [i \in 1..Len(all) |-> Finished(all[i])]
    BY <1>1, <1>2
  <2> HIDE DEF made
  <2>2. \A i \in 1..Len(all) : Finished(all[i]) \in S
    BY <1>2
  <2>3. made \in [1..Len(all) -> S]
    BY <2>1, <2>2
  <2> HIDE DEF S
  <2>4. QED
    BY <1>2, <2>1, <2>3
<1>4. count = Len(all) /\ m \in Nat /\ m <= Len(all)
  BY <1>2, <1>3, AssetsAssumption DEF Collected
<1>5. assets = SubSeq(made, 1, m) /\ cut = (count > Len(assets))
  BY DEF Collected
<1> HIDE DEF made, S, m
<1>6. Len(assets) = m /\ DOMAIN assets = 1..m /\ \A i \in 1..m : assets[i] = made[i]
  <2>1. Len(assets) = m /\ \A i \in 1..m : assets[i] = made[i]
    BY <1>2, <1>3, <1>4, <1>5
  <2>2. assets \in Seq(S)
    BY <1>2, <1>3, <1>4, <1>5
  <2>3. QED
    BY <2>1, <2>2, LenProperties
<1>7. \A i \in 1..Len(assets) : assets[i] = Finished(all[i])
  BY <1>2, <1>3, <1>4, <1>6
<1>8. ~cut => Len(assets) = Len(all)
  <2>1. ~(count > Len(assets)) => Len(assets) = Len(all)
    <3>1. Len(assets) \in Nat /\ Len(assets) <= Len(all) /\ count = Len(all) /\ Len(all) \in Nat
      BY <1>2, <1>4, <1>6
    <3>2. QED
      BY <3>1
  <2>2. QED
    BY <1>5, <2>1, Zenon
<1>9. QED
  BY <1>1, <1>4, <1>6, <1>7, <1>8

\* The content of the page survives the cut.
LEMMA SurvivesTheCut ==
  ASSUME NormOK, SignedOK, Collected
  PROVE  ContentSurvivesTheCut
<1> DEFINE listing == {<<assets[i].block, assets[i].role, assets[i].source>> : i \in DOMAIN assets}
           content == UNION {FilesOf(id) : id \in ToSet(PageContent)}
           others == UNION {FilesOf(id) : id \in DOMAIN norm}
<1>1. PICK all \in Seq(AssetSet), own \in Seq(AssetSet), rest \in Seq(AssetSet) :
           /\ all = own \o rest
           /\ ToSet(own) = UNION {ToSet(BlockAssets(norm[id])) : id \in ToSet(PageContent)}
           /\ ToSet(all) = ToSet(EmojiAssets)
                           \cup UNION {ToSet(BlockAssets(norm[id])) : id \in DOMAIN norm}
           /\ Len(assets) \in Nat /\ DOMAIN assets = 1..Len(assets) /\ Len(assets) <= Len(all)
           /\ \A i \in 1..Len(assets) : assets[i] = Finished(all[i])
           /\ ~cut => Len(assets) = Len(all)
  BY CollectedFacts
<1>2. /\ Len(all) \in Nat /\ DOMAIN all = 1..Len(all) /\ \A i \in 1..Len(all) : all[i] \in AssetSet
      /\ Len(own) \in Nat /\ DOMAIN own = 1..Len(own)
      /\ Len(own) <= Len(all) /\ \A i \in 1..Len(own) : all[i] = own[i]
  <2>1. /\ Len(all) \in Nat /\ DOMAIN all = 1..Len(all) /\ \A i \in 1..Len(all) : all[i] \in AssetSet
        /\ Len(own) \in Nat /\ DOMAIN own = 1..Len(own) /\ Len(rest) \in Nat
    BY LenProperties, ElementOfSeq
  <2>2. all = own \o rest
    BY <1>1
  <2>3. Len(all) = Len(own) + Len(rest) /\ \A i \in 1..Len(own) : all[i] = own[i]
    BY <2>1, <2>2
  <2>4. QED
    BY <2>1, <2>3
<1>a. /\ Len(assets) \in Nat /\ DOMAIN assets = 1..Len(assets) /\ Len(assets) <= Len(all)
      /\ \A i \in 1..Len(assets) : assets[i] = Finished(all[i])
  BY <1>1, Zenon
<1>b. \A i \in 1..Len(assets) : i \in 1..Len(all)
  BY <1>2, <1>a
<1>3. \A i \in 1..Len(assets) : AsKept(all[i]) \in listing /\ assets[i].block = all[i].block
  <2> SUFFICES ASSUME NEW i \in 1..Len(assets)
               PROVE  AsKept(all[i]) \in listing /\ assets[i].block = all[i].block
    OBVIOUS
  <2>1. i \in 1..Len(all) /\ i \in DOMAIN assets
    BY <1>a, <1>b
  <2>2. Kept(assets[i]) = AsKept(all[i]) /\ assets[i].block = all[i].block
    BY <1>a, <1>2, <2>1, FinishedFacts
  <2>3. QED
    BY <2>1, <2>2 DEF Kept
<1>4. ToSet(PageContent) \subseteq DOMAIN norm
  <2>1. \A i \in DOMAIN PageContent : PageContent[i] \in DOMAIN norm
    BY ContentFacts, LenProperties, ElementOfSeq
  <2>2. QED
    BY <2>1 DEF ToSet
<1> HIDE DEF listing
<1>5. ASSUME Len(assets) = Len(all)
      PROVE  others \subseteq listing
  <2>1. \A a \in ToSet(all) : AsKept(a) \in listing
    BY <1>a, <1>2, <1>3, <1>5 DEF ToSet
  <2>2. ASSUME NEW id \in DOMAIN norm
        PROVE  FilesOf(id) \subseteq listing
    <3>1. ToSet(BlockAssets(norm[id])) \subseteq ToSet(all)
      BY <1>1
    <3>2. QED
      BY <2>1, <3>1, FilesAreCollected
  <2>3. QED
    BY <2>2
<1>c. ~cut => others \subseteq listing
  BY <1>1, <1>5, Zenon
<1>6. CASE Len(own) <= Len(assets)
  <2>1. \A i \in 1..Len(own) : i \in 1..Len(assets)
    BY <1>2, <1>a, <1>6
  <2>5. \A a \in ToSet(own) : AsKept(a) \in listing
    BY <1>2, <1>3, <2>1 DEF ToSet
  <2>2. ASSUME NEW id \in ToSet(PageContent)
        PROVE  FilesOf(id) \subseteq listing
    <3>1. ToSet(BlockAssets(norm[id])) \subseteq ToSet(own)
      BY <1>1
    <3>2. QED
      BY <1>4, <2>5, <3>1, FilesAreCollected
  <2>3. content \subseteq listing
    BY <2>2
  <2>4. QED
    BY <1>c, <2>3, Zenon DEF ContentSurvivesTheCut, listing
<1>7. CASE Len(assets) < Len(own)
  <2>1. ASSUME NEW i \in DOMAIN assets
        PROVE  assets[i].block \in ToSet(PageContent)
    <3>1. i \in 1..Len(own) /\ i \in 1..Len(assets)
      BY <1>a, <1>2, <1>7
    <3>2. all[i] \in ToSet(own)
      BY <1>2, <3>1 DEF ToSet
    <3>3. PICK id \in ToSet(PageContent) : all[i] \in ToSet(BlockAssets(norm[id]))
      BY <1>1, <3>2
    <3>4. all[i].block = id
      BY <1>4, <3>3, AssetsAreOwn
    <3>5. QED
      BY <1>3, <3>1, <3>4
  <2>2. QED
    BY <1>c, <2>1, Zenon DEF ContentSurvivesTheCut, listing
<1>8. QED
  BY <1>a, <1>2, <1>6, <1>7

--------------------------------------------------------------------------------
\* The requests.

KeySet == [block : 0..N, role : {"block", "cover", "icon", "main", "file"}, file : Texts]
WantSet == [block : 0..N, source : Texts, keys : SUBSET KeySet]

\* The URL answers a request that was made under the key: for a text of a record.
Requested(k, url) ==
  \E key \in DOMAIN raw, text \in Texts :
    /\ ~raw[key].null /\ raw[key].id # 0 /\ SigningSource(text) # None
    /\ url = Answer(raw[key].id, SigningSource(text))
    /\ \/ k = KeyOfFile(SigningSource(text)) \/ k = KeyOfFile(text)
       \/ \E p \in ToSet(Places(raw[key].type)) :
            text = raw[key].files[p] /\ k \in BlockKeys(raw[key], p)

\* A raw record that is not null is a record.
LEMMA RawFacts ==
  ASSUME raw \in RawTables
  PROVE  /\ DOMAIN raw \subseteq Ids
         /\ \A key \in DOMAIN raw : ~raw[key].null => raw[key] \in Records
<1>1. /\ DOMAIN raw \subseteq Ids
      /\ \A key \in DOMAIN raw : raw[key] = [null |-> TRUE] \/ raw[key] \in Records
  BY AssetsAssumption
<1>2. [null |-> TRUE].null = TRUE
  OBVIOUS
<1>3. QED
  BY <1>1, <1>2

\* The keys of a place.
LEMMA BlockKeysFacts ==
  ASSUME NEW r \in Records, NEW p \in {"cover", "icon", "main"}
  PROVE  /\ BlockKeys(r, p) \subseteq KeySet
         /\ \A k \in BlockKeys(r, p) : k.block = r.id /\ k.file = None /\ k.role # "file"
         /\ \A id : KeyOfBlock(id) \in BlockKeys(r, p) => p = "main" \/ (r.type = "page" /\ p = "cover")
         /\ \A id, role : KeyOfRole(id, role) \in BlockKeys(r, p) /\ role # "block" => p = role
<1>1. r.id \in 0..N /\ None \in Texts
  <2>1. None \in Texts
    BY DEF None, Texts
  <2>2. QED
    BY <2>1, RecordFacts
<1>2. /\ KeyOfBlock(r.id) \in KeySet /\ KeyOfRole(r.id, p) \in KeySet
  BY <1>1 DEF KeyOfBlock, KeyOfRole, KeySet
<1>3. BlockKeys(r, p) \subseteq {KeyOfBlock(r.id), KeyOfRole(r.id, p)}
  BY DEF BlockKeys
<1>4. /\ \A id : KeyOfBlock(id).block = id /\ KeyOfBlock(id).role = "block" /\ KeyOfBlock(id).file = None
      /\ \A id, role : /\ KeyOfRole(id, role).block = id /\ KeyOfRole(id, role).role = role
                       /\ KeyOfRole(id, role).file = None
  BY DEF KeyOfBlock, KeyOfRole
<1>5. KeyOfBlock(r.id) \in BlockKeys(r, p) => p = "main" \/ (r.type = "page" /\ p = "cover")
  <2>1. p # "block"
    OBVIOUS
  <2>2. KeyOfBlock(r.id) # KeyOfRole(r.id, p)
    BY <1>4, <2>1
  <2>3. QED
    BY <2>2 DEF BlockKeys
<1>6. QED
  BY <1>2, <1>3, <1>4, <1>5

\* What is wanted.
LEMMA WantFacts ==
  ASSUME NEW r \in Records, NEW text \in Texts, NEW ks \in SUBSET KeySet
  PROVE  /\ Want(r, text, ks) \in WantSet
         /\ Want(r, text, ks).block = r.id /\ Want(r, text, ks).source = SigningSource(text)
         /\ Want(r, text, ks).keys = ks \cup {KeyOfFile(SigningSource(text)), KeyOfFile(text)}
<1>1. SigningSource(text) \in Texts /\ r.id \in 0..N
  <2>1. None \in Texts
    BY DEF None, Texts
  <2>2. QED
    BY <2>1, SourceFacts, RecordFacts DEF SigningSource
<1>2. \A t \in Texts : KeyOfFile(t) \in KeySet
  BY AssetsAssumption DEF KeyOfFile, KeySet
<1>3. QED
  BY <1>1, <1>2 DEF Want, WantSet

\* What a record wants: the texts of its places under the keys of the place, its
\* other texts under themselves.
LEMMA WantsFacts ==
  ASSUME NEW r \in Records
  PROVE  /\ Wants(r) \in Seq(WantSet)
         /\ \A w \in ToSet(Wants(r)) :
              \/ \E p \in ToSet(Places(r.type)) :
                   r.files[p] \in Texts /\ w = Want(r, r.files[p], BlockKeys(r, p))
              \/ \E t \in Texts : w = Want(r, t, {})
<1> DEFINE P == Places(r.type)
           ofPlaces == [i \in DOMAIN P |->
                          LET place == P[i] IN Want(r, r.files[place], BlockKeys(r, place))]
           ofTexts == [i \in DOMAIN r.texts |-> Want(r, r.texts[i], {})]
<1>1. Wants(r) = ofPlaces \o ofTexts
  BY DEF Wants
<1>2. /\ Len(P) \in Nat /\ DOMAIN P = 1..Len(P)
      /\ \A i \in DOMAIN P : P[i] \in {"cover", "icon", "main"}
  BY PlacesFacts, LenProperties, ElementOfSeq
<1>3. /\ Len(r.texts) \in Nat /\ DOMAIN r.texts = 1..Len(r.texts)
      /\ \A i \in DOMAIN r.texts : r.texts[i] \in Texts
  BY RecordFacts, LenProperties, ElementOfSeq
<1> HIDE DEF P
<1>4. \A p \in {"cover", "icon", "main"} :
        r.files[p] \in Texts /\ Want(r, r.files[p], BlockKeys(r, p)) \in WantSet
  BY RecordFacts, BlockKeysFacts, WantFacts
<1>5. \A t \in Texts : Want(r, t, {}) \in WantSet
  BY WantFacts
<1>6. ofPlaces \in Seq(WantSet)
  BY <1>2, <1>4
<1>7. ofTexts \in Seq(WantSet)
  BY <1>3, <1>5
<1>8. \A w \in ToSet(ofPlaces) : \E p \in ToSet(P) :
        r.files[p] \in Texts /\ w = Want(r, r.files[p], BlockKeys(r, p))
  <2> SUFFICES ASSUME NEW i \in DOMAIN P
               PROVE  \E p \in ToSet(P) : /\ r.files[p] \in Texts
                                          /\ ofPlaces[i] = Want(r, r.files[p], BlockKeys(r, p))
    BY DEF ToSet
  <2>1. P[i] \in ToSet(P) /\ r.files[P[i]] \in Texts
    BY <1>2, <1>4 DEF ToSet
  <2>2. ofPlaces[i] = Want(r, r.files[P[i]], BlockKeys(r, P[i]))
    OBVIOUS
  <2> HIDE DEF ofPlaces
  <2>3. QED
    BY <2>1, <2>2
<1>9. \A w \in ToSet(ofTexts) : \E t \in Texts : w = Want(r, t, {})
  BY <1>3 DEF ToSet
<1> HIDE DEF ofPlaces, ofTexts
<1>10. ToSet(ofPlaces \o ofTexts) = ToSet(ofPlaces) \cup ToSet(ofTexts)
  BY <1>6, <1>7, ToSetConcat
<1>11. ofPlaces \o ofTexts \in Seq(WantSet)
  BY <1>6, <1>7, ConcatProperties
<1>12. QED
  BY <1>1, <1>8, <1>9, <1>10, <1>11 DEF P

\* What is asked for, if it has a block and is signed.
LEMMA WantedFacts ==
  ASSUME raw \in RawTables
  PROVE  /\ Wanted \in Seq(WantSet)
         /\ \A w \in ToSet(Wanted) :
              /\ w.block # 0 /\ w.source # None
              /\ \E key \in DOMAIN raw : ~raw[key].null /\ w \in ToSet(Wants(raw[key]))
<1> DEFINE order == Ascending(DOMAIN raw)
           lists == [i \in DOMAIN order |-> IF raw[order[i]].null THEN <<>> ELSE Wants(raw[order[i]])]
           all == FlattenSeq(lists)
           fit == {i \in DOMAIN all : all[i].block # 0 /\ all[i].source # None}
<1>1. Wanted = Pick(all, fit)
  BY DEF Wanted, Select
<1>2. order \in Seq(DOMAIN raw)
  BY RawFacts, IdsFacts, AscendingGoesThrough
<1> HIDE DEF order
<1>3. Len(order) \in Nat /\ DOMAIN order = 1..Len(order) /\ \A i \in DOMAIN order : order[i] \in DOMAIN raw
  BY <1>2, LenProperties, ElementOfSeq
<1>4. \A key \in DOMAIN raw : ~raw[key].null => Wants(raw[key]) \in Seq(WantSet)
  BY RawFacts, WantsFacts
<1>5. lists \in Seq(Seq(WantSet))
  <2>1. \A i \in DOMAIN order : lists[i] \in Seq(WantSet)
    <3>1. <<>> \in Seq(WantSet)
      OBVIOUS
    <3>2. QED
      BY <1>3, <1>4, <3>1
  <2>2. lists = [i \in 1..Len(order) |-> lists[i]]
    BY <1>3
  <2>3. DOMAIN order = 1..Len(order) /\ Len(order) \in Nat
    BY <1>3
  <2> HIDE DEF lists
  <2>4. lists \in [1..Len(order) -> Seq(WantSet)]
    BY <2>1, <2>2, <2>3
  <2>5. QED
    BY <2>3, <2>4, SeqDef
<1>6. \A i \in DOMAIN lists : \A w \in ToSet(lists[i]) :
        \E key \in DOMAIN raw : ~raw[key].null /\ w \in ToSet(Wants(raw[key]))
  <2>1. ToSet(<<>>) = {}
    BY DEF ToSet
  <2>2. QED
    BY <1>3, <2>1
<1> HIDE DEF lists
<1>7. all \in Seq(WantSet) /\ ToSet(all) = UNION {ToSet(lists[i]) : i \in DOMAIN lists}
  BY <1>5, FlatType, FlatMembers
<1> HIDE DEF all
<1>8. Pick(all, fit) \in Seq(WantSet) /\ ToSet(Pick(all, fit)) = {all[i] : i \in fit \cap DOMAIN all}
  <2> HIDE DEF fit
  <2>1. QED
    BY <1>7, PickClimbs, PickMembers
<1>9. ASSUME NEW w \in ToSet(Pick(all, fit))
      PROVE  w \in ToSet(all) /\ w.block # 0 /\ w.source # None
  BY <1>8 DEF ToSet
<1>10. QED
  BY <1>1, <1>6, <1>7, <1>8, <1>9

\* Each request stands for the keys it is wanted under.
LEMMA TargetsFacts ==
  ASSUME raw \in RawTables
  PROVE  /\ IsFiniteSet(DOMAIN Targets) /\ DOMAIN Targets \in SUBSET Int
         /\ \A i \in DOMAIN Targets : \A k \in Targets[i].keys :
              Requested(k, Answer(Targets[i].block, Targets[i].source))
<1> DEFINE wanted == Wanted
           R == [block : 0..N, source : Texts]
           asking == [i \in DOMAIN wanted |-> RequestOf(wanted[i])]
           requests == Unique(asking)
           keysOf(i) == UNION {w.keys : w \in {v \in ToSet(wanted) : RequestOf(v) = requests[i]}}
<1>1. Targets = [i \in DOMAIN requests |->
                   [block |-> requests[i].block, source |-> requests[i].source, keys |-> keysOf(i)]]
  BY DEF Targets
<1>2. wanted \in Seq(WantSet)
  BY WantedFacts
<1>3. /\ Len(wanted) \in Nat /\ DOMAIN wanted = 1..Len(wanted)
      /\ \A i \in DOMAIN wanted : wanted[i] \in WantSet
  BY <1>2, LenProperties, ElementOfSeq
<1>4. asking \in Seq(R)
  <2> HIDE DEF wanted
  <2>1. \A w \in WantSet : RequestOf(w) \in R
    BY DEF RequestOf, WantSet
  <2> HIDE DEF R
  <2>2. QED
    BY <1>3, <2>1
<1>5. requests \in Seq(R)
  <2> HIDE DEF asking, R
  <2>1. QED
    BY <1>4, UniqueFacts
<1> HIDE DEF requests, R
<1>6. DOMAIN Targets = 1..Len(requests) /\ Len(requests) \in Nat
  BY <1>1, <1>5, LenProperties
<1>7. IsFiniteSet(DOMAIN Targets) /\ DOMAIN Targets \in SUBSET Int
  BY <1>6, FS_Interval
<1>8. ASSUME NEW i \in DOMAIN Targets, NEW k \in Targets[i].keys
      PROVE  Requested(k, Answer(Targets[i].block, Targets[i].source))
  <2>1. /\ Targets[i].block = requests[i].block /\ Targets[i].source = requests[i].source
        /\ Targets[i].keys = keysOf(i)
    BY <1>1, <1>6
  <2>2. PICK w \in ToSet(wanted) : RequestOf(w) = requests[i] /\ k \in w.keys
    BY <1>8, <2>1
  <2>3. Targets[i].block = w.block /\ Targets[i].source = w.source
    BY <2>1, <2>2 DEF RequestOf
  <2>4. PICK key \in DOMAIN raw : ~raw[key].null /\ w \in ToSet(Wants(raw[key]))
    BY WantedFacts
  <2>5. w.block # 0 /\ w.source # None
    BY WantedFacts
  <2> DEFINE r == raw[key]
  <2>6. r \in Records
    BY <2>4, RawFacts
  <2>7. CASE \E p \in ToSet(Places(r.type)) :
               r.files[p] \in Texts /\ w = Want(r, r.files[p], BlockKeys(r, p))
    <3>1. PICK p \in ToSet(Places(r.type)) :
             r.files[p] \in Texts /\ w = Want(r, r.files[p], BlockKeys(r, p))
      BY <2>7
    <3>2. p \in {"cover", "icon", "main"}
      BY PlaceNames
    <3> DEFINE text == r.files[p]
    <3> HIDE DEF r
    <3>3. /\ w.block = r.id /\ w.source = SigningSource(text)
          /\ w.keys = BlockKeys(r, p) \cup {KeyOfFile(SigningSource(text)), KeyOfFile(text)}
      BY <2>6, <3>1, <3>2, BlockKeysFacts, WantFacts
    <3>4. /\ r.id # 0 /\ SigningSource(text) # None
          /\ Answer(Targets[i].block, Targets[i].source) = Answer(r.id, SigningSource(text))
      BY <2>3, <2>5, <3>3
    <3>5. \/ k = KeyOfFile(SigningSource(text)) \/ k = KeyOfFile(text)
          \/ k \in BlockKeys(r, p)
      BY <2>2, <3>3
    <3>6. QED
      BY <2>4, <3>1, <3>4, <3>5 DEF Requested, r
  <2>8. CASE \E t \in Texts : w = Want(r, t, {})
    <3>1. PICK text \in Texts : w = Want(r, text, {})
      BY <2>8
    <3> HIDE DEF r
    <3>2. /\ w.block = r.id /\ w.source = SigningSource(text)
          /\ w.keys = {} \cup {KeyOfFile(SigningSource(text)), KeyOfFile(text)}
      BY <2>6, <3>1, WantFacts
    <3>3. /\ r.id # 0 /\ SigningSource(text) # None
          /\ Answer(Targets[i].block, Targets[i].source) = Answer(r.id, SigningSource(text))
      BY <2>3, <2>5, <3>2
    <3>4. k = KeyOfFile(SigningSource(text)) \/ k = KeyOfFile(text)
      BY <2>2, <3>2
    <3>5. QED
      BY <2>4, <3>3, <3>4 DEF Requested, r
  <2>9. QED
    BY <2>4, <2>6, <2>7, <2>8, WantsFacts
<1>9. QED
  BY <1>7, <1>8

--------------------------------------------------------------------------------
\* The steps.

\* The raw records of one identifier.
LEMMA IdOfFacts ==
  ASSUME raw \in RawTables, NEW key \in DOMAIN raw, ~raw[key].null
  PROVE  /\ IdOf(key) \in Ids
         /\ raw[key].id # 0 => IdOf(key) = Norm[raw[key].id]
<1>1. key \in Ids /\ raw[key].id \in 0..N
  BY RawFacts, RecordFacts
<1>2. raw[key].id # 0 => raw[key].id \in Ids
  BY <1>1, AssetsAssumption DEF Ids
<1>3. QED
  BY <1>1, <1>2, AssetsAssumption DEF IdOf

\* Of them one counts.
LEMMA CountedFacts ==
  ASSUME raw \in RawTables, NEW id, Spellings(id) # {}
  PROVE  Counted(id) \in Spellings(id)
<1>1. Spellings(id) \subseteq Ids
  BY RawFacts DEF Spellings
<1>2. IsFiniteSet(Spellings(id)) /\ Spellings(id) \in SUBSET Int
  BY <1>1, IdsFacts
<1>3. Max(Spellings(id)) \in Spellings(id)
  BY <1>2, Extremes
<1>4. Counted(id) = Max(Spellings(id))
  BY DEF Counted, Spellings
<1>5. QED
  BY <1>3, <1>4

\* The blocks are the records that count, under their identifiers.
LEMMA NormalFacts ==
  ASSUME raw \in RawTables, norm = Normal
  PROVE  /\ NormOK
         /\ \A id \in DOMAIN norm : /\ Counted(id) \in Spellings(id)
                                    /\ norm[id].type = raw[Counted(id)].type
                                    /\ norm[id].files = raw[Counted(id)].files
<1> DEFINE ids == {IdOf(key) : key \in {k \in DOMAIN raw : ~raw[k].null}}
           B == {i \in ids : raw[Counted(i)].type # "none"}
<1>1. norm = [id \in B |-> [raw[Counted(id)] EXCEPT !.id = id]]
  BY DEF Normal
<1>2. ids \subseteq Ids
  BY IdOfFacts
<1>3. \A id \in ids : Spellings(id) # {}
  BY DEF Spellings
<1>4. DOMAIN norm = B /\ B \subseteq ids
  BY <1>1
<1> HIDE DEF B, ids
<1>5. ASSUME NEW id \in DOMAIN norm
      PROVE  /\ norm[id] \in Records /\ norm[id].id = id /\ Counted(id) \in Spellings(id)
             /\ norm[id].type = raw[Counted(id)].type /\ norm[id].files = raw[Counted(id)].files
  <2> DEFINE r == raw[Counted(id)]
  <2>1. id \in Ids /\ id \in B
    BY <1>2, <1>4
  <2>2. Counted(id) \in Spellings(id)
    BY <1>3, <1>4, CountedFacts
  <2>3. r \in Records
    BY <2>2, RawFacts DEF Spellings
  <2>4. norm[id] = [r EXCEPT !.id = id]
    BY <1>1, <2>1
  <2>5. id \in 0..N
    BY <2>1, AssetsAssumption DEF Ids
  <2> HIDE DEF r
  <2>6. /\ norm[id] \in Records /\ norm[id].id = id
        /\ norm[id].type = r.type /\ norm[id].files = r.files
    BY <2>3, <2>4, <2>5 DEF Records
  <2>7. QED
    BY <2>2, <2>6 DEF r
<1>6. NormOK
  BY <1>2, <1>4, <1>5 DEF NormOK
<1>7. QED
  BY <1>5, <1>6

\* A URL that was asked for is one.
LEMMA RequestedFacts ==
  ASSUME raw \in RawTables, NEW k, NEW url, Requested(k, url)
  PROVE  url \in URLs /\ k \in KeySet
<1>1. PICK key \in DOMAIN raw, text \in Texts :
        /\ ~raw[key].null /\ SigningSource(text) # None
        /\ url = Answer(raw[key].id, SigningSource(text))
        /\ \/ k = KeyOfFile(SigningSource(text)) \/ k = KeyOfFile(text)
           \/ \E p \in ToSet(Places(raw[key].type)) :
                text = raw[key].files[p] /\ k \in BlockKeys(raw[key], p)
  BY DEF Requested
<1> DEFINE r == raw[key]
<1>2. r \in Records /\ r.id \in 0..N
  BY <1>1, RawFacts, RecordFacts
<1>3. SigningSource(text) \in Texts
  BY <1>1, SigningFacts, SourceFacts
<1>4. url \in URLs
  BY <1>1, <1>2, <1>3 DEF Answer, URLs
<1>5. \A t \in Texts : KeyOfFile(t) \in KeySet
  BY AssetsAssumption DEF KeyOfFile, KeySet
<1>6. \A p \in ToSet(Places(r.type)) : BlockKeys(r, p) \subseteq KeySet
  BY <1>2, PlaceNames, BlockKeysFacts
<1>7. QED
  BY <1>1, <1>3, <1>4, <1>5, <1>6

\* Before the map is normalised, and after.
SignedRaw == \A k \in DOMAIN signed : Requested(k, signed[k])
SignedNormal ==
  \A k \in DOMAIN signed : \E j \in KeySet : NormalKey(j) = k /\ Requested(j, signed[k])

Scrubbed ==
  stored = [texts |-> [id \in DOMAIN norm |-> {ForStorage(t) : t \in TextsOf(norm[id])}],
            assets |-> [i \in DOMAIN assets |->
                          [assets[i] EXCEPT !.source = ForStorage(@), !.url = NoURL]]]

\* The files at each stage.
FilesInv ==
  /\ stage \in {"sign", "normalize", "collect", "store", "done"}
  /\ raw \in RawTables
  /\ stage \in {"sign", "normalize"} => SignedRaw
  /\ stage \in {"collect", "store", "done"} => norm = Normal /\ SignedNormal
  /\ stage \in {"sign", "normalize", "collect"} => assets = <<>>
  /\ stage \in {"store", "done"} => Collected
  /\ stage = "done" => Scrubbed

LEMMA FilesStart == FilesInit => FilesInv
  BY DEF FilesInit, FilesInv, SignedRaw, Empty

\* Signing assigns each URL to keys of the request that it answers.
LEMMA SignedByRequest ==
  ASSUME FilesInv, SignFiles
  PROVE  \A k \in DOMAIN signed' : Requested(k, signed'[k])
<1>1. raw \in RawTables
  BY DEF FilesInv
<1>2. PICK some \in SUBSET DOMAIN Targets :
        signed' = [k \in UNION {Targets[i].keys : i \in some} |->
                     LET i == Max({j \in some : k \in Targets[j].keys})
                     IN  Answer(Targets[i].block, Targets[i].source)]
  BY DEF SignFiles
<1>3. /\ IsFiniteSet(DOMAIN Targets) /\ DOMAIN Targets \in SUBSET Int
      /\ \A i \in DOMAIN Targets : \A k \in Targets[i].keys :
           Requested(k, Answer(Targets[i].block, Targets[i].source))
  BY <1>1, TargetsFacts
<1>4. ASSUME NEW k \in DOMAIN signed'
      PROVE  Requested(k, signed'[k])
  <2> DEFINE S == {j \in some : k \in Targets[j].keys}
             i == Max(S)
  <2>1. k \in UNION {Targets[j].keys : j \in some}
    BY <1>2
  <2>2. S # {} /\ S \subseteq DOMAIN Targets
    BY <2>1
  <2>3. signed'[k] = Answer(Targets[i].block, Targets[i].source)
    BY <1>2, <2>1
  <2>4. IsFiniteSet(S) /\ S \in SUBSET Int
    <3> HIDE DEF S
    <3>1. QED
      BY <1>3, <2>2, FS_Subset
  <2>5. i \in S
    <3> HIDE DEF S
    <3>1. QED
      BY <2>2, <2>4, Extremes
  <2>6. i \in DOMAIN Targets /\ k \in Targets[i].keys
    BY <2>5
  <2> HIDE DEF i
  <2>7. QED
    BY <1>3, <2>3, <2>6
<1>5. QED
  BY <1>4

\* Each normal key leads to the URL of a key with this normal form.
LEMMA NormalSignedFacts ==
  ASSUME raw \in RawTables, SignedRaw
  PROVE  \A k \in DOMAIN NormalSigned :
           \E j \in KeySet : NormalKey(j) = k /\ Requested(j, NormalSigned[k])
<1>1. \A j \in DOMAIN signed : j \in KeySet
  BY RequestedFacts DEF SignedRaw
<1>2. SUFFICES ASSUME NEW k \in DOMAIN NormalSigned
               PROVE  \E j \in KeySet : NormalKey(j) = k /\ Requested(j, NormalSigned[k])
  OBVIOUS
<1> DEFINE Best(j) == /\ NormalKey(j) = k
                      /\ \A i \in DOMAIN signed : NormalKey(i) = k => i.block <= j.block
           J == {j \in DOMAIN signed : NormalKey(j) = k}
           S == {j.block : j \in J}
<1>3. J # {} /\ NormalSigned[k] = signed[CHOOSE j \in DOMAIN signed : Best(j)]
  BY DEF NormalSigned
<1>4. S \in SUBSET Int /\ S # {} /\ IsFiniteSet(S)
  <2>1. S \subseteq 0..N
    BY <1>1 DEF KeySet
  <2>2. S # {}
    BY <1>3
  <2>3. N \in Nat /\ 0..N \in SUBSET Int
    BY AssetsAssumption
  <2>4. IsFiniteSet(0..N)
    BY <2>3, FS_Interval
  <2> HIDE DEF S
  <2>5. IsFiniteSet(S)
    BY <2>1, <2>4, FS_Subset
  <2>6. QED
    BY <2>1, <2>2, <2>3, <2>5
<1>5. Max(S) \in S /\ \A x \in S : Max(S) >= x
  <2> HIDE DEF S
  <2>1. QED
    BY <1>4, Extremes
<1>6. PICK best \in J : best.block = Max(S)
  BY <1>5
<1>7. Best(best) /\ best \in DOMAIN signed
  <2>1. \A x \in S : x <= best.block
    BY <1>4, <1>5, <1>6
  <2>2. \A i \in DOMAIN signed : NormalKey(i) = k => i.block \in S
    OBVIOUS
  <2> HIDE DEF S
  <2>3. QED
    BY <1>6, <2>1, <2>2
<1> DEFINE j == CHOOSE j \in DOMAIN signed : Best(j)
<1>8. j \in DOMAIN signed /\ Best(j)
  <2> HIDE DEF Best
  <2>1. QED
    BY <1>7
<1>9. NormalSigned[k] = signed[j]
  BY <1>3
<1> HIDE DEF j
<1>10. QED
  BY <1>1, <1>8, <1>9 DEF SignedRaw

\* What is gathered depends on the blocks and the signed URLs only.
LEMMA CollectStays ==
  ASSUME norm' = norm, signed' = signed
  PROVE  CollectAssets' = CollectAssets
<1>1. PageContent' = PageContent
  BY DEF PageContent
<1>2. QueryRows' = QueryRows
  BY <1>1 DEF QueryRows
<1>3. Others' = Others
  BY <1>2 DEF Others, Select
<1>4. OrderedBlocks' = OrderedBlocks
  BY <1>1, <1>3 DEF OrderedBlocks
<1>5. \A k : URLOf(k)' = URLOf(k)
  BY DEF URLOf
<1>6. \A b, p : PlaceURL(b, p)' = PlaceURL(b, p)
  BY <1>5 DEF PlaceURL
<1>7. \A b : PlaceAssets(b)' = PlaceAssets(b)
  BY <1>6 DEF PlaceAssets, Select
<1>8. \A b : TextAssets(b)' = TextAssets(b)
  BY <1>5 DEF TextAssets, Select
<1>9. \A b : BlockAssets(b)' = BlockAssets(b)
  BY <1>7, <1>8 DEF BlockAssets
<1>10. EmojiAssets' = EmojiAssets
  BY <1>5 DEF EmojiAssets, Select
<1>11. \A a : Finished(a)' = Finished(a)
  BY DEF Finished
<1>12. QED
  BY <1>4, <1>9, <1>10, <1>11 DEF CollectAssets

\* What is asked for and what is normalised depend on the raw records only.
LEMMA RawStays ==
  ASSUME raw' = raw
  PROVE  /\ Normal' = Normal
         /\ \A k, url : Requested(k, url)' <=> Requested(k, url)
<1>1. \A key : IdOf(key)' = IdOf(key)
  BY DEF IdOf
<1>2. \A id : Counted(id)' = Counted(id)
  BY <1>1 DEF Counted
<1>3. Normal' = Normal
  BY <1>1, <1>2 DEF Normal
<1>4. \A k, url : Requested(k, url)' <=> Requested(k, url)
  BY DEF Requested
<1>5. QED
  BY <1>3, <1>4

\* What is collected stays.
LEMMA CollectedStays ==
  ASSUME UNCHANGED <<signed, norm, assets, count, cut>>
  PROVE  (Collected <=> Collected') /\ (Scrubbed /\ stored' = stored => Scrubbed')
<1>1. CollectAssets' = CollectAssets
  BY CollectStays
<1>2. /\ assets' = assets /\ count' = count /\ cut' = cut /\ norm' = norm
  OBVIOUS
<1>3. Collected <=> Collected'
  BY <1>1, <1>2, Zenon DEF Collected
<1>4. Scrubbed /\ stored' = stored => Scrubbed'
  <2>1. \A b : TextsOf(b)' = TextsOf(b)
    BY DEF TextsOf
  <2>2. QED
    BY <1>2, <2>1 DEF Scrubbed
<1>5. QED
  BY <1>3, <1>4

\* Every step keeps the files in order.
LEMMA FilesStep == FilesInv /\ [FilesNext]_filesVars => FilesInv'
<1> SUFFICES ASSUME FilesInv, [FilesNext]_filesVars
             PROVE  FilesInv'
  OBVIOUS
<1>1. CASE SignFails
  <2>1. stage = "sign" /\ stage' = "normalize" /\ raw' = raw /\ signed' = signed /\ assets' = assets
    BY <1>1 DEF SignFails
  <2>2. SignedRaw'
    BY <2>1, RawStays DEF FilesInv, SignedRaw
  <2>3. QED
    BY <2>1, <2>2 DEF FilesInv
<1>2. CASE SignFiles
  <2>1. stage = "sign" /\ stage' = "normalize" /\ raw' = raw /\ assets' = assets
    BY <1>2 DEF SignFiles
  <2>2. SignedRaw'
    <3>1. \A k \in DOMAIN signed' : Requested(k, signed'[k])
      BY <1>2, SignedByRequest
    <3>2. QED
      BY <2>1, <3>1 DEF SignedRaw, Requested
  <2>3. QED
    BY <2>1, <2>2 DEF FilesInv
<1>3. CASE Normalize
  <2>1. /\ stage = "normalize" /\ stage' = "collect" /\ raw' = raw /\ assets' = assets
        /\ norm' = Normal /\ signed' = NormalSigned
    BY <1>3 DEF Normalize
  <2>2. norm' = Normal'
    BY <2>1, RawStays
  <2>3. SignedNormal'
    <3>1. \A k \in DOMAIN signed' : \E j \in KeySet : NormalKey(j) = k /\ Requested(j, signed'[k])
      BY <2>1, NormalSignedFacts DEF FilesInv
    <3>2. QED
      BY <2>1, <3>1 DEF SignedNormal, Requested
  <2>4. QED
    BY <2>1, <2>2, <2>3 DEF FilesInv
<1>4. CASE Collect
  <2>1. /\ stage = "collect" /\ stage' = "store" /\ UNCHANGED <<raw, signed, norm>>
    BY <1>4 DEF Collect
  <2>2. /\ norm' = Normal' /\ SignedNormal'
    BY <2>1, RawStays DEF FilesInv, SignedNormal
  <2>3. Collected'
    <3>1. CollectAssets' = CollectAssets
      BY <2>1, CollectStays
    <3>2. QED
      BY <1>4, <3>1, Zenon DEF Collect, Collected
  <2>4. QED
    BY <2>1, <2>2, <2>3 DEF FilesInv
<1>5. CASE Store
  <2>1. /\ stage = "store" /\ stage' = "done" /\ UNCHANGED <<raw, signed, norm, assets, count, cut>>
    BY <1>5 DEF Store
  <2>2. /\ norm' = Normal' /\ SignedNormal'
    BY <2>1, RawStays DEF FilesInv, SignedNormal
  <2>3. Collected'
    BY <2>1, CollectedStays, Zenon DEF FilesInv
  <2>4. Scrubbed'
    <3>1. \A b : TextsOf(b)' = TextsOf(b)
      BY DEF TextsOf
    <3>2. QED
      BY <1>5, <2>1, <3>1 DEF Store, Scrubbed
  <2>5. QED
    BY <2>1, <2>2, <2>3, <2>4 DEF FilesInv
<1>6. CASE UNCHANGED filesVars
  <2>1. UNCHANGED <<stage, raw, signed, norm, assets, count, cut, stored>>
    BY <1>6 DEF filesVars
  <2>2. Normal' = Normal /\ (SignedRaw => SignedRaw') /\ (SignedNormal => SignedNormal')
    BY <2>1, RawStays DEF SignedRaw, SignedNormal
  <2>3. (Collected => Collected') /\ (Scrubbed => Scrubbed')
    BY <2>1, CollectedStays, Zenon
  <2>4. QED
    BY <2>1, <2>2, <2>3 DEF FilesInv
<1>7. QED
  BY <1>1, <1>2, <1>3, <1>4, <1>5, <1>6 DEF FilesNext, FilesDone

\* Once the map is normalised, its blocks and URLs are in order.
LEMMA FilesAreInOrder ==
  ASSUME FilesInv, stage \in {"collect", "store", "done"}
  PROVE  NormOK /\ SignedOK
<1>1. raw \in RawTables /\ norm = Normal /\ SignedNormal
  BY DEF FilesInv
<1>2. NormOK
  BY <1>1, NormalFacts
<1>3. SignedOK
  BY <1>1, RequestedFacts DEF SignedNormal, SignedOK
<1>4. QED
  BY <1>2, <1>3

\* Theorem: every file of every block is among the assets or the flag says that some
\* are not, and none of a block of the page's own content gives way to one of another
\* block, whatever the page holds and whatever the limit is.
THEOREM ContentFirst == FilesSpec => []ContentSurvivesTheCut
<1>1. FilesInv => ContentSurvivesTheCut
  <2> SUFFICES ASSUME FilesInv
               PROVE  ContentSurvivesTheCut
    OBVIOUS
  <2>1. CASE stage \in {"store", "done"}
    <3>1. NormOK /\ SignedOK
      BY <2>1, FilesAreInOrder
    <3>2. Collected
      BY <2>1 DEF FilesInv
    <3>3. QED
      BY <3>1, <3>2, SurvivesTheCut
  <2>2. CASE stage \notin {"store", "done"}
    BY <2>2, Zenon DEF ContentSurvivesTheCut
  <2>3. QED
    BY <2>1, <2>2
<1>2. QED
  BY <1>1, FilesStart, FilesStep, PTL DEF FilesSpec

--------------------------------------------------------------------------------
\* The identity of the files.

\* The URL of a file is that of a request for this file.
LEMMA FileURL ==
  ASSUME raw \in RawTables, SignedNormal, NEW h \in Texts, URLOf(KeyOfFile(h)).is = "answer"
  PROVE  URLOf(KeyOfFile(h)).source = Source(h)
<1> DEFINE k == KeyOfFile(h)
           url == URLOf(k)
<1>1. k \in DOMAIN signed /\ url = signed[k]
  BY DEF URLOf, NoURL
<1>2. PICK j \in KeySet : NormalKey(j) = k /\ Requested(j, url)
  BY <1>1 DEF SignedNormal
<1>3. j = k
  <2>1. k.block = 0 /\ j.block \in 0..N
    BY DEF KeyOfFile, KeySet
  <2>2. j.block # 0 => [j EXCEPT !.block = Norm[j.block]].block = Norm[j.block]
    BY DEF KeySet
  <2>3. j.block # 0 => j.block \in Ids /\ Norm[j.block] # 0
    <3>1. j.block # 0 => j.block \in Ids
      BY <2>1, AssetsAssumption DEF Ids
    <3>2. Norm \in [Ids -> Ids] /\ 0 \notin Ids
      BY AssetsAssumption DEF Ids
    <3>3. QED
      BY <3>1, <3>2
  <2>4. j.block = 0
    BY <1>2, <2>1, <2>2, <2>3 DEF NormalKey
  <2>5. QED
    BY <1>2, <2>4 DEF NormalKey
<1>4. PICK key \in DOMAIN raw, text \in Texts :
        /\ ~raw[key].null /\ SigningSource(text) # None
        /\ url = Answer(raw[key].id, SigningSource(text))
        /\ \/ k = KeyOfFile(SigningSource(text)) \/ k = KeyOfFile(text)
           \/ \E p \in ToSet(Places(raw[key].type)) :
                text = raw[key].files[p] /\ k \in BlockKeys(raw[key], p)
  BY <1>2, <1>3 DEF Requested
<1>5. k = KeyOfFile(SigningSource(text)) \/ k = KeyOfFile(text)
  <2>1. \A p \in ToSet(Places(raw[key].type)) : k \notin BlockKeys(raw[key], p)
    <3>1. \A p \in ToSet(Places(raw[key].type)) : p \in {"cover", "icon", "main"}
      BY PlaceNames
    <3>2. raw[key] \in Records /\ k.role = "file"
      BY <1>4, RawFacts DEF KeyOfFile
    <3>3. QED
      BY <3>1, <3>2, BlockKeysFacts
  <2>2. QED
    BY <1>4, <2>1
<1>6. h = SigningSource(text) \/ h = text
  <2>1. \A t : KeyOfFile(t).file = t
    BY DEF KeyOfFile
  <2>2. QED
    BY <1>5, <2>1
<1>7. Source(h) = SigningSource(text)
  BY <1>4, <1>6, SigningFacts
<1>8. url.source = SigningSource(text)
  BY <1>4 DEF Answer
<1>9. QED
  BY <1>7, <1>8

\* The URL that a block finds under its own keys is that of a request for its own file, if
\* no other raw record became the same block.
LEMMA BlockURL ==
  ASSUME raw \in RawTables, norm = Normal, SignedNormal,
         NEW id \in DOMAIN norm, Cardinality(Spellings(id)) = 1,
         NEW q \in ToSet(Places(norm[id].type)),
         NEW k \in BlockKeys(norm[id], q), URLOf(k).is = "answer"
  PROVE  /\ URLOf(k).source = Source(Hosted(norm[id].files[q]))
         /\ Norm[URLOf(k).block] = id
<1> DEFINE url == URLOf(k)
<1>0. /\ norm[id] \in Records /\ norm[id].id = id /\ id \in Ids /\ id # 0
      /\ Counted(id) \in Spellings(id)
      /\ norm[id].type = raw[Counted(id)].type /\ norm[id].files = raw[Counted(id)].files
  <2>1. NormOK /\ \A i \in Ids : i # 0
    BY NormalFacts DEF Ids
  <2>2. QED
    BY <2>1, NormalFacts DEF NormOK
<1>1. k \in DOMAIN signed /\ url = signed[k]
  BY DEF URLOf, NoURL
<1>2. PICK j \in KeySet : NormalKey(j) = k /\ Requested(j, url)
  BY <1>1 DEF SignedNormal
<1>3. q \in {"cover", "icon", "main"} /\ k.block = id /\ k.file = None /\ k.role # "file"
  <2>1. q \in {"cover", "icon", "main"}
    BY PlaceNames
  <2>2. QED
    BY <1>0, <2>1, BlockKeysFacts
<1>4. j.block # 0 /\ j.role = k.role /\ j.file = k.file /\ Norm[j.block] = id
  <2>1. j.block # 0
    BY <1>0, <1>2, <1>3 DEF NormalKey
  <2>2. k = [j EXCEPT !.block = Norm[j.block]]
    BY <1>2, <2>1 DEF NormalKey
  <2>3. QED
    BY <1>3, <2>1, <2>2 DEF KeySet
<1>5. PICK key \in DOMAIN raw, text \in Texts :
        /\ ~raw[key].null /\ raw[key].id # 0 /\ SigningSource(text) # None
        /\ url = Answer(raw[key].id, SigningSource(text))
        /\ \/ j = KeyOfFile(SigningSource(text)) \/ j = KeyOfFile(text)
           \/ \E p \in ToSet(Places(raw[key].type)) :
                text = raw[key].files[p] /\ j \in BlockKeys(raw[key], p)
  BY <1>2 DEF Requested
<1>6. \A t : KeyOfFile(t).role = "file"
  BY DEF KeyOfFile
<1>7. PICK p \in ToSet(Places(raw[key].type)) :
        text = raw[key].files[p] /\ j \in BlockKeys(raw[key], p)
  BY <1>3, <1>4, <1>5, <1>6
<1>8. raw[key] \in Records /\ p \in {"cover", "icon", "main"}
  BY <1>5, RawFacts, PlaceNames
<1>9. j.block = raw[key].id
  BY <1>7, <1>8, BlockKeysFacts
<1>10. IdOf(key) = id /\ key \in Spellings(id)
  BY <1>4, <1>5, <1>9, IdOfFacts DEF Spellings
<1>11. Counted(id) = key
  <2>1. IsFiniteSet(Spellings(id))
    BY RawFacts, IdsFacts DEF Spellings
  <2>2. PICK x : Spellings(id) = {x}
    BY <2>1, FS_Singleton
  <2>3. QED
    BY <1>0, <1>10, <2>2
<1>12. p = q
  <2>1. \/ k = KeyOfBlock(id) /\ (q = "main" \/ (norm[id].type = "page" /\ q = "cover"))
        \/ k = KeyOfRole(id, q)
    BY <1>0 DEF BlockKeys
  <2>2. \/ j = KeyOfBlock(j.block) /\ (p = "main" \/ (norm[id].type = "page" /\ p = "cover"))
        \/ j = KeyOfRole(j.block, p)
    BY <1>0, <1>7, <1>9, <1>11 DEF BlockKeys
  <2>3. \A i, r : KeyOfBlock(i).role = "block" /\ KeyOfRole(i, r).role = r
    BY DEF KeyOfBlock, KeyOfRole
  <2>4. p # "block" /\ q # "block"
    BY <1>3, <1>8
  <2>5. CASE k.role = "block"
    <3>1. /\ q = "main" \/ (norm[id].type = "page" /\ q = "cover")
          /\ p = "main" \/ (norm[id].type = "page" /\ p = "cover")
      BY <1>4, <2>1, <2>2, <2>3, <2>4, <2>5
    <3>2. p \in ToSet(Places(norm[id].type))
      BY <1>0, <1>7, <1>11
    <3>3. CASE norm[id].type = "page"
      <4>1. p \in {"cover", "icon"} /\ q \in {"cover", "icon"}
        BY <3>2, <3>3, PlacesFacts
      <4>2. QED
        BY <3>1, <4>1
    <3>4. CASE norm[id].type # "page"
      BY <3>1, <3>4
    <3>5. QED
      BY <3>3, <3>4
  <2>6. CASE k.role # "block"
    BY <1>4, <2>1, <2>2, <2>3, <2>6
  <2>7. QED
    BY <2>5, <2>6
<1>13. text = norm[id].files[q]
  BY <1>0, <1>7, <1>11, <1>12
<1>14. url.source = SigningSource(text) /\ url.block = raw[key].id
  BY <1>5 DEF Answer
<1>15. SigningSource(text) = Source(Hosted(text))
  BY <1>5, SigningFacts
<1>16. QED
  BY <1>4, <1>9, <1>13, <1>14, <1>15

\* The URL of an asset that answers a request is the URL of its file.
LEMMA PlaceIsOwn ==
  ASSUME raw \in RawTables, norm = Normal, SignedNormal,
         NEW id \in DOMAIN norm, Cardinality(Spellings(id)) = 1,
         NEW q \in ToSet(Places(norm[id].type)), AtPlace(norm[id], q).url.is = "answer"
  PROVE  /\ AtPlace(norm[id], q).url.source = Source(AtPlace(norm[id], q).source)
         /\ q = "main" \/ norm[id].type = "page" => Norm[AtPlace(norm[id], q).url.block] = id
<1> DEFINE b == norm[id]
           a == AtPlace(b, q)
           file == Hosted(b.files[q])
           ofBlock == KeyOfBlock(b.id)
           ofRole == KeyOfRole(b.id, q)
<1>1. a.url = PlaceURL(b, q) /\ a.source = file
  BY DEF AtPlace, Asset
<1>2. b \in Records /\ q \in {"cover", "icon", "main"} /\ file \in Texts
  <2>1. b \in Records /\ q \in {"cover", "icon", "main"}
    BY NormalFacts, PlaceNames DEF NormOK
  <2>2. QED
    BY <2>1, RecordFacts, HostedFacts
<1>3. Proxy(b.id, file).is # "answer"
  BY DEF Proxy, NoURL
<1>4. ASSUME NEW k \in BlockKeys(b, q), URLOf(k).is = "answer"
      PROVE  URLOf(k).source = Source(file) /\ Norm[URLOf(k).block] = id
  BY <1>4, BlockURL
<1>5. q = "main" \/ (b.type = "page" /\ q = "cover") => ofBlock \in BlockKeys(b, q)
  BY DEF BlockKeys
<1>6. ~(q = "main" \/ (b.type = "page" /\ q = "cover")) => ofRole \in BlockKeys(b, q)
  BY DEF BlockKeys
<1>7. URLOf(KeyOfFile(file)).is = "answer" => URLOf(KeyOfFile(file)).source = Source(file)
  BY <1>2, FileURL
<1> HIDE DEF a, b, file, ofBlock, ofRole
<1>8. CASE q = "main" \/ (b.type = "page" /\ q = "cover")
  <2>1. PlaceURL(b, q) = URLOf(ofBlock)
    BY <1>8 DEF PlaceURL, ofBlock
  <2>2. QED
    BY <1>1, <1>4, <1>5, <1>8, <2>1 DEF a, b
<1>9. CASE b.type = "page" /\ ~(q = "main" \/ q = "cover")
  <2>1. PlaceURL(b, q) = First(URLOf(ofRole), Proxy(b.id, file))
    BY <1>9 DEF PlaceURL, ofRole, file
  <2>2. PlaceURL(b, q).is = "answer" => PlaceURL(b, q) = URLOf(ofRole)
    BY <1>3, <2>1 DEF First
  <2>3. QED
    BY <1>1, <1>4, <1>6, <1>9, <2>2 DEF a, b
<1>10. CASE b.type # "page" /\ q # "main"
  <2>1. PlaceURL(b, q) = First(First(URLOf(ofRole), URLOf(KeyOfFile(file))), Proxy(b.id, file))
    BY <1>10 DEF PlaceURL, ofRole, file
  <2>2. PlaceURL(b, q).is = "answer" =>
          PlaceURL(b, q) = URLOf(ofRole) \/ PlaceURL(b, q) = URLOf(KeyOfFile(file))
    BY <1>3, <2>1 DEF First
  <2>3. QED
    BY <1>1, <1>4, <1>6, <1>7, <1>10, <2>2 DEF a, b
<1>11. QED
  BY <1>8, <1>9, <1>10

\* No file is served under the URL of another one.
LEMMA ServedAsItself ==
  ASSUME FilesInv
  PROVE  SignedForItself
<1>1. CASE stage \notin {"store", "done"}
  <2>1. assets = <<>>
    BY <1>1 DEF FilesInv
  <2>2. DOMAIN assets = {}
    BY <2>1
  <2>3. QED
    BY <2>2 DEF SignedForItself
<1>2. CASE stage \in {"store", "done"}
  <2>1. raw \in RawTables /\ norm = Normal /\ SignedNormal /\ NormOK /\ SignedOK /\ Collected
    BY <1>2, FilesAreInOrder DEF FilesInv
  <2>2. PICK list \in Seq(AssetSet) :
          /\ ToSet(list) = ToSet(EmojiAssets)
                           \cup UNION {ToSet(BlockAssets(norm[id])) : id \in DOMAIN norm}
          /\ Len(assets) \in Nat /\ DOMAIN assets = 1..Len(assets) /\ Len(assets) <= Len(list)
          /\ \A i \in 1..Len(assets) : assets[i] = Finished(list[i])
    BY <2>1, CollectedFacts, Zenon
  <2>3. ASSUME NEW i \in DOMAIN assets, assets[i].url.is = "answer",
               assets[i].block = 0 \/ Cardinality(Spellings(assets[i].block)) = 1
        PROVE  /\ assets[i].url.source = assets[i].source
               /\ (\/ assets[i].role = "main"
                   \/ (assets[i].role \in {"cover", "icon"} /\ norm[assets[i].block].type = "page")) =>
                    Norm[assets[i].url.block] = assets[i].block
    <3> DEFINE a == list[i]
    <3>1. a \in ToSet(list) /\ a \in AssetSet /\ assets[i] = Finished(a)
      BY <2>2, LenProperties, ElementOfSeq DEF ToSet
    <3> HIDE DEF a
    <3>2. /\ assets[i].block = a.block /\ assets[i].role = a.role
          /\ assets[i].source = Source(a.source) /\ assets[i].url = a.url
      BY <2>3, <3>1, FinishedFacts
    <3>3. CASE a \in ToSet(EmojiAssets)
      <4>1. PICK h \in Texts : a = OfEmoji(h)
        BY <2>1, <3>3, EmojiAssetsFacts
      <4>2. a.url = URLOf(KeyOfFile(h)) /\ a.source = h /\ a.role = "emoji"
        BY <4>1 DEF OfEmoji, Asset
      <4>3. QED
        BY <2>1, <2>3, <3>2, <4>2, FileURL
    <3>4. CASE \E id \in DOMAIN norm : a \in ToSet(BlockAssets(norm[id]))
      <4>1. PICK id \in DOMAIN norm : a \in ToSet(BlockAssets(norm[id]))
        BY <3>4
      <4>2. a.block = id /\ (\/ \E p \in ToSet(Places(norm[id].type)) : a = AtPlace(norm[id], p)
                             \/ \E h \in Texts : a = InText(norm[id], h))
        BY <2>1, <4>1, AssetsAreOwn
      <4>3. id # 0
        BY <2>1 DEF NormOK, Ids
      <4>4. ASSUME NEW p \in ToSet(Places(norm[id].type)), a = AtPlace(norm[id], p)
            PROVE  /\ a.url.source = Source(a.source)
                   /\ p = "main" \/ norm[id].type = "page" => Norm[a.url.block] = id
        BY <2>1, <2>3, <3>2, <4>2, <4>3, <4>4, PlaceIsOwn
      <4>5. CASE \E p \in ToSet(Places(norm[id].type)) : a = AtPlace(norm[id], p)
        <5>1. PICK p \in ToSet(Places(norm[id].type)) : a = AtPlace(norm[id], p)
          BY <4>5
        <5>2. a.role = p
          BY <5>1 DEF AtPlace, Asset
        <5>3. QED
          BY <3>2, <4>2, <4>4, <5>1, <5>2
      <4>6. CASE \E h \in Texts : a = InText(norm[id], h)
        <5>1. PICK h \in Texts : a = InText(norm[id], h)
          BY <4>6
        <5>2. a.url = URLOf(KeyOfFile(h)) /\ a.source = h /\ a.role = "text"
          BY <5>1 DEF InText, Asset
        <5>3. QED
          BY <2>1, <2>3, <3>2, <5>2, FileURL
      <4>7. QED
        BY <4>2, <4>5, <4>6
    <3>5. QED
      BY <2>2, <3>1, <3>3, <3>4
  <2>4. QED
    BY <2>3, Zenon DEF SignedForItself
<1>3. QED
  BY <1>1, <1>2

\* What is stored has the files of what is shown and no credentials.
LEMMA StoredAsItself ==
  ASSUME FilesInv
  PROVE  StoredWithoutCredentials
<1> SUFFICES ASSUME stage = "done" PROVE StoredWithoutCredentials
  BY DEF StoredWithoutCredentials
<1>1. raw \in RawTables /\ norm = Normal /\ NormOK /\ SignedOK /\ Collected /\ Scrubbed
  BY FilesAreInOrder DEF FilesInv
<1>2. ASSUME NEW id \in DOMAIN norm
      PROVE  /\ \A t \in stored.texts[id] : ~Signed(t)
             /\ {Source(t) : t \in stored.texts[id]} = {Source(t) : t \in TextsOf(norm[id])}
  <2> DEFINE T == TextsOf(norm[id])
  <2>1. stored.texts[id] = {ForStorage(t) : t \in T}
    BY <1>1 DEF Scrubbed
  <2>2. T \subseteq Texts
    <3>1. norm[id] \in Records
      BY <1>1 DEF NormOK
    <3>2. \A p \in ToSet(Places(norm[id].type)) : norm[id].files[p] \in Texts
      BY <3>1, PlaceNames, RecordFacts
    <3>3. \A i \in DOMAIN norm[id].texts : norm[id].texts[i] \in Texts
      BY <3>1, RecordFacts, LenProperties, ElementOfSeq
    <3>4. QED
      BY <3>2, <3>3 DEF TextsOf, ToSet
  <2> HIDE DEF T
  <2>3. \A t \in T : ~Signed(ForStorage(t)) /\ Source(ForStorage(t)) = Source(t)
    BY <2>2, StorageFacts
  <2>4. QED
    BY <2>1, <2>3 DEF T
<1>3. ASSUME NEW i \in DOMAIN assets
      PROVE  /\ ~Signed(stored.assets[i].source)
             /\ stored.assets[i].source = assets[i].source
  <2>1. PICK list \in Seq(AssetSet) :
          /\ Len(assets) \in Nat /\ DOMAIN assets = 1..Len(assets) /\ Len(assets) <= Len(list)
          /\ \A n \in 1..Len(assets) : assets[n] = Finished(list[n])
    BY <1>1, CollectedFacts, Zenon
  <2> DEFINE a == list[i]
             own == Source(a.source)
  <2>2. a \in AssetSet /\ assets[i] = Finished(a)
    BY <2>1, LenProperties, ElementOfSeq
  <2> HIDE DEF a
  <2>3. assets[i].source = own
    BY <2>2, FinishedFacts
  <2>4. stored.assets[i] = [assets[i] EXCEPT !.source = ForStorage(@), !.url = NoURL]
    BY <1>1 DEF Scrubbed
  <2>5. "source" \in DOMAIN assets[i]
    <3>1. \E url : assets[i] = [a EXCEPT !.source = Source(a.source), !.url = url]
      BY <2>2, Zenon DEF Finished
    <3>2. QED
      BY <2>2, <3>1 DEF AssetSet
  <2>6. stored.assets[i].source = ForStorage(own)
    BY <2>3, <2>4, <2>5
  <2>7. a.source \in Texts
    BY <2>2 DEF AssetSet
  <2>8. ForStorage(own) = own /\ ~Signed(own)
    BY <2>7, StorageFacts, SourceFacts
  <2>9. QED
    BY <2>3, <2>6, <2>8
<1>4. QED
  BY <1>2, <1>3 DEF StoredWithoutCredentials

\* Theorem: a file keeps its identity: a URL from the answer is that of a request for
\* the same file and, where a block's own key led to it, for the same block, unless the
\* block has two raw records; what is stored holds no credentials and yet the same files.
THEOREM FileIdentity == FilesSpec => []FilesKeepTheirIdentity
<1>1. FilesInv => FilesKeepTheirIdentity
  BY ServedAsItself, StoredAsItself DEF FilesKeepTheirIdentity
<1>2. QED
  BY <1>1, FilesStart, FilesStep, PTL DEF FilesSpec
================================================================================
