--------------------------------- MODULE GetPage -------------------------------
(***************************************************************************)
(* notionapi: Client.GetPage, which assembles the record map of a page     *)
(* from many upstream answers.  A block record is kept under a key of the  *)
(* block table: the id of the block, or another spelling of it (without    *)
(* dashes, say), which the code looks up by the id inside the record.      *)
(*                                                                         *)
(* Notion is external and answers as it likes: it may leave out what was   *)
(* asked for, return a record without a value ("null") or one that says no *)
(* more than that there is no access ("hollow"), key a record differently, *)
(* or add a record nobody asked for.  The context may be cancelled between *)
(* any two steps.                                                          *)
(***************************************************************************)
EXTENDS Integers, FiniteSets

CONSTANTS
  Ids,          \* block ids
  Root,         \* the page
  Links,        \* Links[i]: the blocks a walk of the page follows from block i
  Aliased,      \* the ids whose records may be keyed differently
  Hollow,       \* the useless records there may be
  Unasked,      \* the kinds of record an answer may add
  ChunkLimit,   \* PageOptions.ChunkLimit
  Options,      \* the other options GetPage may be called with
  MaxInstances  \* bound: the collection views of the page

ASSUME GetPageAssumption ==
  /\ IsFiniteSet(Ids) /\ Root \in Ids /\ Links \in [Ids -> SUBSET Ids]
  /\ Aliased \subseteq Ids
  /\ Hollow \subseteq {"null", "hollow"}
  /\ Unasked \subseteq {"full", "null", "hollow"}
  /\ ChunkLimit \in Nat \ {0}
  /\ Options \subseteq [fetchMissing : BOOLEAN, fetchCollections : BOOLEAN,
                        throw : BOOLEAN, sign : BOOLEAN, maxBlocks : Nat]
  /\ MaxInstances \in Nat

Keys == (Ids \X {"own"}) \cup (Aliased \X {"other"})
Kinds == {"none", "null", "hollow", "full"}

VARIABLES
  opts,     \* the options of this call
  blocks,   \* blocks[k]: the record under key k
  start,    \* contentRootID: the key the content is walked from
  content,  \* contentBlockIDs
  todo,     \* pending blocks of this round that are still to be requested
  before,   \* the number of records when the round began
  asked,    \* what was requested in this round
  surprises, \* history: the blocks whose records answers changed unasked since the
            \* content was walked
  left,     \* collection results that are still to be merged
  at,       \* where GetPage is
  result,   \* what it returned
  demand,   \* for a limit error, how many records there would have been
  cancelled \* the context is done

vars == <<opts, blocks, start, content, todo, before, asked, surprises, left, at, result,
          demand, cancelled>>

Stored(b) == {k \in Keys : b[k] # "none"}

\* recordMapHasBlockID and recordMapBlockKey: the block's own key comes first.
Has(b, i) == \E k \in Keys : k[1] = i /\ b[k] = "full"
BlockKey(b, i) ==
  IF b[<<i, "own">>] = "full" \/ ~Has(b, i) THEN <<i, "own">> ELSE <<i, "other">>

\* What a walk goes on to from the record under k: only a block has content,
\* and the content is looked up under the blocks' own ids.
Follow(b, k) == IF b[k] = "full" THEN Links[k[1]] \X {"own"} ELSE {}

ClosedUnder(b, S) == \A k \in S : Follow(b, k) \subseteq S

\* GetPageContentBlockIDs: the keys reached from key s, the least set that has
\* s and is closed; nothing in an empty table.
Walk(b, s) ==
  {k \in Keys : /\ Stored(b) # {}
                /\ \A S \in SUBSET Keys : s \in S /\ ClosedUnder(b, S) => k \in S}

\* mergeMap.
Merge(b, new) == [k \in Keys |-> IF new[k] # "none" THEN new[k] ELSE b[k]]

\* enforceMapMergeMaxBlocks: a key that holds null counts again.
MergeCount(b, new) ==
  Cardinality(Stored(b)) + Cardinality({k \in Stored(new) : b[k] \in {"none", "null"}})
ExceedsLimit(b, new) ==
  opts.maxBlocks > 0 /\ Stored(new) # {} /\ MergeCount(b, new) > opts.maxBlocks

\* Notion's answers to a request for the keys in A: record tables that hold
\* something for each block asked for, or nothing, and perhaps one record more.
AskedFor(A) == {k[1] : k \in A}
Records == ({"own"} \X ({"none", "full"} \cup Hollow)) \cup {<<"other", "full">>}
Table(Ask, given, extra) ==
  [k \in Keys |->
     IF k = extra[1] /\ extra[2] # "none" THEN extra[2]
     ELSE IF k[1] \in Ask /\ k[2] = given[k[1]][1] THEN given[k[1]][2]
     ELSE "none"]
Answers(A) ==
  {Table(AskedFor(A), given, extra) :
     given \in [AskedFor(A) -> Records],
     extra \in Keys \X (Unasked \cup {"none"})}

\* The first request is for the page as a whole.
FirstAnswers == Answers(Ids \X {"own"})

Init ==
  /\ opts \in Options
  /\ blocks = [k \in Keys |-> "none"]
  /\ start = <<Root, "own">>
  /\ content = {}
  /\ todo = {}
  /\ before = 0
  /\ asked = {}
  /\ surprises = {}
  /\ left = 0
  /\ at = "raw"
  /\ result = "none"
  /\ demand = 0
  /\ cancelled = FALSE

Goto(place) == at' = place /\ UNCHANGED <<result, demand>>
Return(r) == at' = "done" /\ result' = r /\ UNCHANGED demand
TooMany(n) == at' = "done" /\ result' = "max_blocks" /\ demand' = n

\* The blocks not asked for of whose records an answer changes one.
Unbidden(Ask, b, new) ==
  {i \in Ids \ Ask : \E k \in Stored(new) : k[1] = i /\ new[k] # b[k]}

\* The first request fails, finds no block table, or has too many blocks.
RawFails ==
  /\ at = "raw"
  /\ \/ Return("upstream")
     \/ ~cancelled /\ Return("page_not_found")
     \/ /\ ~cancelled /\ opts.maxBlocks > 0
        /\ \E new \in FirstAnswers :
             /\ Cardinality(Stored(new)) > opts.maxBlocks
             /\ TooMany(Cardinality(Stored(new)))
  /\ UNCHANGED <<opts, blocks, start, content, todo, before, asked, surprises, left,
                 cancelled>>

\* The content is walked from the root block's key; without a root block from
\* where it was walked before.
WalkAgain(b) ==
  /\ start' = IF Has(b, Root) THEN BlockKey(b, Root) ELSE start
  /\ content' = Walk(b, start')
  /\ surprises' = {}

\* The first request returns a block table within the limit.
Raw ==
  /\ at = "raw"
  /\ ~cancelled
  /\ \E new \in FirstAnswers :
       /\ opts.maxBlocks = 0 \/ Cardinality(Stored(new)) <= opts.maxBlocks
       /\ blocks' = new
       /\ WalkAgain(new)
  /\ Goto(IF opts.fetchMissing THEN "round" ELSE "root")
  /\ UNCHANGED <<opts, todo, before, asked, left, cancelled>>

Pending == {k \in content : ~Has(blocks, k[1])}

\* The loop over missing blocks: it gives up, is over, or begins a round.
RoundCancelled ==
  /\ at = "round"
  /\ cancelled
  /\ Return("cancelled")
  /\ UNCHANGED <<opts, blocks, start, content, todo, before, asked, surprises, left,
                 cancelled>>

NothingPending ==
  /\ at = "round"
  /\ ~cancelled
  /\ Pending = {}
  /\ Goto("root")
  /\ UNCHANGED <<opts, blocks, start, content, todo, before, asked, surprises, left,
                 cancelled>>

\* What is pending counts on top of every record there is.
TooManyPending ==
  /\ opts.maxBlocks > 0
  /\ Cardinality(Stored(blocks)) + Cardinality(Pending) > opts.maxBlocks

RejectRound ==
  /\ at = "round"
  /\ ~cancelled
  /\ Pending # {} /\ TooManyPending
  /\ TooMany(Cardinality(Stored(blocks) \cup Pending))
  /\ UNCHANGED <<opts, blocks, start, content, todo, before, asked, surprises, left,
                 cancelled>>

BeginRound ==
  /\ at = "round"
  /\ ~cancelled
  /\ Pending # {} /\ ~TooManyPending
  /\ todo' = Pending
  /\ before' = Cardinality(Stored(blocks))
  /\ asked' = {}
  /\ Goto("chunk")
  /\ UNCHANGED <<opts, blocks, start, content, surprises, left, cancelled>>

\* A chunk's request fails, or the context is done.
ChunkFails ==
  /\ at = "chunk"
  /\ todo # {}
  /\ Return(IF cancelled THEN "cancelled" ELSE "upstream")
  /\ UNCHANGED <<opts, blocks, start, content, todo, before, asked, surprises, left,
                 cancelled>>

\* The next ChunkLimit pending blocks; the walk has no order of its own.
Chunks ==
  {A \in SUBSET todo :
     Cardinality(A) = IF Cardinality(todo) < ChunkLimit THEN Cardinality(todo)
                      ELSE ChunkLimit}

\* Fault: the answer is merged without a look at the limit.
Chunk_NoLimit ==
  /\ at = "chunk"
  /\ todo # {}
  /\ ~cancelled
  /\ \E A \in Chunks : \E new \in Answers(A) :
       /\ todo' = todo \ A
       /\ asked' = asked \cup A
       /\ blocks' = Merge(blocks, new)
  /\ Goto("chunk")
  /\ UNCHANGED <<opts, start, content, before, surprises, left, cancelled>>

\* A chunk is requested; what the answer holds is merged if the limit allows.
Chunk ==
  /\ at = "chunk"
  /\ todo # {}
  /\ ~cancelled
  /\ \E A \in Chunks : \E new \in Answers(A) :
       /\ todo' = todo \ A
       /\ asked' = asked \cup A
       /\ IF ExceedsLimit(blocks, new)
          THEN /\ TooMany(Cardinality(Stored(Merge(blocks, new))))
               /\ UNCHANGED <<blocks, surprises>>
          ELSE /\ blocks' = Merge(blocks, new)
               /\ surprises' = surprises \cup Unbidden(AskedFor(A), blocks, new)
               /\ Goto("chunk")
  /\ UNCHANGED <<opts, start, content, before, left, cancelled>>

\* The round brought no record that was not there.
RoundFails ==
  /\ at = "chunk"
  /\ todo = {}
  /\ Cardinality(Stored(blocks)) = before
  /\ Return(IF Has(blocks, Root) THEN "missing_blocks" ELSE "page_not_found")
  /\ UNCHANGED <<opts, blocks, start, content, todo, before, asked, surprises, left,
                 cancelled>>

\* Fault: the content is not walked again.
RoundEnds_NoWalk ==
  /\ at = "chunk"
  /\ todo = {}
  /\ Cardinality(Stored(blocks)) # before
  /\ Goto("round")
  /\ UNCHANGED <<opts, blocks, start, content, todo, before, asked, surprises, left,
                 cancelled>>

\* Fault: a round that brought nothing is repeated as well.
RoundEnds_Always ==
  /\ at = "chunk"
  /\ todo = {}
  /\ WalkAgain(blocks)
  /\ Goto("round")
  /\ UNCHANGED <<opts, blocks, todo, before, asked, left, cancelled>>

\* The records it brought may refer to more.
RoundEnds ==
  /\ at = "chunk"
  /\ todo = {}
  /\ Cardinality(Stored(blocks)) # before
  /\ WalkAgain(blocks)
  /\ Goto("round")
  /\ UNCHANGED <<opts, blocks, todo, before, asked, left, cancelled>>

\* Fault: the table is taken for the page whether the root is in it or not.
RootCheck_Skipped ==
  /\ at = "root"
  /\ \E n \in 0..MaxInstances : left' = IF opts.fetchCollections THEN n ELSE 0
  /\ Goto("collections")
  /\ UNCHANGED <<opts, blocks, start, content, todo, before, asked, surprises,
                 cancelled>>

\* Without its root block the page is not found; else the data of the page's
\* collection views is fetched (module Pool).
RootCheck ==
  /\ at = "root"
  /\ IF Has(blocks, Root)
     THEN /\ \E n \in 0..MaxInstances :
               left' = IF opts.fetchCollections THEN n ELSE 0
          /\ Goto("collections")
     ELSE Return("page_not_found") /\ UNCHANGED left
  /\ UNCHANGED <<opts, blocks, start, content, todo, before, asked, surprises,
                 cancelled>>

\* The next collection result is an error: skipped, unless it must not be.
CollectionFailed ==
  /\ at = "collections"
  /\ left > 0
  /\ left' = left - 1
  /\ IF opts.throw THEN Return("upstream") ELSE Goto("collections")
  /\ UNCHANGED <<opts, blocks, start, content, todo, before, asked, surprises,
                 cancelled>>

\* The records of the next result are merged if the limit allows.
MergeCollection ==
  /\ at = "collections"
  /\ left > 0
  /\ left' = left - 1
  /\ \E new \in Answers({}) :
       IF ExceedsLimit(blocks, new)
       THEN /\ TooMany(Cardinality(Stored(Merge(blocks, new))))
            /\ UNCHANGED <<blocks, surprises>>
       ELSE /\ blocks' = Merge(blocks, new)
            /\ surprises' = surprises \cup Unbidden({}, blocks, new)
            /\ Goto("collections")
  /\ UNCHANGED <<opts, start, content, todo, before, asked, cancelled>>

\* The last step: the file URLs are signed, if they should be, and the record
\* map is returned.
Sign ==
  /\ at = "collections"
  /\ left = 0
  /\ \/ Return("ok")
     \/ opts.sign /\ Return("upstream")
  /\ UNCHANGED <<opts, blocks, start, content, todo, before, asked, surprises, left,
                 cancelled>>

Cancel ==
  /\ ~cancelled
  /\ at # "done"
  /\ cancelled' = TRUE
  /\ UNCHANGED <<opts, blocks, start, content, todo, before, asked, surprises, left, at,
                 result, demand>>

Step ==
  \/ RawFails \/ Raw
  \/ RoundCancelled \/ NothingPending \/ RejectRound \/ BeginRound
  \/ ChunkFails \/ Chunk \/ RoundFails \/ RoundEnds
  \/ RootCheck \/ CollectionFailed \/ MergeCollection \/ Sign

Next == Step \/ Cancel

Spec == Init /\ [][Next]_vars

\* Every request ends, with an answer or an error.
FairSpec == Spec /\ WF_vars(Step)

--------------------------------------------------------------------------------
TypeOK ==
  /\ opts \in Options
  /\ blocks \in [Keys -> Kinds]
  /\ start \in Keys /\ content \subseteq Keys
  /\ todo \subseteq content /\ asked \subseteq Keys
  /\ surprises \subseteq Ids
  /\ before \in Nat /\ left \in 0..MaxInstances /\ demand \in Nat
  /\ at \in {"raw", "round", "chunk", "root", "collections", "done"}
  /\ result \in {"none", "ok", "page_not_found", "missing_blocks", "max_blocks",
                 "upstream", "cancelled"}
  /\ cancelled \in BOOLEAN

\* The record map never holds more blocks than PageOptions.MaxBlocks allows, be
\* it while the page is assembled, by answers that hold more than was asked for,
\* or by collection results.
WithinLimit ==
  opts.maxBlocks > 0 => Cardinality(Stored(blocks)) <= opts.maxBlocks

\* The blocks a reader of the record map reaches from the page, who finds a
\* block under whatever key has it.
Reached(b) ==
  {i \in Ids : \A S \in SUBSET Ids :
     /\ Root \in S
     /\ \A j \in S : Has(b, j) => Links[j] \subseteq S
     => i \in S}

\* A page that is returned with missing blocks fetched is complete: "a typed
\* error keeps callers from mistaking a partial record map for a complete page
\* snapshot" (client.go:309-311).
CompletePage ==
  result = "ok" /\ opts.fetchMissing => \A i \in Reached(blocks) : Has(blocks, i)

\* The blocks the content leads to from the root by way of blocks that are kept under
\* their own id.
Led(b) ==
  {i \in Ids : \A S \in SUBSET Ids :
     /\ Root \in S
     /\ \A j \in S : (IF j = Root THEN Has(b, j) ELSE b[<<j, "own">>] = "full")
                     => Links[j] \subseteq S
     => i \in S}

\* What really holds of such a page (client.go:274-324): every block its content leads
\* to is there, however many rounds brought them and whatever the answers of a round
\* overwrote.  Only the records of collections, which are merged after the last walk
\* (343), may take a block away or give it content that nobody asked for.
ContentIsThere ==
  result = "ok" /\ opts.fetchMissing /\ surprises \cap AskedFor(content) = {} =>
    \A i \in Led(blocks) : Has(blocks, i)

\* The errors tell the truth: a page is not found only if its root block is not
\* there, and blocks are missing only after everything that is still missing was
\* requested (errors.go:21-22), unless an answer to something else made it useless in
\* that round; what is returned has its root, unless the records of collections did so.
HonestErrors ==
  /\ result = "ok" => Has(blocks, Root) \/ Root \in surprises
  /\ result = "page_not_found" => ~Has(blocks, Root)
  /\ result = "missing_blocks" =>
       Has(blocks, Root) /\ AskedFor(Pending) \subseteq AskedFor(asked) \cup surprises

\* "The upstream returned none of the pending blocks" (client.go:308): blocks
\* are reported missing only if one is.
MissingIsReal ==
  result = "missing_blocks" => Pending # {}

\* GetPage ends, whatever Notion leaves out of its answers.
Terminates == <>(at = "done")
================================================================================
