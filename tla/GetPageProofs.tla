------------------------------ MODULE GetPageProofs ----------------------------
(***************************************************************************)
(* Theorems about GetPage for any page, any limit and any chunk size.      *)
(***************************************************************************)
EXTENDS GetPage, FiniteSetTheorems, TLAPS

Tables == [Keys -> Kinds]

--------------------------------------------------------------------------------
\* The answers of Notion, and what merging one does.

\* There are finitely many keys.
LEMMA KeysAreFinite == IsFiniteSet(Keys)
<1>1. IsFiniteSet({"own"}) /\ IsFiniteSet({"other"})
  BY FS_Singleton
<1>2. IsFiniteSet(Ids) /\ IsFiniteSet(Aliased)
  BY FS_Subset, GetPageAssumption
<1>3. IsFiniteSet(Ids \X {"own"}) /\ IsFiniteSet(Aliased \X {"other"})
  BY <1>1, <1>2, FS_Product
<1>4. QED
  BY <1>3, FS_Union DEF Keys

\* A table holds finitely many blocks.
LEMMA StoredIsFinite ==
  ASSUME NEW b
  PROVE  IsFiniteSet(Stored(b)) /\ Cardinality(Stored(b)) \in Nat
<1>1. Stored(b) \in SUBSET Keys
  BY DEF Stored
<1>2. QED
  BY <1>1, KeysAreFinite, FS_Subset, FS_CardinalityType

\* An answer is a table.
LEMMA AnswerType ==
  ASSUME NEW A \in SUBSET Keys, NEW new \in Answers(A)
  PROVE  new \in Tables
<1> DEFINE Ask == AskedFor(A)
<1>1. PICK given \in [Ask -> Records], extra \in Keys \X (Unasked \cup {"none"}) :
        new = Table(Ask, given, extra)
  BY DEF Answers
<1>2. ASSUME NEW k \in Keys
      PROVE  new[k] \in Kinds
  <2>1. extra[2] \in Unasked \cup {"none"} /\ Unasked \subseteq Kinds
    BY GetPageAssumption DEF Kinds
  <2>2. CASE k = extra[1] /\ extra[2] # "none"
    BY <1>1, <2>1, <2>2 DEF Kinds, Table
  <2>3. CASE ~(k = extra[1] /\ extra[2] # "none") /\ k[1] \in Ask
    <3>1. given[k[1]] \in Records
      BY <2>3
    <3>2. given[k[1]][2] \in Kinds
      <4>1. \A r \in {"own"} \X ({"none", "full"} \cup Hollow) : r[2] \in Kinds
        BY GetPageAssumption DEF Kinds
      <4>2. QED
        BY <3>1, <4>1 DEF Records, Kinds
    <3>3. QED
      BY <1>1, <2>3, <3>2 DEF Kinds, Table
  <2>4. CASE ~(k = extra[1] /\ extra[2] # "none") /\ k[1] \notin Ask
    BY <1>1, <2>4 DEF Kinds, Table
  <2>5. QED
    BY <2>2, <2>3, <2>4
<1>3. QED
  BY <1>1, <1>2 DEF Tables, Table

\* The first answer is one.
LEMMA FirstAnswerType ==
  ASSUME NEW new \in FirstAnswers
  PROVE  new \in Tables
<1>1. Ids \X {"own"} \in SUBSET Keys
  BY DEF Keys
<1>2. QED
  BY <1>1, AnswerType DEF FirstAnswers

\* Merged tables are tables.
LEMMA MergeType ==
  ASSUME NEW b \in Tables, NEW new \in Tables
  PROVE  Merge(b, new) \in Tables
  BY DEF Merge, Tables

\* An answer leaves the records of a block alone that was not asked for and is not
\* among the surprises.
LEMMA MergeKeeps ==
  ASSUME NEW Ask, NEW b, NEW new, NEW k \in Keys,
         k[1] \notin Ask, k[1] \notin Unbidden(Ask, b, new)
  PROVE  Merge(b, new)[k] = b[k]
<1>1. k[1] \in Ids
  BY GetPageAssumption DEF Keys
<1>2. k \in Stored(new) => new[k] = b[k]
  BY <1>1 DEF Unbidden
<1>3. QED
  BY <1>2 DEF Merge, Stored

--------------------------------------------------------------------------------
\* The limit.

\* What is merged after the check fits.
LEMMA MergeFits ==
  ASSUME NEW b \in Tables, NEW new \in Tables, ~ExceedsLimit(b, new),
         opts.maxBlocks \in Nat, opts.maxBlocks > 0,
         Cardinality(Stored(b)) <= opts.maxBlocks
  PROVE  Cardinality(Stored(Merge(b, new))) <= opts.maxBlocks
<1>1. CASE Stored(new) = {}
  <2>1. Stored(Merge(b, new)) = Stored(b)
    BY <1>1 DEF Stored, Merge
  <2>2. QED
    BY <2>1
<1>2. CASE Stored(new) # {}
  <2> DEFINE X == {k \in Stored(new) : b[k] = "none"}
             Y == {k \in Stored(new) : b[k] \in {"none", "null"}}
  <2>1. Stored(Merge(b, new)) = Stored(b) \cup X
    BY DEF Stored, Merge
  <2>2. IsFiniteSet(Y) /\ IsFiniteSet(X) /\ Cardinality(X) <= Cardinality(Y)
    <3>1. Y \in SUBSET Stored(new) /\ X \in SUBSET Y
      OBVIOUS
    <3>2. IsFiniteSet(Y)
      BY <3>1, StoredIsFinite, FS_Subset
    <3>3. QED
      BY <3>1, <3>2, FS_Subset
  <2>3. Cardinality(X) \in Nat /\ Cardinality(Y) \in Nat
    BY <2>2, FS_CardinalityType
  <2>4. Stored(b) \cap X = {}
    BY DEF Stored
  <2>5. Cardinality(Stored(b) \cup X) = Cardinality(Stored(b)) + Cardinality(X)
    <3>1. IsFiniteSet(Stored(b)) /\ Cardinality(Stored(b)) \in Nat
      BY StoredIsFinite
    <3>2. Cardinality(Stored(b) \cup X) =
            Cardinality(Stored(b)) + Cardinality(X) - Cardinality(Stored(b) \cap X)
      BY <2>2, <3>1, FS_Union
    <3>3. Cardinality(Stored(b) \cap X) = 0
      BY <2>4, FS_EmptySet
    <3>4. QED
      BY <2>3, <3>1, <3>2, <3>3
  <2>6. Cardinality(Stored(b)) + Cardinality(Y) <= opts.maxBlocks
    <3>1. ~(MergeCount(b, new) > opts.maxBlocks)
      BY <1>2 DEF ExceedsLimit
    <3>2. MergeCount(b, new) = Cardinality(Stored(b)) + Cardinality(Y)
      BY DEF MergeCount
    <3>3. QED
      BY <2>3, <3>1, <3>2, StoredIsFinite
  <2>7. QED
    BY <2>1, <2>2, <2>3, <2>5, <2>6, StoredIsFinite
<1>3. QED
  BY <1>1, <1>2

\* Types and the limit.
LimitInv ==
  /\ opts \in Options
  /\ blocks \in Tables
  /\ content \subseteq Keys /\ todo \subseteq Keys
  /\ WithinLimit

\* Limits are numbers.
LEMMA OptionTypes == opts \in Options => opts.maxBlocks \in Nat
  BY GetPageAssumption

\* No block is stored at first.
LEMMA LimitInit == Init => LimitInv
<1> SUFFICES ASSUME Init
             PROVE  LimitInv
  OBVIOUS
<1>1. blocks \in Tables
  BY DEF Init, Tables, Kinds
<1>2. Stored(blocks) = {}
  BY DEF Init, Stored
<1>3. opts.maxBlocks \in Nat
  BY OptionTypes DEF Init
<1>4. Cardinality(Stored(blocks)) = 0
  BY <1>2, FS_EmptySet
<1>5. QED
  BY <1>1, <1>3, <1>4 DEF Init, LimitInv, WithinLimit

\* No step goes beyond the limit on blocks.
LEMMA LimitStep == LimitInv /\ [Next]_vars => LimitInv'
<1> SUFFICES ASSUME LimitInv, [Next]_vars
             PROVE  LimitInv'
  OBVIOUS
<1> USE DEF LimitInv, WithinLimit, Goto, Return, TooMany
<1>1. opts.maxBlocks \in Nat
  BY OptionTypes
<1>2. CASE Raw
  <2>1. PICK new \in FirstAnswers :
          /\ opts.maxBlocks = 0 \/ Cardinality(Stored(new)) <= opts.maxBlocks
          /\ blocks' = new /\ WalkAgain(new)
    BY <1>2 DEF Raw
  <2>2. new \in Tables
    BY FirstAnswerType
  <2>3. content' \subseteq Keys
    BY <2>1 DEF WalkAgain, Walk
  <2>4. opts' = opts /\ todo' = todo
    BY <1>2 DEF Raw
  <2>5. QED
    BY <1>1, <2>1, <2>2, <2>3, <2>4
<1>3. ASSUME NEW A \in SUBSET Keys, NEW new \in Answers(A),
             IF ExceedsLimit(blocks, new) THEN UNCHANGED blocks
             ELSE blocks' = Merge(blocks, new)
      PROVE  /\ blocks' \in Tables
             /\ opts.maxBlocks > 0 => Cardinality(Stored(blocks')) <= opts.maxBlocks
  <2>1. new \in Tables
    BY AnswerType
  <2>2. QED
    BY <1>1, <1>3, <2>1, MergeType, MergeFits
<1>4. CASE Chunk
  <2>1. PICK A \in Chunks : \E new \in Answers(A) :
          /\ todo' = todo \ A
          /\ IF ExceedsLimit(blocks, new) THEN UNCHANGED blocks
             ELSE blocks' = Merge(blocks, new)
    BY <1>4 DEF Chunk
  <2>2. A \in SUBSET Keys
    BY DEF Chunks
  <2>5. PICK new \in Answers(A) :
          /\ todo' = todo \ A
          /\ IF ExceedsLimit(blocks, new) THEN UNCHANGED blocks
             ELSE blocks' = Merge(blocks, new)
    BY <2>1
  <2>3. opts' = opts /\ content' = content
    BY <1>4 DEF Chunk
  <2>4. QED
    BY <1>3, <2>2, <2>3, <2>5
<1>5. CASE MergeCollection
  <2>1. PICK new \in Answers({}) :
          IF ExceedsLimit(blocks, new) THEN UNCHANGED blocks
          ELSE blocks' = Merge(blocks, new)
    BY <1>5 DEF MergeCollection
  <2>2. UNCHANGED <<opts, content, todo>>
    BY <1>5 DEF MergeCollection
  <2>3. QED
    BY <1>3, <2>1, <2>2
<1>6. CASE BeginRound
  BY <1>6 DEF BeginRound, Pending
<1>7. CASE RoundEnds
  BY <1>7 DEF RoundEnds, WalkAgain, Walk
<1>8. CASE RawFails \/ RoundCancelled \/ NothingPending \/ RejectRound \/ ChunkFails
           \/ RoundFails \/ RootCheck \/ CollectionFailed \/ Sign \/ Cancel
  BY <1>8 DEF RawFails, RoundCancelled, NothingPending, RejectRound, ChunkFails,
              RoundFails, RootCheck, CollectionFailed, Sign, Cancel
<1>9. CASE UNCHANGED vars
  BY <1>9 DEF vars
<1>10. QED
  BY <1>2, <1>4, <1>5, <1>6, <1>7, <1>8, <1>9 DEF Next, Step

\* The limit is an invariant.
LEMMA LimitInvariance == Spec => []LimitInv
  BY LimitInit, LimitStep, PTL DEF Spec

\* However much more an answer holds than was asked for, the record map never
\* exceeds MaxBlocks (client.go:1048-1079).
THEOREM LimitKept == Spec => []WithinLimit
<1>1. LimitInv => WithinLimit
  BY DEF LimitInv
<1>2. QED
  BY <1>1, LimitInvariance, PTL

--------------------------------------------------------------------------------
\* The errors.

\* A block whose record is useless or missing has been asked for in this round, is
\* still to be, or an answer to something else made it so.
RoundInv ==
  at = "chunk" =>
    \A k \in content : ~Has(blocks, k[1]) => k[1] \in AskedFor(todo \cup asked) \cup surprises

\* The root is not there before the first answer, and is there once it was checked, as
\* long as the records of collections leave it alone.
RootInv ==
  /\ at = "raw" => ~Has(blocks, Root)
  /\ at = "collections" => Has(blocks, Root) \/ Root \in surprises

HonestInv ==
  /\ LimitInv
  /\ result # "none" => at = "done"
  /\ RoundInv
  /\ RootInv
  /\ HonestErrors

\* A call starts without a result.
LEMMA HonestInit == Init => HonestInv
<1> SUFFICES ASSUME Init
             PROVE  HonestInv
  OBVIOUS
<1>1. at = "raw" /\ result = "none" /\ blocks = [k \in Keys |-> "none"]
  BY Zenon DEF Init
<1>2. ~Has(blocks, Root)
  BY <1>1 DEF Has
<1>3. QED
  BY <1>1, <1>2, LimitInit DEF HonestInv, RoundInv, RootInv, HonestErrors

\* No step returns an error that the blocks do not bear out.
LEMMA HonestStep ==
  ASSUME HonestInv, [Next]_vars
  PROVE  HonestInv'
<1>0. LimitInv'
  BY LimitStep DEF HonestInv
<1> USE DEF HonestInv, RoundInv, RootInv, HonestErrors, Goto, Return, TooMany
<1>1. CASE Raw
  BY <1>0, <1>1 DEF Raw
<1>2. CASE RawFails
  BY <1>0, <1>2 DEF RawFails
<1>3. CASE BeginRound
  <2>1. \A k \in Pending : k[1] \in AskedFor(Pending)
    BY DEF AskedFor
  <2>2. QED
    BY <1>0, <1>3, <2>1 DEF BeginRound, Pending
<1>4. CASE Chunk
  <2> DEFINE step(A, new) ==
        /\ todo' = todo \ A
        /\ asked' = asked \cup A
        /\ IF ExceedsLimit(blocks, new)
           THEN /\ TooMany(Cardinality(Stored(Merge(blocks, new))))
                /\ UNCHANGED <<blocks, surprises>>
           ELSE /\ blocks' = Merge(blocks, new)
                /\ surprises' = surprises \cup Unbidden(AskedFor(A), blocks, new)
                /\ Goto("chunk")
  <2>1. PICK A \in Chunks : \E new \in Answers(A) : step(A, new)
    BY <1>4, Zenon DEF Chunk
  <2>2. PICK new \in Answers(A) : step(A, new)
    BY <2>1, Zenon
  <2>3. A \subseteq todo /\ A \in SUBSET Keys
    BY DEF Chunks, LimitInv
  <2>4. todo' \cup asked' = todo \cup asked
    BY <2>2, <2>3
  <2>5. at = "chunk" /\ UNCHANGED content
    BY <1>4 DEF Chunk
  <2>6. CASE ExceedsLimit(blocks, new)
    BY <1>0, <2>2, <2>5, <2>6
  <2>7. CASE ~ExceedsLimit(blocks, new)
    <3>1. /\ result = "none" /\ result' = result /\ at' = "chunk"
          /\ blocks' = Merge(blocks, new)
          /\ surprises' = surprises \cup Unbidden(AskedFor(A), blocks, new)
      BY <2>2, <2>5, <2>7
    <3>2. ASSUME NEW k \in content, ~Has(Merge(blocks, new), k[1]),
                 k[1] \notin AskedFor(todo \cup asked) \cup surprises'
          PROVE  FALSE
      <4>1. Has(blocks, k[1])
        BY <2>5, <3>1, <3>2
      <4>2. PICK l \in Keys : l[1] = k[1] /\ blocks[l] = "full"
        BY <4>1 DEF Has
      <4>3. l[1] \notin AskedFor(A) /\ l[1] \notin Unbidden(AskedFor(A), blocks, new)
        BY <2>3, <3>1, <3>2, <4>2 DEF AskedFor
      <4>4. Merge(blocks, new)[l] = "full"
        BY <4>2, <4>3, MergeKeeps
      <4>5. QED
        BY <3>2, <4>2, <4>4 DEF Has
    <3>3. QED
      BY <1>0, <2>4, <2>5, <3>1, <3>2
  <2>8. QED
    BY <2>6, <2>7
<1>5. CASE RoundFails
  <2>1. /\ at = "chunk" /\ todo = {} /\ at' = "done"
        /\ result' = IF Has(blocks, Root) THEN "missing_blocks" ELSE "page_not_found"
        /\ UNCHANGED <<blocks, content, asked, surprises>>
    BY <1>5 DEF RoundFails
  <2>2. AskedFor(Pending) \subseteq AskedFor(asked) \cup surprises
    <3>1. \A k \in Pending : k[1] \in AskedFor(asked) \cup surprises
      BY <2>1 DEF Pending
    <3>2. QED
      BY <3>1 DEF AskedFor
  <2>3. Pending' = Pending
    BY <2>1 DEF Pending
  <2>4. QED
    BY <1>0, <2>1, <2>2, <2>3
<1>6. CASE RootCheck
  BY <1>0, <1>6 DEF RootCheck
<1>7. CASE MergeCollection
  <2>1. PICK new \in Answers({}) :
          IF ExceedsLimit(blocks, new)
          THEN /\ TooMany(Cardinality(Stored(Merge(blocks, new))))
               /\ UNCHANGED <<blocks, surprises>>
          ELSE /\ blocks' = Merge(blocks, new)
               /\ surprises' = surprises \cup Unbidden({}, blocks, new)
               /\ Goto("collections")
    BY <1>7, Zenon DEF MergeCollection
  <2>2. at = "collections"
    BY <1>7 DEF MergeCollection
  <2>3. Has(Merge(blocks, new), Root) \/ Root \in surprises \cup Unbidden({}, blocks, new)
    <3> SUFFICES ASSUME Root \notin surprises, Root \notin Unbidden({}, blocks, new)
                 PROVE  Has(Merge(blocks, new), Root)
      OBVIOUS
    <3>1. PICK k \in Keys : k[1] = Root /\ blocks[k] = "full"
      BY <2>2 DEF Has
    <3>2. Merge(blocks, new)[k] = "full"
      BY <3>1, MergeKeeps
    <3>3. QED
      BY <3>1, <3>2 DEF Has
  <2>4. QED
    BY <1>0, <2>1, <2>2, <2>3
<1>8. CASE Sign
  BY <1>0, <1>8 DEF Sign
<1>9. CASE RoundCancelled \/ NothingPending \/ RejectRound \/ ChunkFails \/ RoundEnds
           \/ CollectionFailed
  BY <1>0, <1>9 DEF RoundCancelled, NothingPending, RejectRound, ChunkFails, RoundEnds,
                    CollectionFailed
<1>10. CASE Cancel \/ UNCHANGED vars
  BY <1>0, <1>10 DEF Cancel, vars, Pending
<1>11. QED
  BY <1>1, <1>2, <1>3, <1>4, <1>5, <1>6, <1>7, <1>8, <1>9, <1>10 DEF Next, Step

\* A page is reported as not found only without its root, and blocks as missing only
\* after all that is still missing was asked for, whatever Notion answers; the only
\* exceptions are blocks that answers to something else changed (client.go:307-316,
\* 326-332).
THEOREM ErrorsAreHonest == Spec => []HonestErrors
<1>1. HonestInv /\ [Next]_vars => HonestInv'
  BY HonestStep
<1>2. HonestInv => HonestErrors
  BY DEF HonestInv
<1>3. QED
  BY <1>1, <1>2, HonestInit, PTL DEF Spec

--------------------------------------------------------------------------------
\* The completeness of the page.

\* A finished walk over table b: it holds the root's key with its block and all that is
\* linked, every key but the root's is a block's own, and every block is there.
Settled(b) ==
  /\ start \in content /\ start[1] = Root /\ b[start] = "full"
  /\ ClosedUnder(b, content)
  /\ \A k \in content : k = start \/ k = <<k[1], "own">>
  /\ \A k \in content : Has(b, k[1])

\* The content is that of the present table when the loop looks for what is pending,
\* and nothing is when it is left; from then on the walk stays finished as long as the
\* records of collections leave the blocks of the content alone.
ContentInv ==
  /\ at = "round" \/ (at = "root" /\ opts.fetchMissing) =>
       /\ content = Walk(blocks, start)
       /\ Has(blocks, Root) => start = BlockKey(blocks, Root)
  /\ at = "root" /\ opts.fetchMissing => Pending = {}
  /\ (at = "collections" \/ result = "ok") /\ opts.fetchMissing
       /\ surprises \cap AskedFor(content) = {} => Settled(blocks)

CompleteInv == HonestInv /\ ContentInv

\* The key a page is stored under is a key with its block.
LEMMA BlockKeyType ==
  ASSUME NEW b, Has(b, Root)
  PROVE  BlockKey(b, Root) \in Keys /\ BlockKey(b, Root)[1] = Root /\ b[BlockKey(b, Root)] = "full"
<1>1. \A k \in Keys : k = <<k[1], k[2]>> /\ k[2] \in {"own", "other"}
  BY DEF Keys
<1>2. <<Root, "own">> \in Keys
  BY GetPageAssumption DEF Keys
<1>3. CASE b[<<Root, "own">>] = "full"
  BY <1>2, <1>3 DEF BlockKey
<1>4. CASE b[<<Root, "own">>] # "full"
  <2>1. PICK k \in Keys : k[1] = Root /\ b[k] = "full"
    BY DEF Has
  <2>2. k = <<Root, "other">>
    BY <1>1, <1>4, <2>1
  <2>3. QED
    BY <1>4, <2>1, <2>2 DEF BlockKey
<1>5. QED
  BY <1>3, <1>4

\* What is followed are own keys.
LEMMA FollowType ==
  ASSUME NEW b, NEW k \in Keys
  PROVE  Follow(b, k) \subseteq Keys /\ \A j \in Follow(b, k) : j = <<j[1], "own">>
<1>1. k[1] \in Ids
  BY GetPageAssumption DEF Keys
<1>2. Links[k[1]] \subseteq Ids
  BY <1>1, GetPageAssumption
<1>3. QED
  BY <1>2 DEF Follow, Keys

\* A walk with nothing pending is finished.
LEMMA WalkSettles ==
  ASSUME Has(blocks, Root), start = BlockKey(blocks, Root), content = Walk(blocks, start),
         Pending = {}
  PROVE  Settled(blocks)
<1>1. start \in Keys /\ start[1] = Root /\ blocks[start] = "full"
  BY BlockKeyType
<1>2. Stored(blocks) # {}
  BY <1>1 DEF Stored
<1>3. start \in content /\ content \subseteq Keys
  BY <1>1, <1>2 DEF Walk
<1>4. ASSUME NEW k \in content
      PROVE  Follow(blocks, k) \subseteq content
  <2>1. Follow(blocks, k) \subseteq Keys
    BY <1>3, FollowType
  <2>2. ASSUME NEW j \in Follow(blocks, k), NEW T \in SUBSET Keys, start \in T,
               ClosedUnder(blocks, T)
        PROVE  j \in T
    <3>1. k \in T
      BY <1>4, <2>2 DEF Walk
    <3>2. QED
      BY <2>2, <3>1 DEF ClosedUnder
  <2>3. QED
    BY <1>2, <2>1, <2>2 DEF Walk
<1>5. \A k \in content : k = start \/ k = <<k[1], "own">>
  <2> DEFINE T == {start} \cup {k \in Keys : k = <<k[1], "own">>}
  <2>1. T \in SUBSET Keys /\ start \in T
    BY <1>1
  <2>2. ClosedUnder(blocks, T)
    BY <2>1, FollowType DEF ClosedUnder
  <2>3. content \subseteq T
    <3> HIDE DEF T
    <3>1. QED
      BY <2>1, <2>2 DEF Walk
  <2>4. QED
    BY <2>3
<1>6. \A k \in content : Has(blocks, k[1])
  BY DEF Pending
<1>7. QED
  BY <1>1, <1>3, <1>4, <1>5, <1>6 DEF Settled, ClosedUnder

\* It stays finished when records are merged that leave its blocks alone.
LEMMA SettledStays ==
  ASSUME content \subseteq Keys, Settled(blocks), NEW c,
         \A k \in Keys : k[1] \in AskedFor(content) => c[k] = blocks[k]
  PROVE  Settled(c)
<1>1. \A k \in content : k \in Keys /\ c[k] = blocks[k] /\ Follow(c, k) = Follow(blocks, k)
  BY DEF AskedFor, Follow
<1>2. ASSUME NEW k \in content
      PROVE  Has(c, k[1])
  <2>1. PICK l \in Keys : l[1] = k[1] /\ blocks[l] = "full"
    BY DEF Settled, Has
  <2>2. c[l] = "full"
    BY <2>1 DEF AskedFor
  <2>3. QED
    BY <2>1, <2>2 DEF Has
<1>3. ClosedUnder(c, content)
  BY <1>1 DEF ClosedUnder, Settled
<1>4. c[start] = "full"
  BY <1>1 DEF Settled
<1>5. QED
  BY <1>2, <1>3, <1>4 DEF Settled

\* A finished walk has every block that the content leads to.
LEMMA SettledIsComplete ==
  ASSUME NEW b, content \subseteq Keys, Settled(b)
  PROVE  \A i \in Led(b) : Has(b, i)
<1> DEFINE S == AskedFor(content)
<1>1. S \in SUBSET Ids
  BY GetPageAssumption DEF AskedFor, Keys
<1>2. Root \in S
  BY DEF AskedFor, Settled
<1>3. ASSUME NEW j \in S, IF j = Root THEN Has(b, j) ELSE b[<<j, "own">>] = "full"
      PROVE  Links[j] \subseteq S
  <2>1. PICK k \in content : k[1] = j /\ b[k] = "full"
    <3>1. CASE j = Root
      BY <3>1 DEF Settled
    <3>2. CASE j # Root
      <4>1. PICK k \in content : k[1] = j
        BY DEF AskedFor
      <4>2. k = <<j, "own">>
        BY <3>2, <4>1 DEF Settled
      <4>3. QED
        BY <1>3, <3>2, <4>1, <4>2
    <3>3. QED
      BY <3>1, <3>2
  <2>2. Links[j] \X {"own"} \subseteq content
    BY <2>1 DEF Settled, ClosedUnder, Follow
  <2>3. ASSUME NEW x \in Links[j]
        PROVE  x \in S
    <3>1. <<x, "own">> \in content
      BY <2>2
    <3>2. <<x, "own">>[1] = x
      OBVIOUS
    <3>3. QED
      BY <3>1, <3>2 DEF AskedFor
  <2>4. QED
    BY <2>3
<1>4. Led(b) \subseteq S
  <2> HIDE DEF S
  <2>1. QED
    BY <1>1, <1>2, <1>3 DEF Led
<1>5. QED
  BY <1>4 DEF AskedFor, Settled

\* No step leaves a block of the page behind.
LEMMA CompleteStep ==
  ASSUME CompleteInv, [Next]_vars
  PROVE  CompleteInv'
<1>0. HonestInv'
  BY HonestStep DEF CompleteInv
<1> SUFFICES ContentInv'
  BY <1>0 DEF CompleteInv
<1>t. content \subseteq Keys
  BY DEF CompleteInv, HonestInv, LimitInv
<1>e. result # "none" => at = "done"
  BY DEF CompleteInv, HonestInv
<1>c. ContentInv
  BY DEF CompleteInv
<1> USE <1>e, <1>c DEF ContentInv, Goto, Return, TooMany
<1>1. CASE Raw \/ RoundEnds
  BY <1>1 DEF Raw, RoundEnds, WalkAgain
<1>2. CASE NothingPending
  BY <1>2 DEF NothingPending, Pending
<1>3. CASE RootCheck
  <2>1. CASE Has(blocks, Root) /\ opts.fetchMissing
    <3>1. at = "root" /\ at' = "collections"
          /\ UNCHANGED <<blocks, opts, result, start, content, surprises>>
      BY <1>3, <2>1 DEF RootCheck
    <3>2. Settled(blocks)
      BY <2>1, <3>1, WalkSettles
    <3>3. Settled(blocks)'
      BY <3>1, <3>2 DEF Settled, ClosedUnder, Follow, Has
    <3>4. QED
      BY <3>1, <3>3
  <2>2. CASE Has(blocks, Root) /\ ~opts.fetchMissing
    BY <1>3, <2>2 DEF RootCheck
  <2>3. CASE ~Has(blocks, Root)
    BY <1>3, <2>3 DEF RootCheck
  <2>4. QED
    BY <2>1, <2>2, <2>3
<1>4. CASE MergeCollection
  <2>1. PICK new \in Answers({}) :
          IF ExceedsLimit(blocks, new)
          THEN /\ TooMany(Cardinality(Stored(Merge(blocks, new))))
               /\ UNCHANGED <<blocks, surprises>>
          ELSE /\ blocks' = Merge(blocks, new)
               /\ surprises' = surprises \cup Unbidden({}, blocks, new)
               /\ Goto("collections")
    BY <1>4, Zenon DEF MergeCollection
  <2>2. at = "collections" /\ UNCHANGED <<opts, start, content>>
    BY <1>4 DEF MergeCollection
  <2>3. CASE ExceedsLimit(blocks, new)
    BY <2>1, <2>2, <2>3
  <2>4. CASE ~ExceedsLimit(blocks, new)
    <3>1. /\ blocks' = Merge(blocks, new) /\ at' = "collections"
          /\ surprises' = surprises \cup Unbidden({}, blocks, new)
      BY <2>1, <2>4
    <3>2. ASSUME opts.fetchMissing, surprises' \cap AskedFor(content) = {}
          PROVE  Settled(Merge(blocks, new))
      <4>1. Settled(blocks)
        BY <2>2, <3>1, <3>2
      <4>2. ASSUME NEW k \in Keys, k[1] \in AskedFor(content)
            PROVE  Merge(blocks, new)[k] = blocks[k]
        BY <3>1, <3>2, <4>2, MergeKeeps
      <4>3. QED
        BY <1>t, <4>1, <4>2, SettledStays
    <3>3. Settled(Merge(blocks, new)) => Settled(blocks)'
      BY <2>2, <3>1 DEF Settled, ClosedUnder, Follow, Has
    <3>4. AskedFor(content)' = AskedFor(content)
      BY <2>2 DEF AskedFor
    <3>5. QED
      BY <2>2, <3>1, <3>2, <3>3, <3>4
  <2>5. QED
    BY <2>3, <2>4
<1>u. UNCHANGED <<blocks, start, content, surprises, opts>> =>
        /\ Settled(blocks)' <=> Settled(blocks)
        /\ AskedFor(content)' = AskedFor(content)
        /\ Pending' = Pending
  BY DEF Settled, ClosedUnder, Follow, Has, AskedFor, Pending
<1>5. CASE Sign
  BY <1>5, <1>u DEF Sign
<1>6. CASE RawFails \/ RoundCancelled \/ RejectRound \/ BeginRound \/ ChunkFails \/ Chunk
           \/ RoundFails
  BY <1>6 DEF RawFails, RoundCancelled, RejectRound, BeginRound, ChunkFails, Chunk, RoundFails
<1>7. CASE CollectionFailed
  BY <1>7, <1>u DEF CollectionFailed
<1>8. CASE Cancel \/ UNCHANGED vars
  <2>1. UNCHANGED <<blocks, start, content, surprises, opts, result>> /\ at' = at
    BY <1>8 DEF Cancel, vars
  <2>2. QED
    BY <2>1, <1>u
<1>9. QED
  BY <1>1, <1>2, <1>3, <1>4, <1>5, <1>6, <1>7, <1>8 DEF Next, Step

\* A page that is returned with its missing blocks fetched holds every block its content
\* leads to from the root by way of blocks kept under their own id, in whatever order and
\* company the answers bring them, unless the records of collections, merged after the
\* last walk, change a block of the content (client.go:274-343, and section 5 of README).
THEOREM PagesAreComplete == Spec => []ContentIsThere
<1>1. Init => CompleteInv
  <2> SUFFICES ASSUME Init
               PROVE  CompleteInv
    OBVIOUS
  <2>1. at = "raw" /\ result = "none"
    BY Zenon DEF Init
  <2>2. QED
    BY <2>1, HonestInit DEF CompleteInv, ContentInv
<1>2. CompleteInv /\ [Next]_vars => CompleteInv'
  BY CompleteStep
<1>3. CompleteInv => ContentIsThere
  <2> SUFFICES ASSUME CompleteInv, result = "ok", opts.fetchMissing,
                      surprises \cap AskedFor(content) = {}
               PROVE  \A i \in Led(blocks) : Has(blocks, i)
    BY DEF ContentIsThere
  <2>1. Settled(blocks) /\ content \subseteq Keys
    BY DEF CompleteInv, ContentInv, HonestInv, LimitInv
  <2>2. QED
    BY <2>1, SettledIsComplete
<1>4. QED
  BY <1>1, <1>2, <1>3, PTL DEF Spec

--------------------------------------------------------------------------------
\* Type correctness.

TypeInv ==
  /\ TypeOK
  /\ at = "raw" => todo = {}

\* The number of keys of a set is a number.
LEMMA CountIsNumber ==
  ASSUME NEW S \in SUBSET Keys
  PROVE  Cardinality(S) \in Nat
  BY KeysAreFinite, FS_Subset, FS_CardinalityType

\* A walk yields keys.
LEMMA WalkType ==
  ASSUME TypeOK, NEW b \in Tables, WalkAgain(b)
  PROVE  start' \in Keys /\ content' \subseteq Keys
  BY BlockKeyType DEF TypeOK, WalkAgain, Walk

\* No step leaves the type.
LEMMA TypeStep == TypeInv /\ [Next]_vars => TypeInv'
<1> SUFFICES ASSUME TypeInv, [Next]_vars
             PROVE  TypeInv'
  OBVIOUS
<1>a. ASSUME NEW A \in SUBSET Keys, NEW new \in Answers(A)
      PROVE  /\ new \in Tables /\ Merge(blocks, new) \in Tables
             /\ Cardinality(Stored(new)) \in Nat
             /\ Cardinality(Stored(Merge(blocks, new))) \in Nat
  <2>1. new \in Tables
    BY AnswerType
  <2>2. Merge(blocks, new) \in Tables
    BY <2>1, MergeType DEF TypeInv, TypeOK, Tables
  <2>3. QED
    BY <2>1, <2>2, StoredIsFinite
<1>b. Cardinality(Stored(blocks)) \in Nat /\ Cardinality(Stored(blocks) \cup Pending) \in Nat
  <2>1. Stored(blocks) \in SUBSET Keys /\ Stored(blocks) \cup Pending \in SUBSET Keys
    BY DEF Stored, Pending, TypeInv, TypeOK
  <2>2. QED
    BY <2>1, CountIsNumber
<1> USE DEF TypeInv, TypeOK, Goto, Return, TooMany
<1>1. CASE RawFails
  <2>1. \A new \in FirstAnswers : Cardinality(Stored(new)) \in Nat
    BY FirstAnswerType, StoredIsFinite
  <2>2. demand' \in Nat
    BY <1>1, <2>1 DEF RawFails
  <2>3. /\ UNCHANGED <<opts, blocks, start, content, todo, before, asked, surprises, left, cancelled>>
        /\ at' = "done" /\ result' \in {"upstream", "page_not_found", "max_blocks"}
    BY <1>1 DEF RawFails
  <2>4. QED
    BY <2>2, <2>3
<1>2. CASE Raw
  <2>1. PICK new \in FirstAnswers : blocks' = new /\ WalkAgain(new)
    BY <1>2 DEF Raw
  <2>2. new \in Tables
    BY FirstAnswerType
  <2>3. start' \in Keys /\ content' \subseteq Keys /\ surprises' = {}
    BY <2>1, <2>2, WalkType DEF WalkAgain
  <2>4. /\ UNCHANGED <<opts, todo, before, asked, left, cancelled, result, demand>>
        /\ todo = {} /\ at' \in {"round", "root"}
    BY <1>2 DEF Raw
  <2>5. QED
    BY <2>1, <2>2, <2>3, <2>4 DEF Tables
<1>3. CASE RoundEnds
  <2>1. WalkAgain(blocks)
    BY <1>3 DEF RoundEnds
  <2>2. start' \in Keys /\ content' \subseteq Keys /\ surprises' = {}
    BY <2>1, WalkType DEF Tables, WalkAgain
  <2>3. QED
    BY <1>3, <2>2 DEF RoundEnds
<1>4. CASE Chunk
  <2>1. PICK A \in Chunks : \E new \in Answers(A) :
          /\ todo' = todo \ A
          /\ asked' = asked \cup A
          /\ IF ExceedsLimit(blocks, new)
             THEN /\ TooMany(Cardinality(Stored(Merge(blocks, new))))
                  /\ UNCHANGED <<blocks, surprises>>
             ELSE /\ blocks' = Merge(blocks, new)
                  /\ surprises' = surprises \cup Unbidden(AskedFor(A), blocks, new)
                  /\ Goto("chunk")
    BY <1>4, Zenon DEF Chunk
  <2>2. A \in SUBSET Keys
    BY DEF Chunks
  <2>3. PICK new \in Answers(A) :
          /\ todo' = todo \ A
          /\ asked' = asked \cup A
          /\ IF ExceedsLimit(blocks, new)
             THEN /\ TooMany(Cardinality(Stored(Merge(blocks, new))))
                  /\ UNCHANGED <<blocks, surprises>>
             ELSE /\ blocks' = Merge(blocks, new)
                  /\ surprises' = surprises \cup Unbidden(AskedFor(A), blocks, new)
                  /\ Goto("chunk")
    BY <2>1, Zenon
  <2>4. UNCHANGED <<opts, start, content, before, left, cancelled>>
    BY <1>4 DEF Chunk
  <2>5. /\ at' \in {"chunk", "done"} /\ result' \in {result, "max_blocks"}
        /\ demand' \in Nat /\ blocks' \in Tables /\ surprises' \subseteq Ids
    BY <1>a, <2>2, <2>3 DEF Tables, Unbidden
  <2>6. QED
    BY <2>2, <2>3, <2>4, <2>5 DEF Tables
<1>5. CASE MergeCollection
  <2>1. PICK new \in Answers({}) :
          IF ExceedsLimit(blocks, new)
          THEN /\ TooMany(Cardinality(Stored(Merge(blocks, new))))
               /\ UNCHANGED <<blocks, surprises>>
          ELSE /\ blocks' = Merge(blocks, new)
               /\ surprises' = surprises \cup Unbidden({}, blocks, new)
               /\ Goto("collections")
    BY <1>5, Zenon DEF MergeCollection
  <2>2. /\ UNCHANGED <<opts, start, content, todo, before, asked, cancelled>>
        /\ left' \in 0..MaxInstances
    BY <1>5, GetPageAssumption DEF MergeCollection
  <2>3. /\ at' \in {"collections", "done"} /\ result' \in {result, "max_blocks"}
        /\ demand' \in Nat /\ blocks' \in Tables /\ surprises' \subseteq Ids
    BY <1>a, <2>1 DEF Tables, Unbidden
  <2>4. QED
    BY <2>2, <2>3 DEF Tables
<1>6. CASE RejectRound
  BY <1>6, <1>b DEF RejectRound
<1>7. CASE BeginRound
  BY <1>7, <1>b DEF BeginRound, Pending
<1>8. CASE RootCheck
  <2>1. 0 \in 0..MaxInstances
    BY GetPageAssumption
  <2>2. left' \in 0..MaxInstances
    BY <1>8, <2>1 DEF RootCheck
  <2>3. /\ UNCHANGED <<opts, blocks, start, content, todo, before, asked, surprises, cancelled,
                      demand>>
        /\ at' \in {"collections", "done"} /\ result' \in {result, "page_not_found"}
    BY <1>8 DEF RootCheck
  <2>4. QED
    BY <2>2, <2>3
<1>9. CASE CollectionFailed
  BY <1>9, GetPageAssumption DEF CollectionFailed
<1>10. CASE RoundCancelled \/ NothingPending \/ ChunkFails \/ RoundFails \/ Sign \/ Cancel
  BY <1>10 DEF RoundCancelled, NothingPending, ChunkFails, RoundFails, Sign, Cancel
<1>11. CASE UNCHANGED vars
  BY <1>11 DEF vars
<1>12. QED
  BY <1>1, <1>2, <1>3, <1>4, <1>5, <1>6, <1>7, <1>8, <1>9, <1>10, <1>11 DEF Next, Step

\* Type correctness of GetPage, whatever the answers hold (client.go:222-353).
THEOREM TypeCorrect == Spec => []TypeOK
<1>1. Init => TypeInv
  <2> SUFFICES ASSUME Init
               PROVE  TypeInv
    OBVIOUS
  <2>1. /\ opts \in Options /\ blocks = [k \in Keys |-> "none"] /\ start = <<Root, "own">>
        /\ content = {} /\ todo = {} /\ before = 0 /\ asked = {} /\ surprises = {} /\ left = 0
        /\ at = "raw" /\ result = "none" /\ demand = 0
    BY Zenon DEF Init
  <2>2. start \in Keys
    BY <2>1, GetPageAssumption DEF Keys
  <2>3. cancelled \in BOOLEAN
    BY Zenon DEF Init
  <2>4. left \in 0..MaxInstances /\ blocks \in [Keys -> Kinds]
    BY <2>1, GetPageAssumption DEF Kinds
  <2>5. QED
    BY <2>1, <2>2, <2>3, <2>4 DEF TypeInv, TypeOK
<1>2. TypeInv => TypeOK
  BY DEF TypeInv
<1>3. QED
  BY <1>1, <1>2, TypeStep, PTL DEF Spec
================================================================================
