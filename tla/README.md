# Verification of unofficial-notion-go

TLA+ models of the parts of this library whose behaviour depends on state,
order or concurrency, TLC runs that check them on small instances, and TLAPS
proofs for instances of any size. Every definition is translated from the Go
source; `PROJECT.json` maps it to its lines. Paths below are relative to the
repository (`src/` in the map).

    tlc -workers 2 -config MC_Flight.cfg MC_Flight     # a run
    tlapm FlightProofs.tla                             # a proof

## 1. The system

A caller hands a page id to `ingest.FetchSnapshot`, which asks
`notionapi.Client` for the record map of the page, completes and normalises it
and returns a `Snapshot`. `notion.RenderPage` turns the record map of a snapshot
into HTML, usually behind one of two caches.

    caller -> ingest.FetchSnapshot -> notionapi.Client.GetPage -> Notion (HTTP)
                |                       \- fetchCollections (worker pool)
                |- repairCollectionQueries -> Client.GetCollectionData
                |- Client.AddSignedURLs
                \- NormalizeRecordMap, CollectAssets, Scrub
    caller -> DiskRenderCache.Do -> flight.Group.Do -> RenderPage
              cache.Cache.Do     -> flight.Group.Do -> any load

| Component | State | Operations | What is hard |
|---|---|---|---|
| `internal/flight` | map of calls in flight, one wait group per call | `Do` | goroutines that meet on a key, panics and `runtime.Goexit`, two critical sections |
| `internal/cache` | LRU list, map, running byte count | `Get`, `Put`, `Do` | the count against the list; lookup, load and store are three critical sections |
| `notion/render_cache.go` | a directory shared by processes | `Do`, `get`, `put`, `prune` | overlapping prunes that work from old listings, crashes, failing system calls |
| `notionapi` `fetchCollections` | channel, shared slice | one call | cancellation, an unlocked slice, an unbuffered channel |
| `notionapi` `GetPage` | the record map being assembled | one call | answers that leave out, add, hollow out or re-key records; limits; termination |
| `ingest/repair.go` | record map, decided pairs, budgets | one call | answers that bring further views; budgets; honest reports |
| `ingest/fetcher.go` | the snapshot | one call | a deadline at any step; flags and errors that agree |
| `notion/render.go` `RenderPage` | output, shared block budget | one call | cyclic and repeated content; output that is well formed wherever the budget ends |
| `notionapi` `Fetch`, `ingest` `mapNotionError` | none | one response | many checks on one response; codes of the client's own share the statuses of the server |
| `notionapi` `AddSignedURLs`, `ingest` `NormalizeRecordMap`, `CollectAssets`, `notion` `ScrubSnapshotForStorage` | the record map, the list of assets | one call each, in this order | signatures by position, keys that meet in one normal form, URLs inside URLs, a cut in a list |
| `notionapi` `GetCollectionData` (groups), `notion` collections and groups | the buckets of a query | ask, answer, one of four layouts | names of buckets that fold or decode to one another, hidden groups, date axes |
| `notion` `BuildPagePaths`, `DirectSubpageLinks`, rich text | sets of pages | three walks over the same blocks | the walks must agree |
| `notion` formulas | none | evaluation of a tree | missing values, infinite numbers, comparisons over mixed types, depth |
| `examples/server`, `fullapp`, `cli` | downloaded assets in memory or in a directory, byte count | `/render`, `/asset` | requests that share assets, budgets, partial files, crashes |
| identifiers, limits, URL policy, CSS, downloader | none | text functions | see section 6 |

Components interact by calls only; what is shared between goroutines is the
flight map, the LRU under its mutex, the cache directory, the result slice of
the pool, the stores of the example programs and a context that is cancelled.

What makes each of them correct:

- flight: one execution per key at a time, everybody who joins is answered with
  the outcome of an execution that overlaps his call, nobody waits for ever.
- cache: the byte count is that of the list, eviction takes the oldest and no
  more than it must, a key that is cached is not loaded, values stay with keys.
- disk cache: only whole pages are served, the directory returns to its budget,
  temporary files are cleaned up, every `Do` returns.
- pool: every view is answered once, no data race, it ends, also when it is cancelled.
- GetPage: the limit holds throughout, a page returned is complete, errors tell
  the truth, it ends.
- repair: every view that is shown is decided, each once; good data is
  never replaced by bad, and rows and aggregations are those of one answer;
  exhausted budgets and failures are reported.
- FetchSnapshot: the truncation flags are down only if nothing was lost.
- RenderPage: bounded depth and cost for any content, well-formed output, no
  page without repetitions is cut, a page that is cut is a beginning of the whole.
- transport: whatever answers, the status, the code and the retry hint tell what
  was the matter.
- assets: no file is served under the URL of another, nothing stored holds a
  credential or changes which file it names, the cut drops the page's own files
  last.
- views: every row that arrived is shown where the view's settings put it.
- links: what is rendered as a link to a page is a page that is served, and
  every child is listed.
- formulas: values that nobody wrote do not appear, comparisons do not
  contradict each other, what should be finite is.
- stores: the byte count is that of the store, a link leads to the whole file of
  its own asset, what is missing is told.

## 2. Modules

| Module | Models | How |
|---|---|---|
| `Coalescer` | the promise of `flight.Group` | keys are free, executing or settled; answers come all at once |
| `Flight` | `Group.Do` | one action per critical section and per step between two scheduling points; addresses of calls are reused like those of heap objects |
| `LRU` | list, map and count of `cache.Cache` | `Touch`, `Put`, `EvictLocked` as operators on the state under the mutex |
| `ByteCache` | `Cache.Do/Get/Put` | extends `LRU`, instantiates `Flight`; first lookup, flight, second lookup, load and store are separate steps |
| `DiskCache` | `DiskRenderCache` | one action per system call; processes share the directory; crash of a process; of the flight group only the promise (one leader per key and process) is used |
| `Pool` | `fetchCollections` | the rendezvous on the channel is one step of caller and worker; check of the context, query and store are separate |
| `GetPage` | `Client.GetPage` | the block table maps keys to kinds of records; a round is a sequence of chunk requests; Notion's answer is any table |
| `Repair` | `repairCollectionQueries` | passes over the sorted keys, the views of a block, the decision per view, the query and its merge |
| `Transport` | `Fetch`, `mapNotionError` | a response is a record of what the checks look at; operators without state, used by `Snapshot` |
| `Snapshot` | `FetchSnapshot` | extends `Transport` and `Repair`, which is its middle phase; the failure of a response becomes the error that is returned |
| `AssetURL` | `internal/notionasset` | a text is the sequence of its layers of proxies; operators without state, used by `Assets` |
| `Assets` | `AddSignedURLs`, `NormalizeRecordMap`, `CollectAssets`, `ScrubSnapshotForStorage` | one action per stage; a URL that Notion signed is known by the request it answers |
| `Render` | `RenderPage` and the walk below it | the recursion is a stack of unfinished calls and end tags |
| `Views` | `GetCollectionData`'s groups, `collection*.go` | ask, answer, one layout per type of view; the keys of buckets are given with what they decode, fold and escape to |
| `Links` | `BuildPagePaths`, `DirectSubpageLinks`, the anchors of rich text, images and linked pages | one action per walk |
| `Formula` | the evaluator and `formatDate` | a recursive operator over trees, one action each |
| `AssetStore` | the three example programs | one action per critical section, download and system call; a crash keeps files and loses memory |
| `MC_*` | | the instances TLC checks; `MC_ByteCache`, `MC_Snapshot` and `MC_Render` hold several components side by side, a behaviour being one of any of them |
| `*Proofs` | | theorems about the module of that name; `SnapshotProofs` also about `Repair` and `Assets`, `ByteCacheProofs` also about `LRU` and `AssetStore`; `CollectionProofs` about `Pool`, `Views` and `Links` |
| `Lists` | | lists as the code builds them: sorted, filtered, without repetitions; defined without recursion, so that they can be proved about |
| `Walks` | the walks of `PageContentIDs` and `DirectSubpageLinks` | each block once, before those below it; a recursion over steps, so that it can be proved about; used by `Assets` and `Links` |
| `DataTheorems` | | facts about sums over finite sets, which the accounts of the caches and stores rest on, about the lists of `Lists`, about lists that are joined, and about the walk of `Walks` |

`ByteCache` composes `LRU` and `Flight`; `Snapshot` composes `FetchSnapshot` with
`Repair` and `Transport`; `Assets` builds on `AssetURL`; `Flight` implements
`Coalescer` under a refinement mapping. Definitions
named `X_Fault` (for instance `Lead_NoLookup`) are plausible bugs of `X`; they are
used by no specification. Each property is violated when one of them takes the
place of `X` (the list is `mutants` in `PROJECT.json`).

### State and actions against the code

- **Flight.** `m` is `Group.m`; `cur[p]` the local `c`; `outcome[c]` what `val`,
  `err` and `panicValue` of the call say together; `done[c]` that `wg` is at zero.
  `Join`/`Lead` are the critical section of lines 30-45, `FnEnds` the return,
  panic or Goexit of `fn`, `Publish` line 51, `Release` lines 53-55, `Leave` and
  `Wake` the returns.
- **LRU, ByteCache.** `order` is the list from the front, `items` the map, `used`
  the count. `at[p]` is the place inside `Cache.Do`; `Hit`, `Miss` the first
  lookup, `RecheckHit`, `RecheckMiss` the one inside the flight.
- **DiskCache.** `file[k]` is the page file of key `k` (size, time, whether it is
  whole), `temp` the temporary files. `ReadHit`/`ReadMiss`, `TouchFile`, `Create`,
  `Write`, `Rename`, `Visit` (a step of the directory walk), `RemoveOldest` are the
  system calls in order. `instance` says which process a goroutine runs in.
- **Pool.** `Hand(w)` is a send met by a receive, `Skip` and `Query` the check of
  the context, `QueryEnds` the store into the slice, `Close` and `Return` the
  caller after the loop.
- **GetPage.** `blocks` is the block table, keyed by a block's own id or another
  spelling. `surprises` is no variable of the code: it remembers which blocks an
  answer changed without being asked for them since the content was walked. `Raw`
  is the first request, `BeginRound`, `Chunk`, `RoundEnds` the loop of lines
  274-324, `RootCheck` lines 326-332, `MergeCollection` lines 340-345, `Sign` the
  end. Each merge with its limit check is one action.
- **Repair.** `processed`, `calls`, `pass`, `report` are the variables of the
  function; `SettleView`, `GiveUp`, `AskView` the decision about a view,
  `QueryFails`, `RejectAnswer`, `AnswerView` what becomes of the query. A query
  has rows and extras: the aggregations, which are part of its list, and the
  groups and board columns, which have keys of their own; `MergeMaps` goes key by
  key.
- **Snapshot.** `phase` is the place in `FetchSnapshot`; `errors` are the
  `Snapshot.Errors`, by what they are about; `truncated` the flags.
- **Render.** `work` is what is left to do: activations of `renderBlockList`
  ("blocks"), `renderList` ("items"), `renderTabBlock` ("panels") and end tags
  ("close"). `out` are the elements written, `open` those not yet closed,
  `budget` is `renderBudget.remaining`. The kinds stand for what `renderBlock`
  does with the blocks below a block.
- **Assets.** `raw` is `recordMap["block"]`, keyed by identifiers as they come;
  `signed` the signatures by key; `norm` the normalised blocks; `assets` and
  `count` the list before and after its cut; `stored` what may be kept. A block's
  files are its cover, its icon, its main file and those its texts name.
- **Views.** `stage` says what comes next: the question, the answer, the page.
  `reducers` are the buckets that are asked for, by name; `buckets` and `plain`
  the two forms of an answer, both of them after a repair; `columns` the lanes of
  a board as upstream orders them; `sections` and `bars` what is written. `Claim`
  is one of the three passes in which groups find their buckets: by label, by key,
  by the folded label.
- **Links.** `table` is `recordMap.Block`; `paths` is what `BuildPagePaths` returns, `links` what
  `DirectSubpageLinks` returns, `anchors[b]` the links of block `b` as rendered,
  each with what is inside it.
- **Formula.** `result` is what the evaluator returns for `formula` on `row`,
  `written` what `formulaFormatDate` writes for `pattern`.
- **AssetStore.** `where`, `page`, `next`, `spent`, `urls`, `misses` are the locals of
  a request; `stored`, `held`, `temps` the files or the map, its byte count, and
  the temporary files.

## 3. Runs

| Run | Instance | Question |
|---|---|---|
| `flight` | 3 goroutines, 2 keys, a function that returns or calls Goexit | one execution per key (`AtMostOneRun`), waiters have somebody to wake them (`NoStrandedWaiter`), the delete hits the own call only (`ReleaseRemovesOwnCall`), refinement with liveness (`ImplementsCoalescer`) |
| `flight_late` | the same | violated: `LaterDoReruns`, see section 5 |
| `byte_cache` | cache: 2 goroutines, 3 keys, costs of 0 to 3 bytes, a budget of 2. Stores: 2 requests (cli: one), pages of two assets, sizes of 1 to 3, a limit of 2 each and of 3 in all, a crash | which entries are evicted (`EvictsAsItMust`), what is loaded, whose value is returned; the byte count of the store (`BudgetsKept`), what links serve (`LinksServe`), what is missing without being told (`MissesAreTold`) |
| `disk_cache` | 2 goroutines in one process or two, 2 keys, a tick of the clock, a crash | the budget when nobody prunes, whole pages, temporary files, termination |
| `pool` | 5 views, 3 workers | races, lost views, termination |
| `get_page` | a cyclic page of 4 blocks, limits of none, 3 and 4 | the limit, completeness (`ContentIsThere`), truthful errors (`HonestErrors`), termination |
| `get_page_alias` | children keyed differently | violated: `CompletePage`, see section 5 |
| `get_page_missing` | useless records that are replaced | violated: `MissingIsReal`, see section 5 |
| `repair` | 4 views of 3 blocks and 2 rows, 2 passes, 3 calls, 4 blocks | one query per pair, the limit, nothing left behind, a usable query survives with rows and aggregations that belong together (`NeverClobbers`), termination |
| `repair_silent` | the same | violated: `SilenceIsComplete`, see section 5 |
| `snapshot` | pipeline: 3 views, 2 calls, a row limit of 2, 3 assets of which 2 are kept, 1120 responses. Files: 4 blocks and a second spelling of one, 6 kinds of file, 3 emojis, a cut at 4 | `FlagsTellTheTruth` and `ErrorsTellTheCause` about what is returned; `FilesKeepTheirIdentity`, `ContentSurvivesTheCut` about the files |
| `render` | walk: 4 blocks, all kinds, contents with cycles, repetitions and missing blocks; depth 3, one render more than there are blocks. Views: 4 rows, 7 names of buckets, a list, buckets or both, a limit of 3, an axis of 6 days. Links: 4 blocks and a page outside the record map. Formulas: every function on pairs of leaves and of calls; depth 2 | `WholeOrCut`, `WellFormed`, `CostBounded`, `OrdinaryPagesFit`; `RowsPlaced`, `BarsTellDates`; `LinksAgree`; `FormulasHold` |

Components that share a run share nothing else: the variables of all but one
stay as they are.

**Why the bounds are enough.** In `flight` a third goroutine is the smallest that
can come between the publication and the release of a call two others share. In
`byte_cache` three keys are the smallest with two entries to choose a victim from,
and the costs lie below, at and above the budget. In `disk_cache` two prunes
suffice to work from different listings; two pages exceed the budget. In `pool`
there are more views than workers and a remainder. `get_page` has a cycle, a chunk
limit that splits a round, and limits just below and at the size of the page.
`repair` needs three passes and four calls where two and three are allowed, so
both budgets run out in some behaviours and not in others; the queries it starts
with lack rows, aggregations, groups or columns, and answers bring some of them.
In `render` the budget and the depth both end in the middle of elements on some
pages and not on others. In `snapshot` the second spelling of a block may be
empty, without a type or another picture, so that two records meet in every way;
the deepest text has one proxy more than the code follows. In `render` two labels
fold to one, one is not read back as it was written but as another bucket is, and
one is that of the empty group; numbers are infinite beyond 99, so that sums,
products and dates overflow; patterns of up to four letters hold every token that
`formatDate` knows next to every other. In `byte_cache` two sources differ only in
their query. The bounds of the models themselves are the constants `MaxClock`,
`MaxCrashes` (`DiskCache`, `AssetStore`), `Sizes` (`AssetStore`), `MaxInstances`
(`GetPage`) and `MaxFound` (`Snapshot`); everything else is a parameter of the
code.

**Fairness.** Each goroutine that is inside an operation has weak fairness of its
own step: the Go scheduler runs it, mutexes are held for finitely many
instructions, system calls and HTTP requests return (every request has a
timeout), and the supplied functions end. Goroutines that are not inside an
operation need not start one; a context need not be cancelled; a process need
not die. No action has strong fairness.

Deadlock is not checked where the system stops by itself (one call of the pool,
of `GetPage`, of repair, of `FetchSnapshot`, of `RenderPage`).

## 4. Proofs

| Module | Theorems | Argument |
|---|---|---|
| `FlightProofs` | `TypeCorrect`, `MutualExclusion`, `NoWaiterIsStranded`, `ReleaseIsOwn`, `Refinement` | `FlightInv`: a goroutine that executes or waits on an unpublished call has it as the entry of its key (`EntryInv`), every entry has a goroutine that owns it (`LeaderInv`), owners of a call are unique (`OwnerInv`). Mutual exclusion alone is not inductive: it needs that the entry a leader is about to delete is still its own |
| `ByteCacheProofs` | `TypeCorrect`, `SingleLoad`, `DoubleCheckedLoad`, `KeysDoNotMix` | `CacheInv` = the invariant of the flight group inside, agreement of the place in `Cache.Do` with that in `Group.Do`, one key per call, and the two properties; `DoubleCheckedLoad` is inductive because a store for one key never makes another one present |
| `ByteCacheProofs`, the list | `AccountsHold`, `EvictsOldest` | `AccountsInv`: the list holds each key of the map once, `used` is the sum of the costs of the map (`DataTheorems`), within the budget. Under it, the loop of `evictLocked` keeps the longest beginning of the list that fits, so what leaves is older than what stays, and the newest that left would not have fitted |
| `ByteCacheProofs`, the stores | `StoreWithinBudgets`, `StoreServesLinks`, `StoreTellsMisses` | for any number of requests and any pages. `BudgetsInv`: the count of the server is the sum of what its map holds, over finitely many names with sizes, since an asset is counted only when its name is new. `LinksInv`: what fullapp and server store is whole and has the name of its own block and source, so that to store it again changes nothing a link leads to; a link of cli leads to a position already passed. `TellInv`: while a request has missed nothing, every asset before its position has its two links, and it ends with all of them passed |
| `DiskCacheProofs` | `TypeCorrect`, `Wholeness`, `TemporariesAreOwned`, `BudgetMet` | what a worker holds between render and rename is whole, so what is in the directory is, so what is read is; the walk that lists files always finds an oldest one to remove (`OldestIsListed`, by well-foundedness of the times). `BudgetInv`: the total of a pruning worker is at least what it has listed and not removed (`Counts`), and if the directory exceeds the budget, other than from its start or a crash on (`unsettled`), some pruning worker has listed every file there is at its size or has still to visit it (`Covers`); a prune that covers the directory and ends leaves it within the budget, and a worker that renames a page into it covers it by its own prune |
| `CollectionProofs`, the pool | `TypeCorrect`, `NoLockNeeded`, `NoViewForgotten` | `PoolInv`: an index below `next` is answered or in the hands of one worker, one from `next` on is neither |
| `CollectionProofs`, the views | `BarsTold`, `RowsAreShown` | `ViewInv`: an answer holds rows of the collection only, and what a finished timeline holds are the bars of its entries. The entries are the dated rows, each once (`EntriesFacts`), so the axis goes from the smallest first day to the largest last one (`Extremes`), every entry lies on it, and neither clamp of a bar changes anything. For the rows, each layout is taken as the set of its sections (`VisibleFacts`): a board shows the buckets of its columns and what none of them has; by date a row is in the section of its day. In a grouped table all hangs on the passes of `collectionGroups` (`PassesFacts`). A bucket is distinct (`Distinct`) if its key is read back as the label of no group but its own, and no other bucket as that label: what a group names by label or by key is then its own bucket (`NamesOwn`), a filled distinct bucket is taken by its group by the end of the second pass, and what the third pass or the rest gives away goes to a group whose label can be read from its key (`MayTake`). A row of the list that no bucket has is in the last section (`Uncovered`); in a table without buckets it is under each of its values (`FromViewShown`) |
| `CollectionProofs`, the links | `LinksLead` | `LinksInv`: what the functions return is what they make of the table, which does not change. The blocks that the walk visits are the smallest set closed under content (`VisitedFacts`), which is what *inside the page* means (`WalkIsInside`), so the list of children is complete; a list without repetitions has none (`UniqueOnce`). What a block names in its text, its picture or its pointer is among the pages of `BuildPagePaths` (`TextPagesFacts`), and a rendered part has the anchor of its last mention or of its last link, or none (`TextFrom`), so a page that is named is linked where it is served (`TextFacts`, `TitlesLinked`) |
| `GetPageProofs` | `TypeCorrect`, `LimitKept`, `ErrorsAreHonest`, `PagesAreComplete` | the count of a merge is at most the size of the table plus the new keys the check counted (finite-set lemmas). Answers may change blocks that nobody asked for, even into useless records, and keep any block under another spelling; `surprises` remembers the blocks so changed since the content was last walked. `HonestInv`: in a round, what is missing has been asked for, is still in its chunks, or is a surprise (`RoundInv`). `ContentInv`: at the top of a round `content` is the walk over the table as it is; with nothing pending it is finished (`WalkSettles`), and it stays so under merges that leave its blocks alone (`SettledStays`), so that it holds all that the content leads to (`SettledIsComplete`). Only what collections change after the last walk is excepted; a way through blocks kept under another key is not part of the property (`Led`), since `get_page_alias` shows that the code loses it |
| `SnapshotProofs`, repair | `RepairTypeCorrect`, `OncePerPair`, `BudgetKept`, `LimitKept`, `QueriesAreKept`, `Convergence` | `CallInv` (a pair not decided was not asked for); `OpenInv`: in a pass that has queried nothing, an undecided view that is shown belongs to a key not yet visited or to the rest of the current block. `NothingLeftBehind` follows at the end of such a pass. `LimitKept`: the keys a merge adds are among those the check of the answer counts (`MergeFits`). `QueriesAreKept`: a merge leaves a map, takes the list of an answer with all it holds or not at all, and never loses groups, whose keys an answer can only add to (`QueryStays`) |
| `SnapshotProofs`, files | `ContentFirst`, `FileIdentity` | `FilesInv`: before normalisation every signed key holds the answer to a request made under it (`SignedRaw`), after it every key is the normal form of such a one (`SignedNormal`). What is gathered is then followed list by list: the content of the page is a beginning of the order of the blocks and every block is in it (`OrderFacts`), so its files are a beginning of the assets and the cut takes them last (`SurvivesTheCut`). A key of a file leads to a request for that file (`FileURL`); a key of a block to a request made for a block of the same normal form, which is the same record and so the same place of it if there is no second one (`BlockURL`); blocks with two raw records are left out, since the code fails for them (section 5). What is left of a text in storage is its source, which is its own source and carries no credential (`SourceFacts`) |
| `SnapshotProofs`, fetch | `FlagsHonest`, `ErrorsAreTold` | every step of the pipeline is a step of repair or leaves it alone (`StepIsRepairStep`), so the invariants of repair hold to the end of the fetch; `FlagsInv`: from the end of repair on, row limit, errors and flag are what the report and the queries make them. `ErrorsAreTold` is a case analysis over the failures a response, a limit or the deadline can be (`CausesAreTold`) for any status |
| `RenderProofs` | `TypeCorrect`, `CallsNeverTooDeep`, `BudgetIsTheBound`, `CostIsBounded`, `TagsMatch`, `TreesAreNeverCut`, `PageWholeOrCut` | `RenderInv`: along the stack depths fall (`Nested`); budget and blocks rendered add up to what the page allows; on a tree the ids still to be shown are all different, not yet shown, and hang from the page or from what has been shown (`OnTree`). What is below the next block then hangs from that block alone, so it was not pending and was not shown: no block is rendered twice, the rendered ones and the next one are different blocks of the page (an injection), and the budget, at least their number, is not spent. Depths and budget alone are inductive, `~refused` is not. `CostInv`: the elements written, and the lists and panels still due on the stack, are at most one, the budget that is spent, the children of the root and the fan of every block rendered; an element is paid for when the call that will open it is pushed. `ShapeInv`: an increasing function takes the open elements to the end tags on the stack (`Matched`), so what is closed is the element opened last, and at the end nothing is open. `TextInv`: what is written, followed by what every unfinished call on the stack still owes (`Pending`), is the document, until a block is refused; from then on the budget is spent and only lists and panels are written. The recursion over depths that defines the document has a solution (`UnderIs`), the ids of a call can be laid out in parts wherever no list goes on (`LaidSplit`), and each action turns what the top of the stack owes into what it writes and what the calls it makes owe (`OwesList`, `OwesItem`, `OwesBlock`, `OwesPanel`) |
| `DataTheorems` | `SumTakesOut`, `SumRenames`, `SumAtMost`, `FlatConcat`, ... | the sum of the community modules takes the elements in the order of its `CHOOSE`, so that its definition says only what happens when *that* element is taken out. `SumTakesOut` says it of any element, by a smallest set for which it would be false; the others follow. A function defined by recursion up to a bound exists (`RecursionExists`, built up step by step from a set of values), so that what the recursion behind `FlattenSeq` says of its values is true of it (`FlatIs`) and lists can be joined in parts (`FlatConcat`). A sorted or filtered list is determined by the positions it goes through (`ArrangedIs`, `PickIs`), so a list filtered in parts is the whole one filtered (`PickConcat`). `VisitedFacts` follows the walk over content: in every step one identifier is taken, and those left and those below blocks not yet visited are as many as the steps to come; what is visited or left always holds what is below the visited ones, and every closed set holds all of it |

The theorems hold for every value of the constants that satisfies the ASSUMEs
of the modules, which say what kind of values they are (finite sets of ids,
sentinels that are no members, positive budgets). TLC evaluates each of them in
a run.

Only model-checked:

- liveness (`ImplementsCoalescer` beyond its safety part, `EveryDoReturns`,
  `Terminates`): outside what the prover can do;
- `FormulasHold`, whose evaluator is a recursive operator over trees.

## 5. Where the code and its documentation disagree

- `flight_late`: "The key is released once fn returns, so a later Do re-runs fn"
  (`internal/flight/flight.go:28`). The waiters are let go before the key is
  deleted, so a `Do` that starts after others have returned may share the old
  outcome, an error included.
- `get_page_alias`: a child whose record is keyed differently from its id counts
  as present, but its content is looked up by key only; its own children are
  never requested and the page is returned without them.
- `get_page_missing`: progress of a round is measured by the number of keys; a
  round that replaces useless records by full blocks is reported as
  `missing_blocks`.
- `repair_silent`: a zero report "means repair completed cleanly"
  (`ingest/repair.go:27`), but what a query brought is not looked at again; rows
  without blocks stay missing in silence.

Seen while modelling and not given a run:

- `GetPage`: the limit of `notionapi/client.go:288` counts a pending block with a
  useless record twice and can reject a page that fits.
- Disk cache: a prune removes by path and may take a newer page than the one it
  listed. Memory cache: a value can be replaced by an older one if `Put` and `Do`
  are used for the same key.
- Transport: an upstream answer with a status of 3xx becomes `internal_error`.
  Limits: an override of zero in the options is ignored, in the map it counts.
- Normalisation: of two records whose keys normalise to one identifier the last
  one counts, also if it is untyped, upon which the block is lost, and it may
  inherit the signature of the other; `FilesKeepTheirIdentity` leaves such blocks
  out (`SignedForItself`). `ValidateSnapshot` takes one of the keys at random.
- Assets: `richTextFileSources` (`notionapi`) does not split at commas,
  `richTextAssetSources` (`ingest`) does. Custom emojis are never signed; one
  that is an attachment ends with an empty URL.
- Views: the label of a bucket is what follows its last colon, so an option with a
  colon in its name is read as its last part and may be taken by another group; an
  option named "uncategorized" shares the bucket of rows without a value; groups
  by date or by nested values are labelled by the Go form of a map, and their
  being hidden is not honoured; a bucket that has no group of its own is hidden
  with a group that differs only in case; status groups are asked for with
  "is_empty" (`client.go:1096`); rows whose value belongs to no configured group
  are never asked for; aggregations are matched by position (`collection.go:670`);
  a view with all its columns hidden shows the title and five properties. A bucket
  whose key is read back as another group's label may go to that group: if no row
  is in "C D", its group takes the bucket "C+D", although keys that do not decode
  are meant to be covered (`collection_group.go:121-125`). `RowsPlaced` says of
  such a bucket only that it is not hidden without a hidden group that can be read
  from its key (`Distinct`, `MayTake`). On a board a bucket without a lane is not
  shown; its rows are if the list has them.
- Repair: answers are merged key by key, so one that lists rows without
  aggregations takes those the view had with it, in silence, and the pair is not
  asked for again.
- GetPage: the records of collections are merged after the last walk
  (`notionapi/client.go:343`), so one that makes a block of the page useless, or gives
  it other content, leaves a page that is returned incomplete, even without its
  root. In the model the content of a block does not change, only whether it is there.
- Links: `BuildPagePaths` (doc `subpagelinks.go:9-13`) leaves out the pages that
  buttons (`blocks_text.go:256`) and an image's `link` (`blocks_media.go:304`) lead
  to. A linked page's title may contain anchors and is put into one
  (`blocks_text.go:79-98`, `collection_property.go:135-141`), which
  `richtext.go:198-201` avoids elsewhere; its own page links are rendered without
  resolver and lead off the site.
- Formulas: `add` (`collection_formula.go:354-366`) and constants (237-239) are not
  checked for being finite, against the comment at 537-539, so that "+Inf" may be
  shown. Equality compares texts and the order numbers: "1,000" and 1000 are
  unequal, and neither is larger. `formulaDateAdd` converts without a bound.
- Stores: the server's links are lost with its process; temporary files of fullapp
  stay after a crash; two sources of one block that differ in their query share
  the key without it, and the later one wins.

## 6. Not modelled

- HTML and text: wording and markup of single blocks, equations, embeds, cells,
  tabs of several views, URL policies, CSS, the browser script. Functions from
  text to text without state; of rich text, media and linked pages the anchors are
  modelled (`Links`).
- Identifier normalisation: identifiers are model values; a raw one and its normal
  form are told apart in `GetPage` and `Assets`, where it matters.
- The forms of URLs (hosts, paths, parameters): `AssetURL` tells them apart without
  parsing.
- Decoding of JSON and the clamps of request limits: their outcomes are the inputs
  and the constants of the models.
- Filters, sorts and aggregations of queries, which are handed through; fractions,
  regular expressions and units of dates in formulas; automations of buttons.
- Hit, miss and eviction counters, logging, clocks other than the file times; the
  disabled caches (a budget that is not positive calls the load directly); the
  dialer of the examples.

## 7. Plan

Done: flight, caches, pool, GetPage, repair, FetchSnapshot with transport and
assets, the walk of RenderPage, views, links, formulas, the example stores.

Models to come: two processes of fullapp on one directory; a GetPage whose
collection results come from `Pool` step by step; identifiers with more than one
spelling in `Repair`.
