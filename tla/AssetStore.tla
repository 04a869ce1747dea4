------------------------------- MODULE AssetStore ------------------------------
(***************************************************************************)
(* The three example programs, as users of ingest and notion: each fetches *)
(* a snapshot, downloads its assets one after the other under a budget,    *)
(* stores them, and hands the renderer a table of links to its own copies. *)
(*                                                                         *)
(*   server   keeps the bytes in one map for all requests, under a mutex   *)
(*   fullapp  keeps files, each written under a temporary name and renamed *)
(*   cli      runs alone and writes the final file while it downloads      *)
(*                                                                         *)
(* A name of fullapp and server is the hash of block and source, here the  *)
(* pair of them; that of cli starts with the position of the asset.        *)
(***************************************************************************)
EXTENDS Integers, Sequences, FiniteSetsExt

CONSTANTS
  Requests,       \* the /render requests; cli uses only one
  FirstRequest,
  Pages,          \* the asset lists that a snapshot may have
  Plain,          \* a source without its query (sourceURLKeys)
  Sizes,          \* bound: the sizes of a download
  MaxAsset,       \* maxAssetBytes
  RequestBudget,  \* maxRequestAssetBytes, maxTotalBytes
  StoreLimit,     \* maxStoreBytes
  MaxCrashes      \* bound

ASSUME StoreAssumption ==
  /\ FirstRequest \in Requests
  /\ \A p \in Pages : Len(p) \in Nat /\ DOMAIN p = 1..Len(p)
  /\ Sizes \subseteq Nat /\ MaxAsset \in Nat \ {0} /\ RequestBudget \in Nat \ {0}
  /\ StoreLimit \in Nat \ {0} /\ MaxCrashes \in Nat

VARIABLES
  app,      \* which of the programs this is
  where,    \* where each request is
  page,     \* its snapshot.Assets
  next,     \* its position in them
  spent,    \* its downloaded bytes
  hand,     \* the size of the asset it has in memory
  urls,     \* its links so far: from a block or a source to a name
  misses,   \* fullapp: errors; cli: what is missing from downloaded
  stored,   \* the assets there are: name -> what it holds
  held,     \* server.usedBytes
  temps,    \* fullapp: temporary files
  crashes

perRequest == <<where, page, next, spent, hand, urls, misses>>
storeVars == <<app, perRequest, stored, held, temps, crashes>>

Apps == {"server", "fullapp", "cli"}
None == [x \in {} |-> x]

StoreInit ==
  /\ app \in Apps
  /\ where = [r \in Requests |-> "idle"]
  /\ page = [r \in Requests |-> <<>>]
  /\ next = [r \in Requests |-> 1]
  /\ spent = [r \in Requests |-> 0]
  /\ hand = [r \in Requests |-> 0]
  /\ urls = [r \in Requests |-> None]
  /\ misses = [r \in Requests |-> 0]
  /\ stored = None
  /\ held = 0
  /\ temps = {}
  /\ crashes = 0

Asset(r) == page[r][next[r]]

\* Fault: the source is forgotten.
Name_OfBlock(r) == IF app = "cli" THEN <<next[r]>> ELSE <<Asset(r).block>>

\* hashKey(asset.BlockID, asset.Source), and assetFilename.
Name(r) == IF app = "cli" THEN <<next[r]>> ELSE <<Asset(r).block, Asset(r).source>>

Content(r, size, whole) == [of |-> Asset(r), size |-> size, whole |-> whole]
With(table, k, v) == [x \in DOMAIN table \cup {k} |-> IF x = k THEN v ELSE table[x]]

\* FetchSnapshot returns; cli runs once at a time.
Fetch(r) ==
  /\ where[r] = "idle"
  /\ app = "cli" => r = FirstRequest
  /\ \E p \in Pages : page' = [page EXCEPT ![r] = p]
  /\ where' = [where EXCEPT ![r] = "loop"]
  /\ UNCHANGED <<app, next, spent, hand, urls, misses, stored, held, temps, crashes>>

FetchFails(r) ==
  /\ where[r] = "idle"
  /\ app = "cli" => r = FirstRequest
  /\ where' = [where EXCEPT ![r] = "failed"]
  /\ UNCHANGED <<app, page, next, spent, hand, urls, misses, stored, held, temps, crashes>>

InLoop(r) == where[r] = "loop" /\ next[r] <= Len(page[r])

\* "continue" after an asset that could not be had.
Without(r) ==
  /\ misses' = [misses EXCEPT ![r] = @ + 1]
  /\ next' = [next EXCEPT ![r] = @ + 1]
  /\ hand' = [hand EXCEPT ![r] = 0]
  /\ where' = [where EXCEPT ![r] = "loop"]
  /\ UNCHANGED <<app, page, spent, urls, crashes>>

Unsigned(r) ==
  /\ InLoop(r)
  /\ ~Asset(r).signed
  /\ Without(r)
  /\ UNCHANGED <<stored, held, temps>>

OverBudget(r) == app # "cli" /\ spent[r] >= RequestBudget

\* Fault: what is skipped is not told.
SkipRest_Silent(r) ==
  /\ InLoop(r)
  /\ Asset(r).signed
  /\ OverBudget(r)
  /\ where' = [where EXCEPT ![r] = "render"]
  /\ UNCHANGED <<app, page, next, spent, hand, urls, misses, stored, held, temps, crashes>>

\* The budget of the request is spent: the rest of the assets counts as one miss.
SkipRest(r) ==
  /\ InLoop(r)
  /\ Asset(r).signed
  /\ OverBudget(r)
  /\ misses' = [misses EXCEPT ![r] = @ + 1]
  /\ where' = [where EXCEPT ![r] = "render"]
  /\ UNCHANGED <<app, page, next, spent, hand, urls, stored, held, temps, crashes>>

\* The download fails, with a status, a broken connection or too many bytes.
DownloadFails(r) ==
  /\ InLoop(r)
  /\ Asset(r).signed
  /\ ~OverBudget(r)
  /\ Without(r)
  /\ UNCHANGED <<stored, held, temps>>

\* The bytes are in memory and counted.
Download(r) ==
  /\ InLoop(r)
  /\ app # "cli"
  /\ Asset(r).signed
  /\ ~OverBudget(r)
  /\ \E size \in Sizes :
       /\ size <= MaxAsset
       /\ hand' = [hand EXCEPT ![r] = size]
       /\ spent' = [spent EXCEPT ![r] = @ + size]
  /\ where' = [where EXCEPT ![r] = "keep"]
  /\ UNCHANGED <<app, page, next, urls, misses, stored, held, temps, crashes>>

\* The links of an asset; fullapp also knows its source without the query.
LinkKeys(asset) ==
  {asset.block, asset.source} \cup (IF app = "fullapp" THEN {Plain[asset.source]} ELSE {})

Linked(r) ==
  /\ urls' = [urls EXCEPT ![r] =
       [k \in DOMAIN @ \cup LinkKeys(Asset(r)) |-> IF k \in LinkKeys(Asset(r)) THEN Name(r) ELSE @[k]]]
  /\ next' = [next EXCEPT ![r] = @ + 1]
  /\ hand' = [hand EXCEPT ![r] = 0]
  /\ where' = [where EXCEPT ![r] = "loop"]
  /\ UNCHANGED <<app, page, spent, misses, crashes>>

\* server.store, under its lock: the first bytes of a name stay.
AlreadyThere(r) ==
  /\ app = "server"
  /\ where[r] = "keep"
  /\ Name(r) \in DOMAIN stored
  /\ Linked(r)
  /\ UNCHANGED <<stored, held, temps>>

\* Fault: presence is looked for before the download, not under the lock.
Store_NoRecheck(r) ==
  /\ app = "server"
  /\ where[r] = "keep"
  /\ held + hand[r] <= StoreLimit
  /\ stored' = With(stored, Name(r), Content(r, hand[r], TRUE))
  /\ held' = held + hand[r]
  /\ Linked(r)
  /\ UNCHANGED temps

Store(r) ==
  /\ app = "server"
  /\ where[r] = "keep"
  /\ Name(r) \notin DOMAIN stored
  /\ held + hand[r] <= StoreLimit
  /\ stored' = With(stored, Name(r), Content(r, hand[r], TRUE))
  /\ held' = held + hand[r]
  /\ Linked(r)
  /\ UNCHANGED temps

StoreFull(r) ==
  /\ app = "server"
  /\ where[r] = "keep"
  /\ Name(r) \notin DOMAIN stored
  /\ held + hand[r] > StoreLimit
  /\ Without(r)
  /\ UNCHANGED <<stored, held, temps>>

\* writeFileAtomic of fullapp: a temporary file, its bytes, its final name.
CreateTemp(r) ==
  /\ app = "fullapp"
  /\ where[r] = "keep"
  /\ temps' = temps \cup {<<r, crashes>>}
  /\ where' = [where EXCEPT ![r] = "rename"]
  /\ UNCHANGED <<app, page, next, spent, hand, urls, misses, stored, held, crashes>>

CreateFails(r) ==
  /\ app = "fullapp"
  /\ where[r] = "keep"
  /\ Without(r)
  /\ UNCHANGED <<stored, held, temps>>

\* Writing, closing or renaming it fails.
WriteFails(r) ==
  /\ where[r] = "rename"
  /\ temps' = temps \ {<<r, crashes>>}
  /\ Without(r)
  /\ UNCHANGED <<stored, held>>

Rename(r) ==
  /\ where[r] = "rename"
  /\ temps' = temps \ {<<r, crashes>>}
  /\ stored' = With(stored, Name(r), Content(r, hand[r], TRUE))
  /\ Linked(r)
  /\ UNCHANGED held

\* download of cli: the file is created, then filled.
Create(r) ==
  /\ app = "cli"
  /\ InLoop(r)
  /\ Asset(r).signed
  /\ stored' = With(stored, Name(r), Content(r, 0, FALSE))
  /\ where' = [where EXCEPT ![r] = "copy"]
  /\ UNCHANGED <<app, page, next, spent, hand, urls, misses, held, temps, crashes>>

\* The connection breaks; what was written stays.
CopyFails(r) ==
  /\ where[r] = "copy"
  /\ Without(r)
  /\ UNCHANGED <<stored, held, temps>>

Copied(r) ==
  /\ where[r] = "copy"
  /\ \E size \in Sizes : stored' = With(stored, Name(r), Content(r, size, TRUE))
  /\ Linked(r)
  /\ UNCHANGED <<held, temps>>

LoopEnds(r) ==
  /\ where[r] = "loop"
  /\ next[r] > Len(page[r])
  /\ where' = [where EXCEPT ![r] = "render"]
  /\ UNCHANGED <<app, page, next, spent, hand, urls, misses, stored, held, temps, crashes>>

\* BuildPagePaths and RenderPage, and the answer.
Render(r) ==
  /\ where[r] = "render"
  /\ \E end \in {"done", "failed"} : where' = [where EXCEPT ![r] = end]
  /\ UNCHANGED <<app, page, next, spent, hand, urls, misses, stored, held, temps, crashes>>

\* The program is killed and started again: the server's memory is lost, files stay.
Crash ==
  /\ crashes < MaxCrashes
  /\ crashes' = crashes + 1
  /\ where' = [r \in Requests |-> "idle"]
  /\ page' = [r \in Requests |-> <<>>]
  /\ next' = [r \in Requests |-> 1]
  /\ spent' = [r \in Requests |-> 0]
  /\ hand' = [r \in Requests |-> 0]
  /\ urls' = [r \in Requests |-> None]
  /\ misses' = [r \in Requests |-> 0]
  /\ stored' = IF app = "server" THEN None ELSE stored
  /\ held' = 0
  /\ UNCHANGED <<app, temps>>

StoreStep(r) ==
  \/ Fetch(r) \/ FetchFails(r)
  \/ Unsigned(r) \/ SkipRest(r) \/ DownloadFails(r) \/ Download(r)
  \/ AlreadyThere(r) \/ Store(r) \/ StoreFull(r)
  \/ CreateTemp(r) \/ CreateFails(r) \/ WriteFails(r) \/ Rename(r)
  \/ Create(r) \/ CopyFails(r) \/ Copied(r)
  \/ LoopEnds(r) \/ Render(r)

StoreNext == (\E r \in Requests : StoreStep(r)) \/ Crash

StoreSpec == StoreInit /\ [][StoreNext]_storeVars

--------------------------------------------------------------------------------
Total == SumFunction([name \in DOMAIN stored |-> stored[name].size])

\* The server's count of bytes is that of its map, whatever requests store the same
\* asset at the same time, and stays under the limit of the store (server:223-242);
\* a request of server or fullapp downloads at most one asset past its budget.
BudgetsKept ==
  /\ app = "server" => held = Total /\ held <= StoreLimit
  /\ \A r \in Requests : spent[r] < RequestBudget + MaxAsset

\* handleAsset: what a request for a name gets; only fullapp and server serve.
Serves(name, key) ==
  /\ name \in DOMAIN stored
  /\ stored[name].whole
  /\ LET asset == stored[name].of IN
       key \in {asset.block, asset.source, Plain[asset.source]}

\* Every link that a page has so far leads to an asset that is there, whole, and that
\* of the link's block or source, whatever other requests do and however many
\* downloads and writes broke off, before a crash too (fullapp:253-255, cli:136-139).
LinksServe ==
  \A r \in Requests : \A key \in DOMAIN urls[r] : Serves(urls[r][key], key)

\* A page of fullapp without a warning for assets (RenderWarningAssetDownloadErrors),
\* and a run of cli that reports all of its assets as downloaded, has a link for
\* each of them by block and by source.
MissesAreTold ==
  \A r \in Requests : where[r] = "done" /\ misses[r] = 0 =>
    \A i \in DOMAIN page[r] : {page[r][i].block, page[r][i].source} \subseteq DOMAIN urls[r]
================================================================================
