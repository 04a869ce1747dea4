--------------------------------- MODULE Assets --------------------------------
(***************************************************************************)
(* What FetchSnapshot does with the files of a page once its record map is *)
(* complete: AddSignedURLs asks for their URLs in one request, the map is  *)
(* normalised, CollectAssets lists the files and the list is cut.          *)
(*                                                                         *)
(* A raw identifier is a number, in the order of the strings; Norm gives   *)
(* its normal form, another such number.  A file is given by the text that *)
(* names it (module AssetURL).                                             *)
(***************************************************************************)
EXTENDS AssetURL, Lists, Walks, SequencesExt, FiniteSetsExt

CONSTANTS
  N,          \* the identifiers are 1..N
  Root,       \* the page
  Norm,       \* notionid.NormalizeBlockID
  RawTables,  \* the raw block tables
  Emojis,     \* the custom emojis, in the order of their keys
  AssetLimit  \* RequestLimits.MaxAssets

Ids == 1..N

\* A raw record: its own identifier, 0 if it has none, its type, "none" if it has
\* none, the blocks of its content, the rows of its views and the texts of its files.
Records ==
  [null : {FALSE}, id : 0..N, type : STRING, content : Seq(Ids), rows : Seq(Ids),
   texts : Seq(Texts), files : [cover : Texts, icon : Texts, main : Texts]]

ASSUME AssetsAssumption ==
  /\ N \in Nat /\ Root \in Ids /\ AssetLimit \in Nat
  /\ Norm \in [Ids -> Ids] /\ \A i \in Ids : Norm[Norm[i]] = Norm[i]
  /\ \A table \in RawTables :
       /\ DOMAIN table \subseteq Ids
       /\ \A key \in DOMAIN table : table[key] = [null |-> TRUE] \/ table[key] \in Records
  /\ Emojis \in Seq(Texts)

VARIABLES
  stage,
  raw,       \* recordMap["block"]: raw key -> record
  signed,    \* recordMap["signed_urls"], later NormalizedRecordMap.SignedURLs
  norm,      \* NormalizedRecordMap.Block
  assets,    \* Snapshot.Assets
  count,     \* PageSnapshot.AssetCount
  cut,       \* SnapshotFlags.Assets
  failed,    \* signing failed, as Snapshot.Errors tells
  stored     \* what ScrubSnapshotForStorage keeps: block -> texts, and the assets

filesVars == <<stage, raw, signed, norm, assets, count, cut, failed, stored>>

Empty == [k \in {} |-> 0]
NoURL == [is |-> "none", source |-> None, block |-> 0]
NotStored == [texts |-> Empty, assets |-> <<>>]
File(text) == [is |-> "file", source |-> text, block |-> 0]
Answer(block, source) == [is |-> "answer", source |-> source, block |-> block]

\* notionImageProxyURL
Proxy(block, text) ==
  IF Source(text) = None THEN NoURL ELSE [is |-> "proxy", source |-> Source(text), block |-> block]

FilesInit ==
  /\ stage = "sign"
  /\ raw \in RawTables
  /\ signed = Empty
  /\ norm = Empty
  /\ assets = <<>>
  /\ count = 0
  /\ cut = FALSE
  /\ failed = FALSE
  /\ stored = NotStored

--------------------------------------------------------------------------------
Media == {"image", "file", "pdf", "video", "audio"}
Bookmarks == {"bookmark", "embed", "external_object_instance"}

\* The places of a block that hold a file, besides its rich text.
Places(type) ==
  IF type = "page" THEN <<"cover", "icon">>
  ELSE IF type \in Media THEN <<"main">>
  ELSE IF type = "callout" THEN <<"icon">>
  ELSE IF type \in Bookmarks THEN <<"icon", "cover">>
  ELSE <<>>

\* A key of signed_urls: a block, a block and a role, or a file.
KeyOfBlock(id) == [block |-> id, role |-> "block", file |-> None]
KeyOfRole(id, role) == [block |-> id, role |-> role, file |-> None]
KeyOfFile(text) == [block |-> 0, role |-> "file", file |-> text]

\* Fault: the icon of a page is filed under the page, as its cover is.
BlockKeys_IconOfPage(record, place) ==
  IF record.type = "page" THEN {KeyOfBlock(record.id), KeyOfRole(record.id, place)}
  ELSE IF place = "main" THEN {KeyOfBlock(record.id)}
  ELSE {KeyOfRole(record.id, place)}

\* The keys by which the URL of a place is found again.
BlockKeys(record, place) ==
  IF record.type = "page" /\ place = "cover"
  THEN {KeyOfBlock(record.id), KeyOfRole(record.id, "cover")}
  ELSE IF place = "main" THEN {KeyOfBlock(record.id)}
  ELSE {KeyOfRole(record.id, place)}

\* A file that AddSignedURLs comes across: its block, its text and the keys it is
\* wanted under, its source and its text among them.
Want(record, text, keys) ==
  [block |-> record.id, source |-> SigningSource(text),
   keys |-> keys \cup {KeyOfFile(SigningSource(text)), KeyOfFile(text)}]

Wants(record) ==
  [i \in DOMAIN Places(record.type) |->
     LET place == Places(record.type)[i]
     IN  Want(record, record.files[place], BlockKeys(record, place))]
  \o [i \in DOMAIN record.texts |-> Want(record, record.texts[i], {})]

\* All of them in the order of the blocks, but what has no block and what is not signed.
Wanted ==
  LET order == Ascending(DOMAIN raw)
      all == FlattenSeq([i \in DOMAIN order |->
                           IF raw[order[i]].null THEN <<>> ELSE Wants(raw[order[i]])])
  IN  Select(all, LAMBDA w : w.block # 0 /\ w.source # None)

\* addTarget: one request for every block and source, with all the keys it is for.
RequestOf(w) == [block |-> w.block, source |-> w.source]
Targets ==
  LET wanted == Wanted
      requests == Unique([i \in DOMAIN wanted |-> RequestOf(wanted[i])])
  IN  [i \in DOMAIN requests |->
         [block |-> requests[i].block, source |-> requests[i].source,
          keys |-> UNION {w.keys : w \in {v \in ToSet(wanted) : RequestOf(v) = requests[i]}}]]

\* GetSignedFileUrls fails, or its answer has not one URL for every request.
SignFails ==
  /\ stage = "sign"
  /\ Targets # <<>>
  /\ stage' = "normalize"
  /\ failed' = TRUE
  /\ UNCHANGED <<raw, signed, norm, assets, count, cut, stored>>

\* The URLs are assigned by their position; one that is empty is left out, and a key
\* of two targets gets the URL of the later one.
SignFiles ==
  /\ stage = "sign"
  /\ stage' = "normalize"
  /\ LET targets == Targets IN
     \E some \in SUBSET DOMAIN targets :
       signed' = [k \in UNION {targets[i].keys : i \in some} |->
                    LET i == Max({j \in some : k \in targets[j].keys})
                    IN  Answer(targets[i].block, targets[i].source)]
  /\ UNCHANGED <<raw, norm, assets, count, cut, failed, stored>>

--------------------------------------------------------------------------------
\* The identifier of a record, which its key stands in for.
IdOf(key) == Norm[IF raw[key].id = 0 THEN key ELSE raw[key].id]

\* normalizeMap and pruneDanglingBlocks: of the records of one identifier the last
\* one counts, and if that one has no type the block is gone.
Counted(id) == Max({key \in DOMAIN raw : ~raw[key].null /\ IdOf(key) = id})
Normal ==
  LET ids == {IdOf(key) : key \in {k \in DOMAIN raw : ~raw[k].null}}
  IN  [id \in {i \in ids : raw[Counted(i)].type # "none"} |-> [raw[Counted(id)] EXCEPT !.id = id]]

\* normalizeAssetKey; the last of the keys that meet counts.
NormalKey(k) == IF k.block = 0 THEN k ELSE [k EXCEPT !.block = Norm[k.block]]
NormalSigned ==
  [k \in {NormalKey(j) : j \in DOMAIN signed} |->
     LET j == CHOOSE j \in DOMAIN signed :
                /\ NormalKey(j) = k
                /\ \A i \in DOMAIN signed : NormalKey(i) = k => i.block <= j.block
     IN  signed[j]]

Normalize ==
  /\ stage = "normalize"
  /\ stage' = "collect"
  /\ norm' = Normal
  /\ signed' = NormalSigned
  /\ UNCHANGED <<raw, assets, count, cut, failed, stored>>

--------------------------------------------------------------------------------
\* PageContentIDs: the blocks reached from the page, each before its children.
PageContent == Visited(<<Root>>, [id \in DOMAIN norm |-> norm[id].content])

\* CollectionQueryBlockIDs: the rows of the views that the page shows.
QueryRows ==
  LET content == PageContent IN FlattenSeq([i \in DOMAIN content |-> norm[content[i]].rows])

\* Fault: the rows are passed over, for the views list them.
Others_NoRows == Select(Ascending(DOMAIN norm), LAMBDA id : id \notin ToSet(QueryRows))

\* The blocks in the order of their keys, all rows in place of the first of them.
Others ==
  LET ids == Ascending(DOMAIN norm)
      rows == Select(QueryRows, LAMBDA id : id \in DOMAIN norm)
      listed == ToSet(rows)
  IN  FlattenSeq([i \in DOMAIN ids |->
        IF ids[i] \notin listed THEN <<ids[i]>>
        ELSE IF \E j \in DOMAIN ids : j < i /\ ids[j] \in listed THEN <<>>
        ELSE rows])

OrderedBlocks == Unique(PageContent \o Others)

URLOf(key) == IF key \in DOMAIN signed THEN signed[key] ELSE NoURL
First(a, b) == IF a # NoURL THEN a ELSE b

Asset(id, role, text, url) == [block |-> id, role |-> role, source |-> text, url |-> url]

\* The URL that a block has for one of its places before the last fallbacks.
PlaceURL(block, place) ==
  LET file == Hosted(block.files[place])
      ofRole == URLOf(KeyOfRole(block.id, place))
  IN  IF place = "main" \/ (block.type = "page" /\ place = "cover")
      THEN URLOf(KeyOfBlock(block.id))
      ELSE IF block.type = "page" THEN First(ofRole, Proxy(block.id, file))
      ELSE First(First(ofRole, URLOf(KeyOfFile(file))), Proxy(block.id, file))

PlaceAssets(block) ==
  LET all == [i \in DOMAIN Places(block.type) |->
                LET place == Places(block.type)[i]
                    text == Hosted(block.files[place])
                IN  Asset(block.id, place, text, PlaceURL(block, place))]
  IN  Select(all, LAMBDA a : a.source # None \/ (a.role = "main" /\ a.url # NoURL))

\* propertyFileAssets
TextAssets(block) ==
  LET texts == Unique(Select([i \in DOMAIN block.texts |-> Hosted(block.texts[i])],
                             LAMBDA text : text # None))
  IN  [i \in DOMAIN texts |-> Asset(block.id, "text", texts[i], URLOf(KeyOfFile(texts[i])))]

BlockAssets(block) ==
  IF block.type = "page" THEN TextAssets(block) \o PlaceAssets(block)
  ELSE PlaceAssets(block) \o TextAssets(block)

EmojiAssets ==
  LET hosted == Select([i \in DOMAIN Emojis |-> Hosted(Emojis[i])], LAMBDA text : text # None)
  IN  [i \in DOMAIN hosted |-> Asset(0, "emoji", hosted[i], URLOf(KeyOfFile(hosted[i])))]

\* The last fallbacks: the file itself, and for a file that is no URL the proxy, which
\* needs a block.
Finished(a) ==
  LET own == IF a.url # NoURL THEN a.url
             ELSE IF IsAttachment(a.source) THEN NoURL ELSE File(a.source)
      url == IF own = NoURL /\ a.block \in DOMAIN norm THEN Proxy(a.block, a.source) ELSE own
  IN  [a EXCEPT !.source = Source(a.source), !.url = url]

CollectAssets ==
  LET order == OrderedBlocks
      all == FlattenSeq([i \in DOMAIN order |-> BlockAssets(norm[order[i]])]) \o EmojiAssets
  IN  [i \in DOMAIN all |-> Finished(all[i])]

Collect ==
  /\ stage = "collect"
  /\ stage' = "store"
  /\ LET all == CollectAssets IN
     /\ count' = Len(all)
     /\ assets' = SubSeq(all, 1, IF count' < AssetLimit THEN count' ELSE AssetLimit)
  /\ cut' = (count' > Len(assets'))
  /\ UNCHANGED <<raw, signed, norm, failed, stored>>

\* ScrubSnapshotForStorage of the snapshot.
TextsOf(block) == {block.files[p] : p \in ToSet(Places(block.type))} \cup ToSet(block.texts)
Store ==
  /\ stage = "store"
  /\ stage' = "done"
  /\ stored' = [texts |-> [id \in DOMAIN norm |-> {ForStorage(t) : t \in TextsOf(norm[id])}],
                assets |-> [i \in DOMAIN assets |->
                              [assets[i] EXCEPT !.source = ForStorage(@), !.url = NoURL]]]
  /\ UNCHANGED <<raw, signed, norm, assets, count, cut, failed>>

FilesDone == stage = "done" /\ UNCHANGED filesVars

FilesNext == SignFails \/ SignFiles \/ Normalize \/ Collect \/ Store \/ FilesDone

FilesSpec == FilesInit /\ [][FilesNext]_filesVars

--------------------------------------------------------------------------------
\* The raw records that become one block.
Spellings(id) == {key \in DOMAIN raw : ~raw[key].null /\ IdOf(key) = id}

\* No file is served under the URL of another one: a URL from the answer is that of a
\* request for the same file and, where a block's own key led to it, for the same
\* block.  A block with two raw records is left out: the record that counts may find
\* the URL of the other (client.go:685-694, assets.go:164-201).
SignedForItself ==
  \A i \in DOMAIN assets :
    LET a == assets[i] IN
      a.url.is = "answer" /\ (a.block = 0 \/ Cardinality(Spellings(a.block)) = 1) =>
        /\ a.url.source = a.source
        /\ (\/ a.role = "main"
            \/ (a.role \in {"cover", "icon"} /\ norm[a.block].type = "page")) =>
             Norm[a.url.block] = a.block

\* What is stored holds no credentials and yet the same files (scrub.go:11-16).
StoredWithoutCredentials ==
  stage = "done" =>
    /\ \A id \in DOMAIN norm :
         /\ \A t \in stored.texts[id] : ~Signed(t)
         /\ {Source(t) : t \in stored.texts[id]} = {Source(t) : t \in TextsOf(norm[id])}
    /\ \A i \in DOMAIN assets :
         /\ ~Signed(stored.assets[i].source)
         /\ stored.assets[i].source = assets[i].source

\* A file keeps its identity, in its URL and in storage.
FilesKeepTheirIdentity == SignedForItself /\ StoredWithoutCredentials

\* What the page holds: the files of its blocks.
FilesOf(id) ==
  LET block == norm[id]
      places == {p \in ToSet(Places(block.type)) : Hosted(block.files[p]) # None}
  IN  {<<id, p, Source(block.files[p])>> : p \in places}
      \cup {<<id, "text", Source(t)>> : t \in {u \in ToSet(block.texts) : Hosted(u) # None}}

\* Every file of every block is among the assets or the flag says that some are not;
\* none of a block of the page's own content gives way to one of another block
\* (assets.go:20-24, types.go SnapshotFlags).
ContentSurvivesTheCut ==
  stage \in {"store", "done"} =>
    LET kept == {<<assets[i].block, assets[i].role, assets[i].source>> : i \in DOMAIN assets}
        content == UNION {FilesOf(id) : id \in ToSet(PageContent)}
        others == UNION {FilesOf(id) : id \in DOMAIN norm}
    IN  /\ ~cut => others \subseteq kept
        /\ content \subseteq kept \/ \A i \in DOMAIN assets : assets[i].block \in ToSet(PageContent)
================================================================================
