------------------------------ MODULE MC_Snapshot ------------------------------
(***************************************************************************)
(* FetchSnapshot in two parts, side by side: the pipeline (Snapshot) and   *)
(* what it does with the files of a page (Assets).  A behaviour is one of  *)
(* either part.                                                            *)
(*                                                                         *)
(* Pipeline: block 1 shows two views, block 2 another one; 3 and 4 are     *)
(* rows, and a query that lists both is at the row limit.  Two calls are   *)
(* allowed.                                                                *)
(*                                                                         *)
(* Files: page 1 shows the picture 2 and the database 3, whose row 4 is a  *)
(* page or a bookmark; 5 is another spelling of 2.  The files are an       *)
(* attachment, an expired link to a file, that link through a proxy, a URL *)
(* without an identity, an icon of Notion's and a file of another site.    *)
(***************************************************************************)
EXTENDS Snapshot, Assets

CONSTANTS p, q, s

MCPairs == {p, q, s}
MCViewsOf == <<<<p, q>>, <<s>>, <<>>, <<>>>>

MCTable(present) == [k \in 1..4 |-> IF k \in present THEN "there" ELSE "none"]
Query(is, rows) == [is |-> is, rows |-> rows, extras |-> {}]
MCDemands == [v \in MCPairs |-> {}]
MCStarts ==
  {[blocks |-> MCTable(B), views |-> {p, q},
    query |-> [v \in MCPairs |-> IF v = p THEN first ELSE Query("absent", {})]] :
     B \in {{1, 3, 4}, {3, 4}},
     first \in {Query("absent", {}), Query("map", {3}), Query("map", {3, 4})}}

MCResults ==
  {[is |-> "absent", rows |-> {}, extras |-> {}, keys |-> {}],
   [is |-> "map", rows |-> {3}, extras |-> {"groups"}, keys |-> {"list"}],
   [is |-> "map", rows |-> {3, 4}, extras |-> {"groups"}, keys |-> {"list"}]}
MCAnswers ==
  [blocks : {MCTable(B) : B \in {{}, {2}, {1, 2}}}, views : {{s}}, result : MCResults]
MCResponses ==
  [arrives : BOOLEAN, tooBig : BOOLEAN, status : {200, 302, 401, 404, 422, 429, 503},
   json : BOOLEAN, body : {"ok", "syntax", "trailing", "deep", "wide"},
   retry : BOOLEAN, says : BOOLEAN]

--------------------------------------------------------------------------------
MCNorm == <<1, 2, 3, 4, 2>>

Att == Plain("attachment", "a")
AttURL == <<Layer("file", "a", TRUE)>>
Old == <<Layer("legacy", "b", TRUE)>>
Leg == Plain("legacy", "b")
Wrapped(t) == <<Layer("proxy", "", FALSE)>> \o t
Opaque == <<Layer("opaque", "c", TRUE)>>
Icon == Plain("icon", "i")
Ext == Plain("external", "x")
Deep == [i \in 1..7 |-> IF i < 7 THEN Wrapped(<<>>)[1] ELSE Old[1]]
MCEmojis == <<Icon, Leg, Ext>>

Rec(id, type, content, rows, texts, cover, icon, main) ==
  [id |-> id, null |-> FALSE, type |-> type, content |-> content, rows |-> rows,
   texts |-> texts, files |-> [cover |-> cover, icon |-> icon, main |-> main]]
Null == [null |-> TRUE]

Pages == {Rec(1, "page", c, <<>>, <<>>, cover, icon, None) :
            c \in {<<2, 3>>, <<3, 1>>}, cover \in {Att, Wrapped(Old), Ext}, icon \in {Att, Leg, Icon}}
Bare == Rec(0, "page", <<2, 3>>, <<>>, <<>>, Att, Opaque, None)
Pictures == {Rec(2, "image", <<>>, <<>>, <<>>, None, None, m) : m \in {Att, Old}}
Databases == {Rec(3, "collection_view", <<>>, rows, <<>>, None, None, None) : rows \in {<<>>, <<4, 2>>}}
Rows == {Rec(4, "page", <<>>, <<>>, <<Leg, Old, Deep>>, None, Att, None),
         Rec(4, "bookmark", <<>>, <<>>, <<AttURL>>, Leg, Icon, None)}
Seconds == {Null, Rec(5, "none", <<>>, <<>>, <<>>, None, None, None),
            Rec(5, "image", <<>>, <<>>, <<>>, None, None, Leg)}

MCTables ==
  {<<pg, i, d, r>> : pg \in Pages \cup {Bare}, i \in Pictures, d \in Databases, r \in Rows}
  \cup {<<pg, i, d, r, sec>> :
          pg \in {x \in Pages : x.files.cover = Att /\ x.files.icon = Leg},
          i \in Pictures, d \in Databases, r \in Rows, sec \in Seconds}

--------------------------------------------------------------------------------
\* The part that is not at work stays in its one state "other".
PipelineRests ==
  /\ phase = "other" /\ outcome = "none" /\ limitReached = FALSE /\ errors = {}
  /\ found = 0 /\ kept = 0 /\ truncated = NotTruncated /\ cause = NoFailure
  /\ told = Told(0, "none", FALSE)
  /\ Init /\ ~expired /\ blocks = MCTable({3, 4}) /\ query[p].is = "absent"
FilesRest ==
  /\ stage = "other" /\ raw = <<>> /\ signed = Empty /\ norm = Empty /\ assets = <<>>
  /\ count = 0 /\ cut = FALSE /\ failed = FALSE /\ stored = NotStored

BothInit == (FetchInit /\ FilesRest) \/ (FilesInit /\ PipelineRests)
BothNext ==
  \/ phase # "other" /\ FetchNext /\ UNCHANGED filesVars
  \/ phase = "other" /\ FilesNext /\ UNCHANGED fetchVars
BothSpec == BothInit /\ [][BothNext]_<<fetchVars, filesVars>>
================================================================================
