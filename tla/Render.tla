--------------------------------- MODULE Render --------------------------------
(***************************************************************************)
(* notion: RenderPage, the walk over the blocks of a page.  The content of *)
(* blocks is a graph that may have cycles and shared parts; a depth guard  *)
(* and a budget of block renders, shared by the whole walk, bound what it  *)
(* costs.                                                                  *)
(*                                                                         *)
(* The recursion of the code is a stack of work: the activations of        *)
(* renderBlockList, renderList and renderTabBlock that are not finished,   *)
(* and the end tags their callers have still to write.  Of a block we keep *)
(* what its type does with the blocks below it.                            *)
(***************************************************************************)
EXTENDS Integers, SequencesExt, FiniteSets, Lists

CONSTANTS
  Id,         \* identifiers of blocks
  Root,       \* RenderInput.PageID
  Pages,      \* the record maps to render, each a function from identifiers to blocks
  MaxDepth,   \* 32
  Factor,     \* 8 \  blockRenderBudget
  Slack,      \* 1024 /
  MaxBlocks,  \* RenderInput.MaxBlocks, resolved
  MaxOutput   \* RenderInput.MaxOutputBytes, resolved, in elements

\* What becomes of the blocks below a block:
Lists   == {"bulleted", "numbered"}    \* an item of a list of its type, around them
Wraps   == {"wrap", "reference", "tabs"} \* an element around them, around those of the
                                       \* block it refers to, or around panels for the tabs
Kinds   == Lists \union Wraps \union
           {"flat",                    \* an element, then the blocks below it
            "leaf"}                    \* an element; they are not shown

ASSUME RenderAssumption ==
  /\ MaxDepth \in Nat /\ Factor \in Nat \ {0} /\ Slack \in Nat
  /\ MaxBlocks \in Nat /\ MaxOutput \in Nat /\ Root \in Id
  /\ \A p \in Pages :
       /\ IsFiniteSet(DOMAIN p)
       /\ \A id \in DOMAIN p : p[id].kind \in Kinds /\ p[id].content \in Seq(Id)

VARIABLES
  page,     \* recordMap.Block
  result,   \* "checking" and "rendering", then what RenderPage returns
  budget,   \* renderBudget.remaining
  work,     \* what is left to do, the innermost call first
  out,      \* the elements written, in order
  open,     \* those of them that are not closed, innermost last
  refused   \* history: a block was left out for want of budget

vars == <<page, result, budget, work, out, open, refused>>

\* What is written: a block or the list or the panel around blocks, named after
\* its first item or its tab.
Element(is, id, d) == [is |-> is, id |-> id, depth |-> d]
Body == Element("page", Root, 0)

Blocks(ids, d) == [do |-> "blocks", ids |-> ids, depth |-> d, elem |-> Body]
Items(ids, d)  == [do |-> "items", ids |-> ids, depth |-> d, elem |-> Body]
Panels(ids, d) == [do |-> "panels", ids |-> ids, depth |-> d, elem |-> Body]
Close(e)       == [do |-> "close", ids |-> <<>>, depth |-> 0, elem |-> e]

\* A fault: the budget forgets how large the page is.
blockRenderBudget_Fixed(p) == Factor + Slack

blockRenderBudget(p) == Factor * Cardinality(DOMAIN p) + Slack

Exists(id) == id \in DOMAIN page
Kind(id)   == page[id].kind

\* A fault: lists of another type are taken for more of this one.
IsGroup_AnyList(ids, n) ==
  /\ \A i \in 1..n : Exists(ids[i]) /\ Kind(ids[i]) \in Lists
  /\ n < Len(ids) => ~(Exists(ids[n + 1]) /\ Kind(ids[n + 1]) \in Lists)

\* A list takes the ids from the first on for as long as they have its type.
IsGroup(ids, n) ==
  /\ \A i \in 1..n : Exists(ids[i]) /\ Kind(ids[i]) = Kind(ids[1])
  /\ n < Len(ids) => ~(Exists(ids[n + 1]) /\ Kind(ids[n + 1]) = Kind(ids[1]))

\* What renderBlock does about the blocks below block id.
Below(id, d) ==
  CASE Kind(id) = "leaf" -> <<>>
    [] Kind(id) = "reference" ->
         IF Exists(page[id].target) THEN <<Blocks(page[page[id].target].content, d + 1)>>
                                    ELSE <<>>
    [] Kind(id) = "tabs" -> <<Panels(page[id].content, d)>>
    [] OTHER -> <<Blocks(page[id].content, d + 1)>>
--------------------------------------------------------------------------------
Init ==
  /\ page \in Pages
  /\ result = "checking"
  /\ budget = 0
  /\ work = <<>>
  /\ out = <<>>
  /\ open = <<>>
  /\ refused = FALSE

\* The limit on the blocks, and the page itself.
Accepted == Cardinality(DOMAIN page) <= MaxBlocks /\ Exists(Root)

Reject ==
  /\ result = "checking"
  /\ ~Accepted
  /\ result' = "error"
  /\ UNCHANGED <<page, budget, work, out, open, refused>>

Start ==
  /\ result = "checking"
  /\ Accepted
  /\ result' = "rendering"
  /\ budget' = blockRenderBudget(page)
  /\ out' = <<Body>>
  /\ open' = <<Body>>
  /\ work' = <<Blocks(page[Root].content, 0), Close(Body)>>
  /\ UNCHANGED <<page, refused>>

\* The call on top of the stack, and the stack when it has dealt with n ids.
Top     == Head(work)
Rest(n) == <<[Top EXCEPT !.ids = SubSeq(@, n + 1, Len(@))]>> \o Tail(work)

Doing(what) == result = "rendering" /\ work # <<>> /\ Top.do = what

\* A call has no ids left, or renderBlockList was called too deep.
Return ==
  /\ result = "rendering" /\ work # <<>>
  /\ Top.do # "close"
  /\ \/ Top.ids = <<>>
     \/ Top.do = "blocks" /\ Top.depth > MaxDepth
  /\ work' = Tail(work)
  /\ UNCHANGED <<page, result, budget, out, open, refused>>

\* renderBlockList goes on with its next id.
NextId == Doing("blocks") /\ Top.ids # <<>> /\ Top.depth <= MaxDepth

\* Identifiers without a block are passed over, by renderBlockList and by
\* renderTabBlock.
SkipMissing ==
  /\ NextId \/ (Doing("panels") /\ Top.ids # <<>>)
  /\ ~Exists(Head(Top.ids))
  /\ work' = Rest(1)
  /\ UNCHANGED <<page, result, budget, out, open, refused>>

Write(e) == out' = Append(out, e)
Begin(e) == Write(e) /\ open' = Append(open, e)

\* renderList around the items that follow each other.
OpenList ==
  /\ NextId
  /\ Exists(Head(Top.ids)) /\ Kind(Head(Top.ids)) \in Lists
  /\ LET e == Element("list", Head(Top.ids), Top.depth) IN
     /\ \E n \in 1..Len(Top.ids) :
          /\ IsGroup(Top.ids, n)
          /\ work' = <<Items(SubSeq(Top.ids, 1, n), Top.depth), Close(e)>> \o Rest(n)
     /\ Begin(e)
  /\ UNCHANGED <<page, result, budget, refused>>

\* spendRenderBudget, when it says yes.
Spend == budget > 0 /\ budget' = budget - 1

\* A fault: the items of lists cost nothing.
RenderItem_Free ==
  /\ Doing("items") /\ Top.ids # <<>>
  /\ LET id == Head(Top.ids)
         e  == Element("block", id, Top.depth)
     IN /\ work' = <<Blocks(page[id].content, Top.depth + 1), Close(e)>> \o Rest(1)
        /\ Begin(e)
  /\ UNCHANGED <<page, result, budget, refused>>

RenderItem ==
  /\ Doing("items") /\ Top.ids # <<>>
  /\ Spend
  /\ LET id == Head(Top.ids)
         e  == Element("block", id, Top.depth)
     IN /\ work' = <<Blocks(page[id].content, Top.depth + 1), Close(e)>> \o Rest(1)
        /\ Begin(e)
  /\ UNCHANGED <<page, result, refused>>

\* A fault: the list is left where the budget ends, without its end tag.
RefuseItem_NoEndTag ==
  /\ Doing("items") /\ Top.ids # <<>>
  /\ budget = 0
  /\ work' = Tail(Tail(work))
  /\ refused' = TRUE
  /\ UNCHANGED <<page, result, budget, out, open>>

\* The list ends where the budget does.
RefuseItem ==
  /\ Doing("items") /\ Top.ids # <<>>
  /\ budget = 0
  /\ work' = Tail(work)
  /\ refused' = TRUE
  /\ UNCHANGED <<page, result, budget, out, open>>

NextBlock == NextId /\ Exists(Head(Top.ids)) /\ Kind(Head(Top.ids)) \notin Lists

\* renderBlock.  Its case for the items of lists is never reached.
RenderBlock ==
  /\ NextBlock
  /\ Spend
  /\ LET id == Head(Top.ids)
         e  == Element("block", id, Top.depth)
     IN IF Kind(id) \in Wraps
        THEN /\ work' = Below(id, Top.depth) \o <<Close(e)>> \o Rest(1)
             /\ Begin(e)
        ELSE /\ work' = Below(id, Top.depth) \o Rest(1)
             /\ Write(e)
             /\ UNCHANGED open
  /\ UNCHANGED <<page, result, refused>>

\* Without budget renderBlock returns, and renderBlockList tries the next one.
RefuseBlock ==
  /\ NextBlock
  /\ budget = 0
  /\ work' = Rest(1)
  /\ refused' = TRUE
  /\ UNCHANGED <<page, result, budget, out, open>>

\* A fault: what is below a tab is as deep as the tab.
OpenPanel_SameDepth ==
  /\ Doing("panels") /\ Top.ids # <<>>
  /\ Exists(Head(Top.ids))
  /\ LET id == Head(Top.ids)
         e  == Element("panel", id, Top.depth)
     IN /\ work' = <<Blocks(page[id].content, Top.depth), Close(e)>> \o Rest(1)
        /\ Begin(e)
  /\ UNCHANGED <<page, result, budget, refused>>

\* A tab is not a block of its own to the budget: its panel shows what is below it.
OpenPanel ==
  /\ Doing("panels") /\ Top.ids # <<>>
  /\ Exists(Head(Top.ids))
  /\ LET id == Head(Top.ids)
         e  == Element("panel", id, Top.depth)
     IN /\ work' = <<Blocks(page[id].content, Top.depth + 1), Close(e)>> \o Rest(1)
        /\ Begin(e)
  /\ UNCHANGED <<page, result, budget, refused>>

\* A caller writes the end tag of the element it began.
EndElement ==
  /\ Doing("close")
  /\ open' = SubSeq(open, 1, Len(open) - 1)
  /\ work' = Tail(work)
  /\ UNCHANGED <<page, result, budget, out, refused>>

\* The page is returned if it is not too large.
Finish ==
  /\ result = "rendering"
  /\ work = <<>>
  /\ result' = IF Len(out) > MaxOutput THEN "error" ELSE "html"
  /\ UNCHANGED <<page, budget, work, out, open, refused>>

Walk == \/ Return \/ SkipMissing \/ OpenList \/ RenderItem \/ RefuseItem
        \/ RenderBlock \/ RefuseBlock \/ OpenPanel \/ EndElement
Next == Reject \/ Start \/ Walk \/ Finish

\* One goroutine runs the walk; nothing it does blocks.
Spec == Init /\ [][Next]_vars /\ WF_vars(Next)
--------------------------------------------------------------------------------
\* What the page is to show, read off the content of the page.  Of the blocks ids at
\* depth d: where a list starts, the blocks, and below[id] below block id.
Starts(p, ids, i) ==
  /\ p[ids[i]].kind \in Lists
  /\ ~\E j \in {i - 1} \intersect DOMAIN ids :
        ids[j] \in DOMAIN p /\ p[ids[j]].kind = p[ids[i]].kind

Piece(p, ids, i, d, below) ==
  IF ids[i] \notin DOMAIN p THEN <<>>
  ELSE (IF Starts(p, ids, i) THEN <<Element("list", ids[i], d)>> ELSE <<>>)
       \o <<Element("block", ids[i], d)>> \o below[ids[i]]

Laid(p, ids, d, below) ==
  IF d > MaxDepth THEN <<>> ELSE FlattenSeq([i \in DOMAIN ids |-> Piece(p, ids, i, d, below)])

\* Tab id at depth d, below[x] being what is below block x one level down.
Panel(p, id, d, below) ==
  IF id \notin DOMAIN p THEN <<>>
  ELSE <<Element("panel", id, d)>> \o Laid(p, p[id].content, d + 1, below)

\* What is below each block at depth d, given what is below those one level down;
\* and at each depth, from the guard upwards.
Beneath(p, d, below) ==
  [id \in DOMAIN p |->
     CASE p[id].kind = "leaf" -> <<>>
       [] p[id].kind = "reference" ->
            IF p[id].target \in DOMAIN p THEN Laid(p, p[p[id].target].content, d + 1, below)
                                         ELSE <<>>
       [] p[id].kind = "tabs" ->
            FlattenSeq([i \in DOMAIN p[id].content |-> Panel(p, p[id].content[i], d, below)])
       [] OTHER -> Laid(p, p[id].content, d + 1, below)]

Under(p) == LET U[d \in 0..MaxDepth] == Beneath(p, d, U[d + 1]) IN U

Document(p) == <<Body>> \o Laid(p, p[Root].content, 0, Under(p)[0])

IsBlock(e) == e.is = "block"

\* The type invariant.
TypeOK ==
  /\ result \in {"checking", "rendering", "html", "error"}
  /\ budget \in Nat
  /\ refused \in BOOLEAN
  /\ \A i \in DOMAIN work : work[i].do \in {"blocks", "items", "panels", "close"}

\* The page that is returned is the whole document, or, if blocks were refused, the
\* beginning of it: nothing is shown after a block that is left out.
WholeOrCut ==
  result = "html" =>
    IF refused
    THEN IsPrefix(Select(out, IsBlock), Select(Document(page), IsBlock))
    ELSE out = Document(page)

\* An end tag is that of the element begun last, and none is missing at the end,
\* wherever the budget runs out.
WellFormed ==
  /\ result = "rendering" /\ work # <<>> /\ Top.do = "close" =>
       open # <<>> /\ open[Len(open)] = Top.elem
  /\ result \in {"html", "error"} => open = <<>>

\* The calls of renderBlockList inside each other are ever deeper, so that there are
\* at most MaxDepth + 2 of them, whatever cycles the content has.
NestingBounded ==
  \A i, j \in DOMAIN work :
    i < j /\ work[i].do = "blocks" /\ work[j].do = "blocks" =>
      work[j].depth < work[i].depth /\ work[i].depth <= MaxDepth + 1

Renders == {i \in DOMAIN out : IsBlock(out[i])}

RendersBounded == out # <<>> => Cardinality(Renders) <= blockRenderBudget(page)

\* The number of blocks below block id, of tabs and what is below them, and of what
\* is shown below block id.
Children(p, id) == IF id \in DOMAIN p THEN Len(p[id].content) ELSE 0
BelowTab(p, id) == IF id \in DOMAIN p THEN 1 + Len(p[id].content) ELSE 0
BelowTabs(p, ids) == SumFunction([k \in DOMAIN ids |-> BelowTab(p, ids[k])])
Fan(p, id) ==
  IF p[id].kind = "leaf" THEN 0
  ELSE IF p[id].kind = "reference" THEN Children(p, p[id].target)
  ELSE IF p[id].kind = "tabs" THEN BelowTabs(p, p[id].content)
  ELSE Children(p, id)

\* What is written: the page, the blocks, and for each block that is below one of them
\* a list at most, and for each tab a panel.
ElementsBounded ==
  out # <<>> =>
    Len(out) <= 1 + Cardinality(Renders) + Children(page, Root)
                  + SumFunction([i \in Renders |-> Fan(page, out[i].id)])

\* What a page costs is bounded whatever cycles and repetitions its content has: the
\* calls inside each other, the blocks rendered, and the elements written.
CostBounded == NestingBounded /\ RendersBounded /\ ElementsBounded

\* Every block is the content of one block at most, and the page of none.
TreePage(p) ==
  /\ \A id \in DOMAIN p : p[id].kind # "reference"
  /\ \A b, c \in DOMAIN p : \A i \in DOMAIN p[b].content, j \in DOMAIN p[c].content :
       /\ p[b].content[i] # Root
       /\ p[b].content[i] = p[c].content[j] => b = c /\ i = j

\* A page without cycles and repetitions never meets the budget.
OrdinaryPagesFit == TreePage(page) => ~refused

================================================================================
