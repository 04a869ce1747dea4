---------------------------------- MODULE Links --------------------------------
(***************************************************************************)
(* notion: the links of a page to other pages.  BuildPagePaths tells which *)
(* pages may be linked to, DirectSubpageLinks lists the children of the    *)
(* page, and the renderer turns what a block says into anchors.            *)
(*                                                                         *)
(* A block is [type, pointer, picture, parent, content, parts]: the page   *)
(* it is an alias of, the target of its image_hyperlink, and its rich text *)
(* as a sequence of parts, each a sequence of decorations [kind, to].  A   *)
(* target is a page, Outside (any other URL) or Unusable.                  *)
(***************************************************************************)
EXTENDS Integers, Lists, Walks, SequencesExt, FiniteSets

CONSTANTS
  PageIds,           \* normalised identifiers
  Home,              \* the page
  Outside, Unusable,
  BlockTables        \* the normalised block tables to look at

Targets == PageIds \cup {Outside, Unusable}

\* A decoration that can be a link or take the place of the text, or any other ("b"); "u"
\* is a mention that never has a link.
Decorations == [kind : {"a", "lm", "p", "mention", "u", "b"}, to : Targets]

\* A block of the record map: a page, an alias, an image or any other ("text").
LinkBlocks ==
  [type : {"page", "alias", "image", "text"}, pointer : PageIds \cup {Unusable}, picture : Targets,
   parent : PageIds \cup {Unusable}, content : Seq(PageIds), parts : Seq(Seq(Decorations))]

ASSUME LinksAssumption ==
  /\ Home \in PageIds
  /\ Outside \notin PageIds /\ Unusable \notin PageIds
  /\ \A t \in BlockTables :
       /\ DOMAIN t \subseteq PageIds /\ IsFiniteSet(DOMAIN t)
       /\ t \in [DOMAIN t -> LinkBlocks]

VARIABLES
  linkStage,
  table,    \* recordMap.Block
  paths,    \* what BuildPagePaths returns, by its keys
  links,    \* what DirectSubpageLinks returns
  anchors   \* what is rendered: block -> one text for each link it has

linkVars == <<linkStage, table, paths, links, anchors>>

BlockIds == DOMAIN table
PageTypes == {"page", "alias"}
PagesOf(targets) == targets \cap PageIds

\* linkedPageID
Linked(id) == IF table[id].type = "page" THEN id ELSE table[id].pointer

\* The decorations whose target may be a page.
LinkKinds == {"a", "lm", "p", "mention"}

\* Fault: the plain link is forgotten.
Candidates_Mentions(part) ==
  Select(part, LAMBDA deco : deco.kind \in {"p", "mention"} /\ deco.to \in PageIds)

\* decorationSubpageLinkCandidates of one part.
Candidates(part) == Select(part, LAMBDA deco : deco.kind \in LinkKinds /\ deco.to \in PageIds)

\* richTextSubpageLinkCandidates: the pages that the text of a block names, in order.
TextPages(id) ==
  LET all == FlattenSeq([i \in DOMAIN table[id].parts |-> Candidates(table[id].parts[i])])
  IN  [i \in DOMAIN all |-> all[i].to]

LinksInit ==
  /\ linkStage = "paths"
  /\ table \in BlockTables
  /\ paths = {}
  /\ links = <<>>
  /\ anchors = <<>>

NoRoot ==
  /\ linkStage = "paths"
  /\ Home \notin BlockIds
  /\ linkStage' = "error"
  /\ UNCHANGED <<table, paths, links, anchors>>

\* Pages, what is linked to them, and what the texts name.
LinkablePages ==
  {Home} \cup
    UNION {PagesOf({Linked(id), table[id].picture} \cup ToSet(TextPages(id))) : id \in BlockIds}

BuildPagePaths ==
  /\ linkStage = "paths"
  /\ Home \in BlockIds
  /\ linkStage' = "links"
  /\ paths' = LinkablePages
  /\ UNCHANGED <<table, links, anchors>>

--------------------------------------------------------------------------------
\* Pages named in the text count as children if they are not known to have another
\* parent.
Child(id) ==
  /\ id \in BlockIds
  /\ table[id].type = "page"
  /\ table[id].parent \in {Home, Unusable}

\* What a block of the page adds to the list, and the blocks below it that are walked.
LinksOf(id) ==
  IF table[id].type \in PageTypes THEN <<Linked(id)>> ELSE Select(TextPages(id), Child)
Content(id) == IF table[id].type \in PageTypes THEN <<>> ELSE table[id].content

\* Every block is walked once, for its content may lead back to it; appendLink takes
\* pages other than this one, each once.
ChildPages ==
  LET walked == Visited(table[Home].content, [id \in BlockIds |-> Content(id)])
      named == FlattenSeq([i \in DOMAIN walked |-> LinksOf(walked[i])])
  IN  Unique(Select(named, LAMBDA id : id \in PageIds \ {Home}))

DirectSubpageLinks ==
  /\ linkStage = "links"
  /\ linkStage' = "render"
  /\ links' = ChildPages
  /\ UNCHANGED <<table, paths, anchors>>

--------------------------------------------------------------------------------
\* A rendered text: the anchors around each other that it is in, and what they lead to.
Bare == <<>>
Local(id) == <<[local |-> TRUE, to |-> id]>>
Elsewhere(to) == <<[local |-> FALSE, to |-> to]>>

\* notionPageHrefForInput, as the anchor around a text.
PageHref(id) == IF id \in paths THEN Local(id) ELSE Bare

\* safeRichTextLinkURL behind notionMentionResolver, which some callers do not have:
\* the anchor for the target of "a".
LinkHref(to, resolver) ==
  IF resolver /\ to \in PageIds /\ PageHref(to) # Bare THEN PageHref(to)
  ELSE IF to = Unusable THEN Bare ELSE Elsewhere(to)

\* A mention takes the place of the text; "lm" and "mention" keep their URL.
Mentions == {"p", "lm", "mention", "u"}
MentionText(deco, resolver) ==
  IF deco.kind = "p" /\ resolver /\ deco.to \in PageIds THEN PageHref(deco.to)
  ELSE IF deco.kind \in {"lm", "mention"} /\ deco.to # Unusable THEN Elsewhere(deco.to)
  ELSE Bare

\* The last mention and the last link that can be used count; the link goes around the
\* text unless a mention has made an anchor of it.
applyDecorations(part, resolver) ==
  LET mentions == Select(part, LAMBDA deco : deco.kind \in Mentions)
      hrefs == Select(part, LAMBDA deco : deco.kind = "a" /\ LinkHref(deco.to, resolver) # Bare)
      text == IF mentions = <<>> THEN Bare ELSE MentionText(Last(mentions), resolver)
  IN  IF hrefs = <<>> \/ text # Bare THEN text ELSE LinkHref(Last(hrefs).to, resolver)

richText(parts, resolver) == [i \in DOMAIN parts |-> applyDecorations(parts[i], resolver)]

\* imageHyperlinkHref
Picture(id) ==
  IF table[id].type = "image" /\ table[id].picture # Unusable
  THEN <<LinkHref(table[id].picture, TRUE)>> ELSE <<>>

\* renderLinkedPageBlock: the title of the block, or that of the page, as the link.
LinkedPage(id) ==
  LET ofPage == IF Linked(id) \in BlockIds /\ table[Linked(id)].type = "page"
                THEN richText(table[Linked(id)].parts, FALSE) ELSE <<>>
      title == IF table[id].parts # <<>> THEN richText(table[id].parts, TRUE)
               ELSE IF ofPage # <<>> THEN ofPage ELSE <<Bare>>
  IN  [i \in DOMAIN title |-> PageHref(Linked(id)) \o title[i]]

AnchorsOf(id) ==
  IF table[id].type \in PageTypes THEN LinkedPage(id)
  ELSE Picture(id) \o richText(table[id].parts, TRUE)

RenderLinks ==
  /\ linkStage = "render"
  /\ linkStage' = "done"
  /\ anchors' = [id \in BlockIds |-> AnchorsOf(id)]
  /\ UNCHANGED <<table, paths, links>>

LinksDone == linkStage \in {"done", "error"} /\ UNCHANGED linkVars

LinksNext == NoRoot \/ BuildPagePaths \/ DirectSubpageLinks \/ RenderLinks \/ LinksDone

LinksSpec == LinksInit /\ [][LinksNext]_linkVars

--------------------------------------------------------------------------------
\* The blocks of the page itself, the fewest that are closed under content: those below
\* it, not below its child pages.
HasContent(S, ids) == ToSet(ids) \cap BlockIds \subseteq S
Inside ==
  {id \in BlockIds :
     \A S \in SUBSET BlockIds :
       HasContent(S, table[Home].content) /\ (\A b \in S : HasContent(S, Content(b))) => id \in S}

\* The children are listed completely, each once, never the page itself, and each of
\* them may be linked to.
ChildrenAreListed ==
  linkStage \in {"render", "done"} =>
    /\ ToSet(links) = (UNION {ToSet(LinksOf(id)) : id \in Inside}) \cap (PageIds \ {Home})
    /\ IsInjective(links)
    /\ ToSet(links) \subseteq paths

\* No anchor is inside another one, and one that leads to a page by its identifier
\* leads to where that page is served: BuildPagePaths and the renderer agree on what a
\* link is.  Link previews keep their URL, and the title of a linked page is taken with
\* the links it has.
AnchorsAgree ==
  linkStage = "done" =>
    \A id \in BlockIds : \A i \in DOMAIN anchors[id] :
      LET text == anchors[id][i]
          preview == \E part \in ToSet(table[id].parts) :
                       \E deco \in ToSet(part) : deco.kind \in {"lm", "mention"}
      IN  IF table[id].type \in PageTypes
          THEN Linked(id) \in PageIds => Head(text) = Local(Linked(id))[1]
          ELSE /\ Len(text) <= 1
               /\ text # Bare => text[1].local \/ text[1].to \notin PageIds \/ preview

\* The links of a page lead where they say (subpagelinks.go:9-13, 50-54,
\* richtext.go:198-204).
LinksAgree == ChildrenAreListed /\ AnchorsAgree
================================================================================
