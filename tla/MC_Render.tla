------------------------------- MODULE MC_Render -------------------------------
(***************************************************************************)
(* The parts of package notion, side by side: a behaviour is that of one   *)
(* of them, and the variables of the others rest.                          *)
(***************************************************************************)
EXTENDS Render, Views, Links, TLC

VARIABLE part   \* the component this behaviour is about

--------------------------------------------------------------------------------
\* The walk: a root and three blocks of every kind, whose content may be each other,
\* themselves, the same block twice, the root, or a block that is missing.  One block
\* more than there are fits into the budget, four levels into the depth.
Contents(id) ==
  CASE id = "r" -> {<<"a", "b", "c">>, <<"a", "x", "b">>}
    [] id = "a" -> {<<>>, <<"b", "c">>, <<"a", "b", "b">>}
    [] id = "b" -> {<<>>, <<"a", "c">>, <<"x", "r">>}
    [] id = "c" -> {<<>>, <<"a">>}

Block(kind, content, target) == [kind |-> kind, content |-> content, target |-> target]

MCPages ==
  {[r |-> Block("wrap", cr, "x"), a |-> Block(ka, ca, "b"), b |-> Block(kb, cb, ta),
    c |-> Block(kc, cc, "x")] :
     cr \in Contents("r"), ca \in Contents("a"), cb \in Contents("b"), cc \in Contents("c"),
     ka \in Kinds, kb \in Kinds, kc \in {"bulleted", "numbered", "flat"}, ta \in {"a"}}
  \union {[a |-> Block("flat", <<>>, "x")],
          [r |-> Block("wrap", <<>>, "x")],
          [id \in {"r", "a", "b", "c", "d"} |-> Block("wrap", <<>>, "x")]}

--------------------------------------------------------------------------------
\* The views: four rows; labels in two spellings that fold to one, and one whose key
\* is read back as another label.
MCKeyOrder == <<"A", "B", "C D", "C+D", "No value", "a", "uncategorized">>
Same == [l \in {"A", "B", "C D", "C+D", "No value", "a", "b", "c d", "c+d", "no value"} |-> l]
MCDecode ==
  ("C+D" :> "C D") @@ ("uncategorized" :> "No value")
    @@ [k \in {"A", "B", "C D", "No value", "a"} |-> k]
MCEscaped == ("C+D" :> "C%2BD") @@ ("C D" :> "C+D") @@ ("No value" :> "No+value") @@ Same
MCFold == ("A" :> "a") @@ ("B" :> "b") @@ ("C D" :> "c d") @@ ("C+D" :> "c+d")
            @@ ("No value" :> "no value") @@ Same

Group(label, hidden) == [value |-> label, hidden |-> hidden]
MCGroups ==
  {<<Group("a", h1), Group("A", h2), Group("C+D", h3)>> : h1, h2, h3 \in BOOLEAN}
    \cup {<<Group("B", h1), Group("none", h2), Group("a", h3)>> : h1, h2, h3 \in BOOLEAN}
    \cup {<<Group("C D", h1), Group("C+D", h2)>> : h1, h2 \in BOOLEAN}

View(type, grouped, groups) ==
  [type |-> type, grouped |-> grouped, groups |-> groups, hiddenDays |-> {2},
   hideUndated |-> FALSE]
MCConfigs ==
  {View(type, TRUE, groups) : type \in {"table", "board"}, groups \in MCGroups}
    \cup {View(type, FALSE, <<>>) : type \in {"table", "board", "timeline"}}
    \cup {View(type, FALSE, <<Group("none", hide)>>) :
            type \in {"calendar", "timeline"}, hide \in BOOLEAN}

Entry(there, labels, from, to) == [there |-> there, labels |-> labels, from |-> from, to |-> to]
MCRows ==
  {<<Entry(TRUE, l1, 1, f), Entry(TRUE, l2, 2, 1), Entry(there, {"A"}, 0, 0), Entry(TRUE, {}, 3, t)>> :
     l1 \in {{"a"}, {"a", "B"}, {"C+D"}}, l2 \in {{"A"}, {"C D"}, {"A", "C+D"}},
     there \in BOOLEAN, f \in {1, 5}, t \in {3, 4, 9}}

--------------------------------------------------------------------------------
\* The links: four blocks, one of them a page, an alias or an image, with texts that
\* name pages in every way, children of the root and of others.
Deco(kind, to) == [kind |-> kind, to |-> to]
Linking(type, pointer, picture, parent, content, parts) ==
  [type |-> type, pointer |-> pointer, picture |-> picture, parent |-> parent,
   content |-> content, parts |-> parts]
MCParts ==
  {<<Deco("a", 5)>>, <<Deco("p", 3), Deco("a", 4)>>, <<Deco("a", 9), Deco("u", 0), Deco("lm", 3)>>,
   <<Deco("mention", 0), Deco("b", 0), Deco("a", 0), Deco("a", 1)>>}
MCLinked ==
  {<<Linking("page", 0, 0, 0, c1, <<>>), Linking("text", 0, 0, 1, c2, <<t1, t2>>),
     Linking(k3, 4, i3, p3, <<2>>, <<t1>>), Linking("page", 0, 0, p4, <<3>>, t4)>> :
    c1 \in {<<2, 3>>, <<2, 1, 5>>}, c2 \in {<<3, 2>>, <<1>>}, t1 \in MCParts, t2 \in MCParts,
    k3 \in {"page", "alias", "image"}, i3 \in {0, 5}, p3 \in {1, 2}, p4 \in {0, 1, 3},
    t4 \in {<<>>, <<<<Deco("a", 5)>>>>}}
  \cup {<<>>}

--------------------------------------------------------------------------------
\* The formulas: every function of every pair of leaves, and of sums, comparisons and
\* dates of pairs of some; numbers are infinite beyond 99.
Const(v) == [is |-> "constant", value |-> v]
Prop(id, type) == [is |-> "property", id |-> id, type |-> type]
Call(name, args) == [is |-> name, args |-> args]
Val(is, n, text) == [is |-> is, n |-> n, text |-> text]
Leaves ==
  {Const(Val("number", n, <<>>)) : n \in {2, 99, 100}}
    \cup {Const(Val("text", 0, t)) : t \in {<<"2">>, <<"1", ",", "2">>}}
    \cup {Const(Val("bool", 1, <<>>)), Prop("n", "number"), Prop("t", "text"), Prop("c", "checkbox"),
          Prop("d", "date")}
Names ==
  {"and", "or", "equal", "larger", "largerEq", "smaller", "smallerEq", "add", "subtract",
   "multiply", "min", "concat", "dateBetween", "dateAdd", "dateSubtract"}
Few == {Const(Val("number", 99, <<>>)), Const(Val("text", 0, <<"2">>)), Prop("n", "number"), Prop("d", "date")}
Inner == {Call(name, <<a, b>>) : name \in {"add", "and", "equal", "dateAdd"}, a \in Few, b \in Few}
MCFormulas ==
  {Call(name, <<a, b>>) : name \in Names, a \in Leaves, b \in Leaves}
    \cup {Call(name, <<a, b>>) : name \in Names, a \in Inner, b \in Few}
    \cup {Call(name, <<a>>) : name \in {"not", "unaryMinus", "length", "max"}, a \in Leaves \cup Inner}
    \cup {Call("if", <<a, b, Call("not", <<Call("not", <<b>>)>>)>>) : a \in Leaves \cup Inner, b \in Leaves}
MCValues ==
  {[n |-> <<"3">>, t |-> <<"a">>, c |-> <<"y", "e", "s">>, d |-> <<"7">>],
   [n |-> <<>>, t |-> <<>>, c |-> <<"n", "o">>, d |-> <<"-", "7">>],
   [n |-> <<"x">>, t |-> <<"-", "3">>, c |-> <<>>, d |-> <<>>]}
MCPatterns ==
  (UNION {[1..k -> {"d", "M", "Y", "[", "]", "x"}] : k \in 1..4})
    \cup {[i \in 1..k |-> c] : k \in 5..9, c \in {"d", "D", "M", "Y", "y", "H", "m"}}

VARIABLES fphase, formula, row, pattern, value, written
formulaVars == <<fphase, formula, row, pattern, value, written>>

F == INSTANCE Formula
       WITH Formulas <- MCFormulas, Rows <- MCValues, Patterns <- MCPatterns, MaxFormulaDepth <- 2,
            Huge <- 99, phase <- fphase, result <- value

--------------------------------------------------------------------------------
\* A part that rests stays in its one state.
WalkRests ==
  /\ page = <<>> /\ result = "rest" /\ budget = 0 /\ work = <<>> /\ out = <<>> /\ open = <<>>
  /\ refused = FALSE
ViewRests ==
  /\ stage = "rest" /\ view = <<>> /\ rows = <<>> /\ reducers = <<>> /\ buckets = <<>>
  /\ plain = <<>> /\ columns = <<>> /\ sections = <<>> /\ bars = <<>>
LinksRest == linkStage = "rest" /\ table = <<>> /\ paths = {} /\ links = <<>> /\ anchors = <<>>
FormulaRests ==
  /\ fphase = "rest" /\ formula = <<>> /\ row = <<>> /\ pattern = <<>> /\ value = <<>>
  /\ written = <<>>

AllInit ==
  \/ part = "walk" /\ Init /\ ViewRests /\ LinksRest /\ FormulaRests
  \/ part = "view" /\ WalkRests /\ ViewInit /\ LinksRest /\ FormulaRests
  \/ part = "links" /\ WalkRests /\ ViewRests /\ LinksInit /\ FormulaRests
  \/ part = "formula" /\ WalkRests /\ ViewRests /\ LinksRest /\ F!Init
AllNext ==
  /\ UNCHANGED part
  /\ \/ part = "walk" /\ Next /\ UNCHANGED <<viewVars, linkVars, formulaVars>>
     \/ part = "view" /\ ViewNext /\ UNCHANGED <<vars, linkVars, formulaVars>>
     \/ part = "links" /\ LinksNext /\ UNCHANGED <<vars, viewVars, formulaVars>>
     \/ part = "formula" /\ F!Next /\ UNCHANGED <<vars, viewVars, linkVars>>
AllSpec == AllInit /\ [][AllNext]_<<part, vars, viewVars, linkVars, formulaVars>>

\* The property of the other module.
FormulasHold == F!FormulasHold
================================================================================
