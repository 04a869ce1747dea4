--------------------------------- MODULE Formula -------------------------------
(***************************************************************************)
(* notion: collection_formula.go, the evaluator of formula properties.     *)
(*                                                                         *)
(* A formula is a tree: [is |-> "constant", value], [is |-> "property",    *)
(* id, type] or [is |-> name of a function, args].  A value is             *)
(* [is, n, text]: a number n, a Boolean (n is 0 or 1), a date (minutes n), *)
(* a text (a sequence of letters, digits among them), an empty text that a *)
(* row does not have ("nil"), or "absent" if there is none, upon which the *)
(* cell stays empty: formulas are evaluated where Notion stored no result. *)
(* Numbers are whole and, beyond Huge, infinite: the functions that would  *)
(* leave them (divide, sqrt, pow...) and those of texts by patterns are    *)
(* left out.                                                               *)
(***************************************************************************)
EXTENDS Integers, SequencesExt, FiniteSetsExt

CONSTANTS
  Formulas, Rows,
  Patterns,         \* patterns of formatDate, sequences of letters
  MaxFormulaDepth,  \* 64
  Huge              \* math.MaxFloat64

VARIABLES
  phase,
  formula, row, pattern,
  result,           \* what evalCollectionFormula returns
  written           \* what formulaFormatDate writes, by tokens

vars == <<phase, formula, row, pattern, result, written>>

Value(is, n, text) == [is |-> is, n |-> n, text |-> text]
Absent == Value("absent", 0, <<>>)
Nil == Value("nil", 0, <<>>)
Num(n) == Value("number", IF n > Huge THEN Huge + 1 ELSE IF n < -Huge THEN -Huge - 1 ELSE n, <<>>)
Bool(b) == Value("bool", IF b THEN 1 ELSE 0, <<>>)
Text(t) == Value("text", 0, t)
Date(n) == Value("date", n, <<>>)

Finite(v) == v.n \in -Huge..Huge

--------------------------------------------------------------------------------
Digits == <<"0", "1", "2", "3", "4", "5", "6", "7", "8", "9">>

\* formatFloat; the sign of a negative zero is left out.
Decimal(n) ==
  LET digits[k \in Nat] ==
        IF k < 10 THEN <<Digits[k + 1]>> ELSE Append(digits[k \div 10], Digits[(k % 10) + 1])
  IN  IF n > Huge THEN <<"+", "I", "n", "f">>
      ELSE IF n < -Huge THEN <<"-", "I", "n", "f">>
      ELSE IF n < 0 THEN <<"-">> \o digits[-n] ELSE digits[n]

\* strconv.ParseFloat of a text, without its commas.
Parsed(text) ==
  LET bare == SelectSeq(text, LAMBDA c : c # ",")
      negative == bare # <<>> /\ Head(bare) = "-"
      digits == IF negative THEN Tail(bare) ELSE bare
      sum == FoldLeft(LAMBDA n, c : 10 * n + (CHOOSE k \in 0..9 : Digits[k + 1] = c), 0, digits)
  IN  IF digits = <<>> \/ ~ToSet(digits) \subseteq ToSet(Digits) THEN Absent
      ELSE Num(IF negative THEN -sum ELSE sum)

\* formulaNumber: no number is infinite.
Number(v) ==
  LET n == CASE v.is \in {"number", "bool"} -> Num(v.n)
             [] v.is = "text" -> Parsed(v.text)
             [] OTHER -> Absent
  IN  IF Finite(n) THEN n ELSE Absent

\* formulaString
String(v) ==
  CASE v.is = "number" -> Decimal(v.n)
    [] v.is = "bool" -> IF v.n = 1 THEN <<"t", "r", "u", "e">> ELSE <<"f", "a", "l", "s", "e">>
    [] v.is = "date" -> <<"@">> \o Decimal(v.n)
    [] OTHER -> v.text

Truthy(v) ==
  CASE v.is \in {"bool", "number"} -> v.n # 0
    [] v.is = "text" -> v.text \notin {<<>>, <<"f", "a", "l", "s", "e">>}
    [] OTHER -> v.is = "date"

There(vs) == \A i \in DOMAIN vs : vs[i] # Absent
FiniteNumber(v) == IF Finite(v) THEN v ELSE Absent

--------------------------------------------------------------------------------
\* evalCollectionFormulaProperty
Property(node) ==
  LET value == row[node.id] IN
  CASE value = <<>> -> IF node.type = "text" THEN Nil ELSE Absent
    [] value # <<>> /\ node.type = "number" -> Number(Text(value))
    [] value # <<>> /\ node.type = "checkbox" -> Bool(value \in {<<"y", "e", "s">>, <<"1">>})
    [] value # <<>> /\ node.type = "date" ->
         IF Parsed(value) = Absent THEN Absent ELSE Date(Parsed(value).n)
    [] OTHER -> Text(value)

Comparison == {"larger", "largerEq", "smaller", "smallerEq"}
Compare(name, a, b) ==
  CASE name = "larger" -> Bool(a > b)
    [] name = "largerEq" -> Bool(a >= b)
    [] name = "smaller" -> Bool(a < b)
    [] name = "smallerEq" -> Bool(a <= b)

\* Fault: the right-hand side is looked at only if it matters.
Logic_ShortCircuit(name, v) ==
  CASE name = "not" -> IF There(v) THEN Bool(~Truthy(v[1])) ELSE Absent
    [] v[1] = Absent -> Absent
    [] name = "and" -> Bool(Truthy(v[1]) /\ Truthy(v[2]))
    [] name = "or" -> Bool(Truthy(v[1]) \/ Truthy(v[2]))

\* Both sides are evaluated and must have a value.
Logic(name, v) ==
  CASE ~There(v) -> Absent
    [] There(v) /\ name = "not" -> Bool(~Truthy(v[1]))
    [] There(v) /\ name = "and" -> Bool(Truthy(v[1]) /\ Truthy(v[2]))
    [] There(v) /\ name = "or" -> Bool(Truthy(v[1]) \/ Truthy(v[2]))

\* A function of numbers has a value only if all its arguments are numbers.
Arithmetic(name, v) ==
  LET ns == [i \in DOMAIN v |-> Number(v[i])]
      n == [i \in DOMAIN v |-> ns[i].n]
  IN  CASE ~There(v) \/ ~There(ns) -> Absent
        [] There(v) /\ There(ns) /\ name \in Comparison -> Compare(name, n[1], n[2])
        [] There(v) /\ There(ns) /\ name = "subtract" -> FiniteNumber(Num(n[1] - n[2]))
        [] There(v) /\ There(ns) /\ name = "multiply" -> FiniteNumber(Num(n[1] * n[2]))
        [] There(v) /\ There(ns) /\ name = "unaryMinus" -> FiniteNumber(Num(-n[1]))
        [] There(v) /\ There(ns) /\ name = "min" -> IF n = <<>> THEN Absent ELSE Num(Min(ToSet(n)))
        [] There(v) /\ There(ns) /\ name = "max" -> IF n = <<>> THEN Absent ELSE Num(Max(ToSet(n)))

\* A sum if the left-hand side is a number, else the texts after each other.
Add(v) ==
  CASE ~There(v) -> Absent
    [] There(v) /\ Number(v[1]) # Absent ->
         IF Number(v[2]) = Absent THEN Absent ELSE Num(Number(v[1]).n + Number(v[2]).n)
    [] OTHER -> Text(String(v[1]) \o String(v[2]))

Equality(name, v) ==
  IF ~There(v) THEN Absent
  ELSE Bool((String(v[1]) = String(v[2])) <=> (name = "equal"))

\* dateAdd and dateSubtract by minutes, dateBetween in minutes.
Dates(name, v) ==
  CASE ~There(v) \/ v[1].is # "date" -> Absent
    [] There(v) /\ v[1].is = "date" /\ name = "dateBetween" ->
         IF v[2].is = "date" THEN Num(v[1].n - v[2].n) ELSE Absent
    [] There(v) /\ v[1].is = "date" /\ name = "dateAdd" ->
         IF Number(v[2]) = Absent THEN Absent ELSE Date(v[1].n + Number(v[2]).n)
    [] There(v) /\ v[1].is = "date" /\ name = "dateSubtract" ->
         IF Number(v[2]) = Absent THEN Absent ELSE Date(v[1].n - Number(v[2]).n)

Concat(v) ==
  IF ~There(v) THEN Absent ELSE Text(FlattenSeq([i \in DOMAIN v |-> String(v[i])]))
Length(v) == IF There(v) THEN Num(Len(String(v[1]))) ELSE Absent

Apply(name, v) ==
  CASE name \in {"and", "or", "not"} -> Logic(name, v)
    [] name \in {"equal", "unequal"} -> Equality(name, v)
    [] name \in Comparison \cup {"subtract", "multiply", "unaryMinus", "min", "max"} -> Arithmetic(name, v)
    [] name = "add" -> Add(v)
    [] name = "concat" -> Concat(v)
    [] name = "length" -> Length(v)
    [] name \in {"dateBetween", "dateAdd", "dateSubtract"} -> Dates(name, v)

\* evalCollectionFormulaNode: nothing below the depth limit has a value; of an "if"
\* only the branch that is taken is evaluated.
RECURSIVE Eval(_, _)
Eval(node, depth) ==
  LET arg(i) == Eval(node.args[i], depth + 1) IN
  CASE depth > MaxFormulaDepth -> Absent
    [] depth <= MaxFormulaDepth /\ node.is = "constant" -> node.value
    [] depth <= MaxFormulaDepth /\ node.is = "property" -> Property(node)
    [] depth <= MaxFormulaDepth /\ node.is = "if" ->
         IF arg(1) = Absent THEN Absent ELSE IF Truthy(arg(1)) THEN arg(2) ELSE arg(3)
    [] OTHER -> Apply(node.is, [i \in DOMAIN node.args |-> arg(i)])

--------------------------------------------------------------------------------
\* momentTokens, in their order: a letter and how often.
Token(letter, times) == [i \in 1..times |-> letter]
MomentTokens ==
  <<Token("d", 4), Token("d", 3), Token("d", 2), Token("d", 1), Token("D", 2), Token("D", 1),
    Token("M", 4), Token("M", 3), Token("M", 2), Token("M", 1), Token("Y", 4), Token("y", 4),
    Token("Y", 2), Token("y", 2), Token("H", 2), Token("H", 1), Token("h", 2), Token("h", 1),
    Token("m", 2), Token("m", 1), Token("s", 2), Token("s", 1), Token("A", 1), Token("a", 1)>>

\* matchMomentToken: the first entry that begins the rest, 0 if none does.
Match(rest) == SelectInSeq(MomentTokens, LAMBDA token : IsPrefix(token, rest))

\* formulaFormatDate: tokens for what is replaced, letters for what is kept; brackets
\* around text that is kept as it is.
RECURSIVE Format(_)
Format(rest) ==
  LET close == SelectInSeq(rest, LAMBDA c : c = "]")
      inside == IF close = 0 THEN Tail(rest) ELSE SubSeq(rest, 2, close - 1)
      after == IF close = 0 THEN <<>> ELSE SubSeq(rest, close + 1, Len(rest))
      token == MomentTokens[Match(rest)]
  IN  CASE rest = <<>> -> <<>>
        [] rest # <<>> /\ Head(rest) = "[" -> [i \in DOMAIN inside |-> <<"kept", inside[i]>>] \o Format(after)
        [] rest # <<>> /\ Head(rest) # "[" /\ Match(rest) > 0 ->
             <<<<"token", Head(rest), Len(token)>>>> \o Format(SubSeq(rest, Len(token) + 1, Len(rest)))
        [] OTHER -> <<<<"kept", Head(rest)>>>> \o Format(Tail(rest))

FormatDate(text) ==
  LET pieces == Format(text)
  IN  IF \E i \in DOMAIN pieces : pieces[i][1] = "token" THEN pieces
      ELSE <<<<"default", "Jan 2, 2006">>>>

--------------------------------------------------------------------------------
Init ==
  /\ phase = "ready"
  /\ result = Absent
  /\ written = <<>>
  /\ \/ formula \in Formulas /\ row \in Rows /\ pattern = <<>>
     \/ formula = [is |-> "none"] /\ row \in Rows /\ pattern \in Patterns

\* evalCollectionFormula
Evaluate ==
  /\ phase = "ready"
  /\ pattern = <<>>
  /\ phase' = "done"
  /\ result' = Eval(formula, 0)
  /\ UNCHANGED <<formula, row, pattern, written>>

WriteDate ==
  /\ phase = "ready"
  /\ pattern # <<>>
  /\ phase' = "done"
  /\ written' = FormatDate(pattern)
  /\ UNCHANGED <<formula, row, pattern, result>>

Done == phase = "done" /\ UNCHANGED vars

Next == Evaluate \/ WriteDate \/ Done

Spec == Init /\ [][Next]_vars

--------------------------------------------------------------------------------
\* A value comes from values: all that was evaluated for it has one.
RECURSIVE FromValues(_, _)
FromValues(node, depth) ==
  LET arg(i) == Eval(node.args[i], depth + 1)
      used == CASE node.is \in {"constant", "property"} -> {}
                [] node.is = "if" -> {1, IF Truthy(arg(1)) THEN 2 ELSE 3}
                [] OTHER -> DOMAIN node.args
  IN  Eval(node, depth) # Absent =>
        /\ depth <= MaxFormulaDepth
        /\ \A i \in used : arg(i) # Absent /\ FromValues(node.args[i], depth + 1)

\* What is equal is neither larger nor smaller, though equality is that of texts and the
\* order that of numbers.
OrderAgrees(node) ==
  LET Is(name) == Eval([node EXCEPT !.is = name], 0) IN
  /\ Is("equal") = Bool(TRUE) => Bool(TRUE) \notin {Is("larger"), Is("smaller")}
  /\ Is("largerEq") = Bool(TRUE) /\ Is("smallerEq") = Bool(TRUE) =>
       Is("larger") = Bool(FALSE) /\ Is("smaller") = Bool(FALSE)

\* The functions that may return what is no finite number: those that hand on what they
\* are given, and sums, which are not checked (collection_formula.go:354-366).
HandsOn == {"constant", "add", "if"}

\* A formula is only evaluated from values there are, its comparisons do not contradict
\* each other, and its numbers are finite (collection_formula.go:537-544); a pattern is
\* replaced by the longest tokens first (697-701).
FormulasHold ==
  phase = "done" =>
    IF pattern = <<>>
    THEN /\ FromValues(formula, 0)
         /\ formula.is = "equal" => OrderAgrees(formula)
         /\ result.is = "number" /\ formula.is \notin HandsOn => Finite(result)
    ELSE \A i \in IF "[" \in ToSet(pattern) THEN {} ELSE 2..Len(written) :
           LET a == written[i - 1]
               b == written[i]
           IN  a[1] = "token" /\ b[1] = "token" /\ a[2] = b[2] =>
                 a[3] >= b[3] /\ Token(a[2], a[3] + b[3]) \notin ToSet(MomentTokens)
================================================================================
