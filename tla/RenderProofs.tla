------------------------------ MODULE RenderProofs -----------------------------
(***************************************************************************)
(* Theorems about the walk over any page: cyclic, shared or a tree, of any *)
(* size, for any depth and any budget.                                     *)
(***************************************************************************)
EXTENDS Render, DataTheorems, FiniteSetTheorems, SequenceTheorems, TLAPS

Elem == [is : {"page", "list", "block", "panel"}, id : Id, depth : Nat]
Call == [do : {"blocks", "items", "panels", "close"}, ids : Seq(Id), depth : Nat, elem : Elem]

\* Stack v is stack w after its top has dealt with n ids and has called P.
Pushed(w, P, n, v) ==
  /\ v \in Seq(Call) /\ Len(v) = Len(P) + Len(w)
  /\ \A i \in 1..Len(P) : v[i] = P[i]
  /\ \A i \in Len(P) + 2..Len(v) : v[i] = w[i - Len(P)]
  /\ LET t == v[Len(P) + 1] IN
       /\ t.do = w[1].do /\ t.depth = w[1].depth
       /\ Len(t.ids) = Len(w[1].ids) - n
       /\ \A k \in 1..Len(t.ids) : t.ids[k] = w[1].ids[k + n]

Popped(w, v) ==
  /\ v \in Seq(Call) /\ Len(v) = Len(w) - 1
  /\ \A i \in 1..Len(v) : v[i] = w[i + 1]

\* The top of a stack that is not empty.
LEMMA StackTop ==
  ASSUME NEW w \in Seq(Call), w # <<>>
  PROVE  /\ Len(w) \in Nat \ {0} /\ DOMAIN w = 1..Len(w)
         /\ Head(w) = w[1] /\ w[1] \in Call /\ w[1].ids \in Seq(Id)
<1>1. Len(w) \in Nat \ {0} /\ DOMAIN w = 1..Len(w) /\ Head(w) = w[1]
  BY EmptySeq, LenProperties
<1>2. w[1] \in Call
  BY <1>1, ElementOfSeq
<1>3. QED
  BY <1>1, <1>2 DEF Call

\* What a call leaves when it returns.
LEMMA Pop ==
  ASSUME NEW w \in Seq(Call), w # <<>>
  PROVE  Popped(w, Tail(w))
  BY HeadTailProperties DEF Popped

\* What a call leaves when it calls.
LEMMA Push ==
  ASSUME NEW w \in Seq(Call), w # <<>>, NEW P \in Seq(Call), NEW n \in 0..Len(w[1].ids)
  PROVE  Pushed(w, P, n,
                P \o (<<[Head(w) EXCEPT !.ids = SubSeq(@, n + 1, Len(@))]>> \o Tail(w)))
<1> DEFINE ids == SubSeq(w[1].ids, n + 1, Len(w[1].ids))
           t == [Head(w) EXCEPT !.ids = SubSeq(@, n + 1, Len(@))]
           r == <<t>> \o Tail(w)
<1>1. w[1] \in Call /\ w[1].ids \in Seq(Id) /\ Len(w[1].ids) \in Nat /\ Head(w) = w[1]
      /\ Len(w) \in Nat \ {0} /\ Len(P) \in Nat
  BY StackTop, LenProperties
<1>2. /\ ids \in Seq(Id) /\ Len(ids) = Len(w[1].ids) - n
      /\ \A k \in 1..Len(ids) : ids[k] = w[1].ids[k + n]
  <2>1. \A i \in n + 1..Len(w[1].ids) : w[1].ids[i] \in Id
    BY <1>1, ElementOfSeq
  <2>2. QED
    BY <1>1, <2>1, SubSeqProperties
<1>3. t \in Call /\ t.ids = ids /\ t.do = w[1].do /\ t.depth = w[1].depth
  BY <1>1, <1>2 DEF Call
<1>4. <<t>> \in Seq(Call) /\ Len(<<t>>) = 1 /\ <<t>>[1] = t
  BY <1>3
<1>5. Tail(w) \in Seq(Call) /\ Len(Tail(w)) = Len(w) - 1
      /\ \A i \in 1..Len(w) - 1 : Tail(w)[i] = w[i + 1]
  BY HeadTailProperties
<1> HIDE DEF t, ids
<1>6. /\ r \in Seq(Call) /\ Len(r) = Len(w) /\ r[1] = t
      /\ \A i \in 2..Len(w) : r[i] = w[i]
  <2>1. /\ r \in Seq(Call) /\ Len(r) = Len(w)
        /\ \A i \in 1..Len(w) : r[i] = IF i <= 1 THEN <<t>>[i] ELSE Tail(w)[i - 1]
    BY <1>1, <1>4, <1>5, ConcatProperties
  <2>2. QED
    BY <1>1, <1>4, <1>5, <2>1
<1> HIDE DEF r
<1>7. /\ P \o r \in Seq(Call) /\ Len(P \o r) = Len(P) + Len(w)
      /\ \A i \in 1..Len(P) + Len(w) :
           (P \o r)[i] = IF i <= Len(P) THEN P[i] ELSE r[i - Len(P)]
  <2>1. /\ P \o r \in Seq(Call) /\ Len(P \o r) = Len(P) + Len(r)
        /\ \A i \in 1..Len(P) + Len(r) :
             (P \o r)[i] = IF i <= Len(P) THEN P[i] ELSE r[i - Len(P)]
    BY <1>6, ConcatProperties, Zenon
  <2>2. QED
    BY <1>6, <2>1
<1>8. Pushed(w, P, n, P \o r)
  <2> DEFINE v == P \o r
  <2> HIDE DEF v
  <2>1. /\ v \in Seq(Call) /\ Len(v) = Len(P) + Len(w)
        /\ \A i \in 1..Len(P) + Len(w) : v[i] = IF i <= Len(P) THEN P[i] ELSE r[i - Len(P)]
    BY <1>7 DEF v
  <2>2. v[Len(P) + 1] = t
    <3>1. Len(P) + 1 \in 1..Len(P) + Len(w) /\ ~(Len(P) + 1 <= Len(P)) /\ Len(P) + 1 - Len(P) = 1
      BY <1>1
    <3>2. v[Len(P) + 1] = r[Len(P) + 1 - Len(P)]
      BY <2>1, <3>1
    <3>3. QED
      BY <1>6, <3>1, <3>2
  <2>3. ASSUME NEW i \in 1..Len(P)
        PROVE  v[i] = P[i]
    <3>1. i \in 1..Len(P) + Len(w) /\ i <= Len(P)
      BY <1>1
    <3>2. QED
      BY <2>1, <3>1
  <2>4. ASSUME NEW i \in Len(P) + 2..Len(v)
        PROVE  v[i] = w[i - Len(P)]
    <3>1. i \in 1..Len(P) + Len(w) /\ ~(i <= Len(P)) /\ i - Len(P) \in 2..Len(w)
      BY <1>1, <2>1
    <3>2. QED
      BY <1>6, <2>1, <3>1
  <2>5. Pushed(w, P, n, v)
    BY <1>2, <1>3, <2>1, <2>2, <2>3, <2>4 DEF Pushed
  <2>6. QED
    BY <2>5 DEF v
<1>9. QED
  BY <1>8 DEF r, t
--------------------------------------------------------------------------------
\* Of the calls that are not finished the inner are at least as deep as the outer,
\* and renderBlockList is deeper than what called it.
Nested(w) ==
  /\ \A i \in DOMAIN w :
       /\ w[i].do = "blocks" => w[i].depth <= MaxDepth + 1
       /\ w[i].do \in {"items", "panels"} => w[i].depth <= MaxDepth
  /\ \A i, j \in DOMAIN w :
       i < j /\ w[i].do # "close" /\ w[j].do # "close" =>
         w[j].depth <= w[i].depth /\ (w[i].do = "blocks" => w[j].depth < w[i].depth)

\* What a call at depth d may call: one call, then end tags.
Callable(P, d) ==
  \A i \in DOMAIN P :
    /\ i > 1 => P[i].do = "close" /\ P[i].ids = <<>>
    /\ P[i].do = "close" => P[i].ids = <<>>
    /\ P[i].do = "blocks" => P[i].depth = d + 1
    /\ P[i].do \in {"items", "panels"} => P[i].depth = d

\* Calls stay nested when one returns.
LEMMA PopNested ==
  ASSUME NEW w \in Seq(Call), w # <<>>, Nested(w), NEW v, Popped(w, v)
  PROVE  Nested(v)
<1>1. Len(w) \in Nat \ {0} /\ DOMAIN w = 1..Len(w) /\ DOMAIN v = 1..Len(w) - 1
  BY StackTop, LenProperties DEF Popped
<1>2. \A i \in DOMAIN v : i + 1 \in DOMAIN w /\ v[i] = w[i + 1]
  BY <1>1 DEF Popped
<1>3. \A i, j \in DOMAIN v : i < j => i + 1 < j + 1
  BY <1>1
<1>4. QED
  BY <1>2, <1>3 DEF Nested

\* Calls stay nested when one calls.
LEMMA PushNested ==
  ASSUME NEW w \in Seq(Call), w # <<>>, Nested(w), w[1].do # "close",
         NEW P \in Seq(Call), Callable(P, w[1].depth), w[1].depth <= MaxDepth,
         NEW n \in 0..Len(w[1].ids), NEW v, Pushed(w, P, n, v)
  PROVE  Nested(v)
<1>1. /\ Len(w) \in Nat \ {0} /\ DOMAIN w = 1..Len(w)
      /\ Len(P) \in Nat /\ DOMAIN P = 1..Len(P) /\ DOMAIN v = 1..Len(P) + Len(w)
      /\ w[1].depth \in Nat /\ MaxDepth \in Nat
  BY StackTop, LenProperties, RenderAssumption DEF Pushed, Call
<1>2. /\ \A i \in DOMAIN w : w[i].depth \in Nat
      /\ \A i \in DOMAIN P : P[i].depth \in Nat /\ P[i].do \in {"blocks", "items", "panels", "close"}
  <2>1. \A i \in DOMAIN w : w[i] \in Call
    BY <1>1, ElementOfSeq
  <2>2. \A i \in DOMAIN P : P[i] \in Call
    BY <1>1, ElementOfSeq
  <2>3. QED
    BY <2>1, <2>2 DEF Call
\* Where an entry of the new stack was in the old one.
<1>3. \A i \in DOMAIN v : i > Len(P) =>
        /\ i - Len(P) \in DOMAIN w
        /\ v[i].do = w[i - Len(P)].do /\ v[i].depth = w[i - Len(P)].depth
  <2> SUFFICES ASSUME NEW i \in DOMAIN v, i > Len(P)
               PROVE  /\ i - Len(P) \in DOMAIN w
                      /\ v[i].do = w[i - Len(P)].do /\ v[i].depth = w[i - Len(P)].depth
    OBVIOUS
  <2>1. /\ Len(v) = Len(P) + Len(w) /\ i \in 1..Len(v)
        /\ \A j \in Len(P) + 2..Len(v) : v[j] = w[j - Len(P)]
        /\ v[Len(P) + 1].do = w[1].do /\ v[Len(P) + 1].depth = w[1].depth
    BY <1>1 DEF Pushed
  <2>2. CASE i = Len(P) + 1
    BY <1>1, <2>1, <2>2
  <2>3. CASE i # Len(P) + 1
    <3>1. i \in Len(P) + 2..Len(v)
      BY <1>1, <2>1, <2>3
    <3>2. QED
      BY <1>1, <2>1, <3>1
  <2>4. QED
    BY <2>2, <2>3
<1>4. \A i \in DOMAIN v : i <= Len(P) => i \in DOMAIN P /\ v[i] = P[i]
  BY <1>1 DEF Pushed
<1>5. ASSUME NEW i \in DOMAIN v
      PROVE  /\ v[i].do = "blocks" => v[i].depth <= MaxDepth + 1
             /\ v[i].do \in {"items", "panels"} => v[i].depth <= MaxDepth
  BY <1>1, <1>2, <1>3, <1>4 DEF Nested, Callable
<1>6. ASSUME NEW i \in DOMAIN v, NEW j \in DOMAIN v, i < j,
             v[i].do # "close", v[j].do # "close"
      PROVE  v[j].depth <= v[i].depth /\ (v[i].do = "blocks" => v[j].depth < v[i].depth)
  <2>1. j > Len(P)
    BY <1>1, <1>4, <1>6 DEF Callable
  <2>2. CASE i <= Len(P)
    <3>1. w[j - Len(P)].depth <= w[1].depth
      <4>1. /\ 1 \in DOMAIN w /\ j - Len(P) \in DOMAIN w
            /\ w[j - Len(P)].do # "close" /\ w[j - Len(P)].depth \in Nat
        BY <1>1, <1>2, <1>3, <1>6, <2>1
      <4>2. j - Len(P) = 1 \/ 1 < j - Len(P)
        BY <1>1, <4>1
      <4>3. QED
        BY <1>1, <4>1, <4>2 DEF Nested
    <3>2. v[i].depth >= w[1].depth /\ (v[i].do = "blocks" => v[i].depth > w[1].depth)
      BY <1>1, <1>2, <1>4, <1>6, <2>2 DEF Callable
    <3>3. v[i].depth \in Nat /\ v[j].depth \in Nat
      BY <1>2, <1>3, <1>4, <2>1, <2>2
    <3>4. QED
      BY <1>1, <1>3, <2>1, <3>1, <3>2, <3>3
  <2>3. CASE i > Len(P)
    BY <1>1, <1>3, <1>6, <2>1, <2>3, SMTT(30) DEF Nested
  <2>4. QED
    BY <1>1, <2>2, <2>3
<1>7. QED
  BY <1>5, <1>6 DEF Nested
--------------------------------------------------------------------------------
\* What has been shown of block x and of the blocks of the tabs.
Shown(o) == {o[i].id : i \in {j \in DOMAIN o : o[j].is \in {"block", "panel"}}}

\* x is content of the page or of a block that has been shown.
Hangs(p, S, x) ==
  /\ x # Root
  /\ \E b \in DOMAIN p : b \in S \union {Root} /\ \E n \in DOMAIN p[b].content : p[b].content[n] = x

\* On a tree the blocks that calls have still to show are all different, none of them
\* has been shown, and what contains them has.
OnTree(p, w, S) ==
  /\ \A i \in DOMAIN w : \A k \in DOMAIN w[i].ids :
       w[i].ids[k] \notin S /\ Hangs(p, S, w[i].ids[k])
  /\ \A i, j \in DOMAIN w : \A k \in DOMAIN w[i].ids : \A l \in DOMAIN w[j].ids :
       w[i].ids[k] = w[j].ids[l] => i = j /\ k = l
  /\ \A x \in S : Hangs(p, S, x)

\* On a tree what is pending stays so when a call returns.
LEMMA PopOnTree ==
  ASSUME NEW p, NEW S, NEW w \in Seq(Call), w # <<>>, OnTree(p, w, S), NEW v, Popped(w, v)
  PROVE  OnTree(p, v, S)
<1>1. Len(w) \in Nat \ {0} /\ DOMAIN w = 1..Len(w) /\ DOMAIN v = 1..Len(w) - 1
  BY StackTop, LenProperties DEF Popped
<1>2. \A i \in DOMAIN v : i + 1 \in DOMAIN w /\ v[i] = w[i + 1]
  BY <1>1 DEF Popped
<1>3. \A i, j \in DOMAIN v : i + 1 = j + 1 => i = j
  BY <1>1
<1>4. ASSUME NEW i \in DOMAIN v, NEW j \in DOMAIN v,
             NEW k \in DOMAIN v[i].ids, NEW l \in DOMAIN v[j].ids, v[i].ids[k] = v[j].ids[l]
      PROVE  i = j /\ k = l
  BY <1>2, <1>3, <1>4 DEF OnTree
<1>5. QED
  BY <1>2, <1>4 DEF OnTree

\* Where the ids of the new stack were: in the call that was made, or in the old stack.
LEMMA Origin ==
  ASSUME NEW w \in Seq(Call), w # <<>>, NEW P \in Seq(Call),
         \A i \in DOMAIN P : i > 1 => P[i].ids = <<>>,
         NEW n \in 0..Len(w[1].ids), NEW v, Pushed(w, P, n, v),
         NEW i \in DOMAIN v, NEW k \in DOMAIN v[i].ids
  PROVE  /\ i \in Nat /\ k \in Nat \ {0} /\ Len(P) \in Nat
         /\ i <= Len(P) => i = 1 /\ 1 \in DOMAIN P /\ v[i].ids = P[1].ids
         /\ i = Len(P) + 1 => k + n \in DOMAIN w[1].ids /\ v[i].ids[k] = w[1].ids[k + n]
         /\ i > Len(P) + 1 => i - Len(P) \in DOMAIN w /\ v[i].ids = w[i - Len(P)].ids
<1>1. /\ Len(w) \in Nat \ {0} /\ DOMAIN w = 1..Len(w)
      /\ Len(P) \in Nat /\ DOMAIN P = 1..Len(P) /\ DOMAIN v = 1..Len(P) + Len(w)
      /\ v[i] \in Call
  BY StackTop, LenProperties, ElementOfSeq DEF Pushed
<1>2. v[i].ids \in Seq(Id) /\ DOMAIN v[i].ids = 1..Len(v[i].ids) /\ Len(v[i].ids) \in Nat
  BY <1>1, LenProperties DEF Call
<1>3. DOMAIN w[1].ids = 1..Len(w[1].ids) /\ Len(w[1].ids) \in Nat
  BY StackTop, LenProperties
<1>4. CASE i <= Len(P)
  <2>1. i \in DOMAIN P /\ v[i] = P[i]
    BY <1>1, <1>4 DEF Pushed
  <2>2. i = 1
    BY <1>1, <1>2, <2>1, EmptySeq
  <2>3. QED
    BY <1>1, <1>2, <1>4, <2>1, <2>2
<1>5. CASE i = Len(P) + 1
  <2>1. /\ Len(v[i].ids) = Len(w[1].ids) - n
        /\ \A l \in 1..Len(v[i].ids) : v[i].ids[l] = w[1].ids[l + n]
    BY <1>5 DEF Pushed
  <2>2. k + n \in 1..Len(w[1].ids) /\ k \in Nat \ {0} /\ i \in Nat
    BY <1>1, <1>2, <1>3, <2>1
  <2>3. QED
    BY <1>1, <1>2, <1>3, <1>5, <2>1, <2>2
<1>6. CASE i > Len(P) + 1
  <2>1. i \in Len(P) + 2..Len(v) /\ i - Len(P) \in 1..Len(w)
    BY <1>1, <1>6 DEF Pushed
  <2>2. v[i] = w[i - Len(P)]
    BY <2>1 DEF Pushed
  <2>3. QED
    BY <1>1, <1>2, <1>6, <2>1, <2>2
<1>7. QED
  BY <1>1, <1>4, <1>5, <1>6

\* On a tree what is pending stays so when a call passes some of its ids on.
LEMMA RegroupOnTree ==
  ASSUME NEW p, NEW S, NEW w \in Seq(Call), w # <<>>, OnTree(p, w, S), NEW P \in Seq(Call),
         \A i \in DOMAIN P : i > 1 => P[i].ids = <<>>,
         NEW n \in 0..Len(w[1].ids), NEW v, Pushed(w, P, n, v),
         1 \in DOMAIN P => /\ DOMAIN P[1].ids = 1..n
                           /\ \A k \in 1..n : P[1].ids[k] = w[1].ids[k]
  PROVE  OnTree(p, v, S)
<1> DEFINE oi(i) == IF i <= Len(P) THEN 1 ELSE i - Len(P)
           ok(i, k) == IF i = Len(P) + 1 THEN k + n ELSE k
<1>1. 1 \in DOMAIN w /\ DOMAIN w[1].ids = 1..Len(w[1].ids) /\ Len(w[1].ids) \in Nat
  BY StackTop, LenProperties
<1>2. ASSUME NEW i \in DOMAIN v, NEW k \in DOMAIN v[i].ids
      PROVE  /\ oi(i) \in DOMAIN w /\ ok(i, k) \in DOMAIN w[oi(i)].ids
             /\ v[i].ids[k] = w[oi(i)].ids[ok(i, k)]
             /\ i <= Len(P) => i = 1 /\ k <= n
             /\ i \in Nat /\ k \in Nat \ {0} /\ Len(P) \in Nat
  <2>1. /\ i \in Nat /\ k \in Nat \ {0} /\ Len(P) \in Nat
        /\ i <= Len(P) => i = 1 /\ 1 \in DOMAIN P /\ v[i].ids = P[1].ids
        /\ i = Len(P) + 1 => k + n \in DOMAIN w[1].ids /\ v[i].ids[k] = w[1].ids[k + n]
        /\ i > Len(P) + 1 => i - Len(P) \in DOMAIN w /\ v[i].ids = w[i - Len(P)].ids
    BY Origin
  <2>2. CASE i <= Len(P)
    BY <1>1, <2>1, <2>2
  <2>3. CASE i = Len(P) + 1
    BY <1>1, <2>1, <2>3
  <2>4. CASE i > Len(P) + 1
    BY <1>1, <2>1, <2>4
  <2>5. QED
    BY <2>1, <2>2, <2>3, <2>4
<1>3. ASSUME NEW i \in DOMAIN v, NEW j \in DOMAIN v,
             NEW k \in DOMAIN v[i].ids, NEW l \in DOMAIN v[j].ids, v[i].ids[k] = v[j].ids[l]
      PROVE  i = j /\ k = l
  <2>1. oi(i) = oi(j) /\ ok(i, k) = ok(j, l)
    BY <1>2, <1>3, SMTT(30) DEF OnTree
  <2>2. QED
    BY <1>2, <2>1
<1>4. \A i \in DOMAIN v : \A k \in DOMAIN v[i].ids :
        v[i].ids[k] \notin S /\ Hangs(p, S, v[i].ids[k])
  BY <1>2 DEF OnTree
<1>5. QED
  BY <1>3, <1>4 DEF OnTree

\* A block takes its place on the page, and what is below it is pending.
LEMMA DescendOnTree ==
  ASSUME NEW p, TreePage(p), NEW S, NEW w \in Seq(Call), w # <<>>, OnTree(p, w, S),
         NEW P \in Seq(Call), \A i \in DOMAIN P : i > 1 => P[i].ids = <<>>,
         1 \in DOMAIN w[1].ids, NEW x, x = w[1].ids[1], x \in DOMAIN p,
         1 \in DOMAIN P => P[1].ids \in {<<>>, p[x].content},
         NEW v, Pushed(w, P, 1, v)
  PROVE  OnTree(p, v, S \union {x})
<1> DEFINE T == S \union {x}
<1>1. 1 \in DOMAIN w /\ DOMAIN w[1].ids = 1..Len(w[1].ids) /\ Len(w[1].ids) \in Nat
      /\ 1 \in 0..Len(w[1].ids)
  BY StackTop, LenProperties
<1>2. x \notin S /\ x # Root /\ Hangs(p, S, x)
  BY <1>1 DEF OnTree, Hangs
<1>3. \A y : Hangs(p, S, y) => Hangs(p, T, y)
  BY DEF Hangs
\* What x contains is not contained in what was shown, and so was not pending.
<1>4. ASSUME NEW m \in DOMAIN p[x].content
      PROVE  /\ ~Hangs(p, S, p[x].content[m])
             /\ Hangs(p, T, p[x].content[m])
  BY <1>2 DEF Hangs, TreePage
<1>5. ASSUME NEW i \in DOMAIN v, NEW k \in DOMAIN v[i].ids, i <= Len(P)
      PROVE  i = 1 /\ k \in DOMAIN p[x].content /\ v[i].ids[k] = p[x].content[k]
  <2>1. i = 1 /\ 1 \in DOMAIN P /\ v[i].ids = P[1].ids
    BY <1>1, <1>5, Origin
  <2>2. P[1].ids # <<>>
    BY <2>1, EmptySeq
  <2>3. QED
    BY <2>1, <2>2
<1>6. ASSUME NEW i \in DOMAIN v, NEW k \in DOMAIN v[i].ids, i > Len(P)
      PROVE  /\ i - Len(P) \in DOMAIN w
             /\ \E l \in DOMAIN w[i - Len(P)].ids :
                  /\ v[i].ids[k] = w[i - Len(P)].ids[l] /\ k \in Nat \ {0}
                  /\ l = IF i = Len(P) + 1 THEN k + 1 ELSE k
  BY <1>1, <1>6, Origin
<1>7. \A i \in DOMAIN v : \A k \in DOMAIN v[i].ids :
        v[i].ids[k] \notin T /\ Hangs(p, T, v[i].ids[k])
  <2> SUFFICES ASSUME NEW i \in DOMAIN v, NEW k \in DOMAIN v[i].ids
               PROVE  v[i].ids[k] \notin T /\ Hangs(p, T, v[i].ids[k])
    OBVIOUS
  <2>1. CASE i <= Len(P)
    BY <1>2, <1>4, <1>5, <2>1, ZenonT(30) DEF OnTree
  <2>2. CASE i > Len(P)
    <3>1. v[i].ids[k] \notin S /\ Hangs(p, S, v[i].ids[k])
      BY <1>6, <2>2 DEF OnTree
    <3>2. v[i].ids[k] # x
      <4>1. i \in Nat /\ Len(P) \in Nat
        BY <1>1, Origin
      <4>2. QED
        BY <1>1, <1>6, <2>2, <4>1 DEF OnTree
    <3>3. QED
      BY <1>3, <3>1, <3>2
  <2>3. i <= Len(P) \/ i > Len(P)
    BY <1>1, Origin
  <2>4. QED
    BY <2>1, <2>2, <2>3
<1>8. ASSUME NEW i \in DOMAIN v, NEW j \in DOMAIN v,
             NEW k \in DOMAIN v[i].ids, NEW l \in DOMAIN v[j].ids, v[i].ids[k] = v[j].ids[l]
      PROVE  i = j /\ k = l
  <2>1. i \in Nat /\ j \in Nat /\ Len(P) \in Nat
    BY <1>1, Origin
  <2>2. CASE i <= Len(P) /\ j <= Len(P)
    BY <1>5, <1>8, <2>2 DEF TreePage
  <2>3. CASE i > Len(P) /\ j > Len(P)
    BY <1>6, <1>8, <2>1, <2>3 DEF OnTree
  <2>4. CASE i <= Len(P) /\ j > Len(P)
    BY <1>4, <1>5, <1>6, <1>8, <2>4 DEF OnTree
  <2>5. CASE i > Len(P) /\ j <= Len(P)
    BY <1>4, <1>5, <1>6, <1>8, <2>5 DEF OnTree
  <2>6. QED
    BY <2>1, <2>2, <2>3, <2>4, <2>5
<1>9. \A y \in T : Hangs(p, T, y)
  BY <1>2, <1>3 DEF OnTree
<1>10. QED
  BY <1>7, <1>8, <1>9 DEF OnTree
--------------------------------------------------------------------------------
\* The blocks that have been rendered, none of them twice.
RendersIn(o) == {i \in DOMAIN o : IsBlock(o[i])}

OnceEach(p, o) ==
  /\ \A i \in RendersIn(o) : o[i].id \in DOMAIN p
  /\ \A i, j \in RendersIn(o) : o[i].id = o[j].id => i = j

\* What one more element changes in what is written.
LEMMA Written ==
  ASSUME NEW o \in Seq(Elem), NEW e \in Elem
  PROVE  LET v == Append(o, e) IN
         /\ v \in Seq(Elem) /\ v # <<>>
         /\ IsBlock(e) => RendersIn(v) = RendersIn(o) \union {Len(o) + 1}
         /\ ~IsBlock(e) => RendersIn(v) = RendersIn(o)
         /\ Len(o) + 1 \notin RendersIn(o)
         /\ Shown(v) = Shown(o) \union IF e.is \in {"block", "panel"} THEN {e.id} ELSE {}
         /\ \A p : /\ OnceEach(p, o) /\ e.is \in {"list", "panel"} => OnceEach(p, v)
                   /\ OnceEach(p, o) /\ e.id \in DOMAIN p /\ e.id \notin Shown(o) => OnceEach(p, v)
<1> DEFINE v == Append(o, e)
<1>1. /\ v \in Seq(Elem) /\ v # <<>> /\ Len(v) = Len(o) + 1
      /\ \A i \in 1..Len(o) : v[i] = o[i]
      /\ v[Len(o) + 1] = e
  BY AppendProperties
<1>2. Len(o) \in Nat /\ DOMAIN o = 1..Len(o) /\ DOMAIN v = 1..Len(o) + 1
  BY <1>1, LenProperties
<1> HIDE DEF v
<1>3. DOMAIN v = DOMAIN o \union {Len(o) + 1} /\ Len(o) + 1 \notin DOMAIN o
  BY <1>2
<1>4. \A i \in DOMAIN o : v[i] = o[i]
  BY <1>1, <1>2
<1>5. /\ IsBlock(e) => RendersIn(v) = RendersIn(o) \union {Len(o) + 1}
      /\ ~IsBlock(e) => RendersIn(v) = RendersIn(o)
      /\ Len(o) + 1 \notin RendersIn(o)
  BY <1>1, <1>3, <1>4 DEF RendersIn
<1>6. Shown(v) = Shown(o) \union IF e.is \in {"block", "panel"} THEN {e.id} ELSE {}
  <2>1. ASSUME NEW x
        PROVE  x \in Shown(v) <=> x \in Shown(o) \/ (e.is \in {"block", "panel"} /\ x = e.id)
    BY <1>1, <1>3, <1>4 DEF Shown
  <2>2. QED
    BY <2>1
<1>7. \A i \in RendersIn(o) : v[i] = o[i] /\ o[i].id \in Shown(o)
  BY <1>4 DEF RendersIn, Shown, IsBlock
<1>8. ASSUME NEW p, OnceEach(p, o), e.is \in {"list", "panel"}
      PROVE  OnceEach(p, v)
  BY <1>5, <1>7, <1>8 DEF OnceEach, IsBlock
<1>9. ASSUME NEW p, OnceEach(p, o), e.id \in DOMAIN p, e.id \notin Shown(o)
      PROVE  OnceEach(p, v)
  BY <1>1, <1>5, <1>7, <1>9 DEF OnceEach
<1>10. QED
  BY <1>1, <1>5, <1>6, <1>8, <1>9 DEF v
--------------------------------------------------------------------------------
\* The items of a list are blocks of the page, and of the type of a list.
ItemsExist(p, w) ==
  \A i \in DOMAIN w : w[i].do = "items" =>
    \A k \in DOMAIN w[i].ids : w[i].ids[k] \in DOMAIN p /\ p[w[i].ids[k]].kind \in Lists

Stack(p, o, w) ==
  /\ w \in Seq(Call)
  /\ Nested(w)
  /\ ItemsExist(p, w)
  /\ TreePage(p) => OnTree(p, w, Shown(o))

\* The budget is what the page allows without what has been rendered, and on a tree
\* nothing has been rendered twice, and so nothing been refused.
RenderInv ==
  /\ TypeOK
  /\ page \in Pages
  /\ out \in Seq(Elem) /\ open \in Seq(Elem)
  /\ result = "checking" => work = <<>> /\ out = <<>> /\ ~refused
  /\ result = "rendering" => out # <<>>
  /\ out # <<>> => /\ IsFiniteSet(RendersIn(out))
                   /\ Cardinality(RendersIn(out)) + budget = blockRenderBudget(page)
  /\ Stack(page, out, work)
  /\ TreePage(page) => OnceEach(page, out) /\ ~refused

\* A return keeps the stack in order.
LEMMA PopStack ==
  ASSUME NEW p, NEW o, NEW w, w # <<>>, Stack(p, o, w)
  PROVE  Stack(p, o, Tail(w))
<1>1. Popped(w, Tail(w))
  BY Pop DEF Stack
<1>2. Nested(Tail(w)) /\ (TreePage(p) => OnTree(p, Tail(w), Shown(o)))
  BY <1>1, PopNested, PopOnTree DEF Stack
<1>3. ItemsExist(p, Tail(w))
  <2>1. Len(w) \in Nat \ {0} /\ DOMAIN w = 1..Len(w) /\ DOMAIN Tail(w) = 1..Len(w) - 1
    BY <1>1, StackTop, LenProperties DEF Popped, Stack
  <2>2. \A i \in DOMAIN Tail(w) : i + 1 \in DOMAIN w /\ Tail(w)[i] = w[i + 1]
    BY <1>1, <2>1 DEF Popped
  <2>3. QED
    BY <2>2 DEF Stack, ItemsExist
<1>4. QED
  BY <1>1, <1>2, <1>3 DEF Stack, Popped

\* The calls P on top of what is left of the stack.
Calling(w, P, n) == P \o (<<[Head(w) EXCEPT !.ids = SubSeq(@, n + 1, Len(@))]>> \o Tail(w))

\* The items of lists still exist when a call calls.
LEMMA PushItemsExist ==
  ASSUME NEW p, NEW w \in Seq(Call), w # <<>>, ItemsExist(p, w),
         NEW P \in Seq(Call), \A i \in DOMAIN P : i > 1 => P[i].ids = <<>>, ItemsExist(p, P),
         NEW n \in 0..Len(w[1].ids), NEW v, Pushed(w, P, n, v)
  PROVE  ItemsExist(p, v)
<1> SUFFICES ASSUME NEW i \in DOMAIN v, v[i].do = "items", NEW k \in DOMAIN v[i].ids
             PROVE  v[i].ids[k] \in DOMAIN p /\ p[v[i].ids[k]].kind \in Lists
  BY DEF ItemsExist
<1>1. /\ i \in Nat /\ k \in Nat \ {0} /\ Len(P) \in Nat
      /\ i <= Len(P) => i = 1 /\ 1 \in DOMAIN P /\ v[i].ids = P[1].ids
      /\ i = Len(P) + 1 => k + n \in DOMAIN w[1].ids /\ v[i].ids[k] = w[1].ids[k + n]
      /\ i > Len(P) + 1 => i - Len(P) \in DOMAIN w /\ v[i].ids = w[i - Len(P)].ids
  BY Origin
<1>2. 1 \in DOMAIN w /\ DOMAIN v = 1..Len(v) /\ Len(w) \in Nat /\ DOMAIN P = 1..Len(P)
  BY StackTop, LenProperties DEF Pushed
<1>3. CASE i <= Len(P)
  <2>1. v[i] = P[1] /\ 1 \in DOMAIN P
    BY <1>1, <1>2, <1>3 DEF Pushed
  <2>2. QED
    BY <2>1 DEF ItemsExist
<1>4. CASE i = Len(P) + 1
  BY <1>1, <1>2, <1>4 DEF Pushed, ItemsExist
<1>5. CASE i > Len(P) + 1
  <2>1. i \in Len(P) + 2..Len(v)
    BY <1>1, <1>2, <1>5
  <2>2. v[i] = w[i - Len(P)]
    BY <2>1 DEF Pushed
  <2>3. QED
    BY <1>1, <1>5, <2>2 DEF ItemsExist
<1>6. QED
  BY <1>1, <1>3, <1>4, <1>5

\* A call passes n ids on, or over.
LEMMA RegroupStack ==
  ASSUME NEW p, NEW o, NEW w, w # <<>>, Stack(p, o, w),
         w[1].do # "close", w[1].depth <= MaxDepth, NEW n \in 0..Len(w[1].ids),
         NEW P \in Seq(Call), Callable(P, w[1].depth), ItemsExist(p, P),
         1 \in DOMAIN P => /\ DOMAIN P[1].ids = 1..n
                           /\ \A k \in 1..n : P[1].ids[k] = w[1].ids[k]
  PROVE  Stack(p, o, Calling(w, P, n))
<1> DEFINE v == Calling(w, P, n)
<1>1. Pushed(w, P, n, v)
  BY Push DEF Stack, Calling
<1> HIDE DEF v
<1>2. \A i \in DOMAIN P : i > 1 => P[i].ids = <<>>
  BY DEF Callable
<1>3. v \in Seq(Call)
  BY <1>1 DEF Pushed
<1>4. Nested(v)
  BY <1>1, PushNested DEF Stack
<1>5. ItemsExist(p, v)
  BY <1>1, <1>2, PushItemsExist DEF Stack
<1>6. TreePage(p) => OnTree(p, v, Shown(o))
  BY <1>1, <1>2, RegroupOnTree DEF Stack
<1>7. QED
  BY <1>3, <1>4, <1>5, <1>6 DEF Stack, v

\* A call shows its first id as e and goes on to what is below it.
LEMMA DescendStack ==
  ASSUME NEW p, NEW o \in Seq(Elem), NEW w, w # <<>>, Stack(p, o, w),
         w[1].do # "close", w[1].depth <= MaxDepth, w[1].ids # <<>>,
         NEW e \in Elem, e.is \in {"block", "panel"}, e.id = w[1].ids[1], e.id \in DOMAIN p,
         NEW P \in Seq(Call), Callable(P, w[1].depth), \A i \in DOMAIN P : P[i].do # "items",
         TreePage(p) => (1 \in DOMAIN P => P[1].ids \in {<<>>, p[e.id].content})
  PROVE  /\ Stack(p, Append(o, e), Calling(w, P, 1))
         /\ TreePage(p) /\ OnceEach(p, o) => OnceEach(p, Append(o, e))
<1> DEFINE v == Calling(w, P, 1)
           x == w[1].ids[1]
<1>1. 1 \in DOMAIN w[1].ids /\ 1 \in 0..Len(w[1].ids) /\ 1 \in DOMAIN w
  BY StackTop, LenProperties, EmptySeq DEF Stack
<1>2. Pushed(w, P, 1, v)
  BY <1>1, Push DEF Stack, Calling
<1> HIDE DEF v
<1>3. \A i \in DOMAIN P : i > 1 => P[i].ids = <<>>
  BY DEF Callable
<1>4. v \in Seq(Call)
  BY <1>2 DEF Pushed
<1>5. Nested(v)
  BY <1>1, <1>2, PushNested DEF Stack
<1>6. ItemsExist(p, v)
  BY <1>1, <1>2, <1>3, PushItemsExist DEF Stack, ItemsExist
<1>7. Shown(Append(o, e)) = Shown(o) \union {x}
  BY Written
<1>8. ASSUME TreePage(p)
      PROVE  OnTree(p, v, Shown(Append(o, e))) /\ (OnceEach(p, o) => OnceEach(p, Append(o, e)))
  <2>1. OnTree(p, w, Shown(o)) /\ w \in Seq(Call)
    BY <1>8 DEF Stack
  <2>2. OnTree(p, v, Shown(o) \union {x})
    BY <1>1, <1>2, <1>3, <1>8, <2>1, DescendOnTree
  <2>3. x \notin Shown(o)
    BY <1>1, <2>1 DEF OnTree
  <2>4. QED
    BY <1>7, <2>2, <2>3, Written
<1>9. QED
  BY <1>4, <1>5, <1>6, <1>8 DEF Stack, v
--------------------------------------------------------------------------------
\* On a tree the budget lasts for every block that has still to be shown.
LEMMA BudgetLeft ==
  ASSUME RenderInv, TreePage(page), result = "rendering", work # <<>>, work[1].ids # <<>>,
         work[1].ids[1] \in DOMAIN page
  PROVE  budget > 0
<1> DEFINE R == RendersIn(out)
           x == work[1].ids[1]
           f == [i \in R |-> out[i].id]
           T == DOMAIN page \ {x}
<1>1. 1 \in DOMAIN work /\ 1 \in DOMAIN work[1].ids
  BY StackTop, LenProperties, EmptySeq DEF RenderInv, Stack
<1>2. x \notin Shown(out) /\ OnceEach(page, out)
  BY <1>1 DEF RenderInv, Stack, OnTree
<1>3. \A i \in R : out[i].id \in T
  BY <1>2 DEF OnceEach, RendersIn, IsBlock, Shown
<1>4. f \in Injection(R, T)
  BY <1>2, <1>3 DEF Injection, IsInjective, OnceEach
<1>5. IsFiniteSet(DOMAIN page) /\ Cardinality(DOMAIN page) \in Nat
  BY RenderAssumption, FS_CardinalityType DEF RenderInv
<1>6. IsFiniteSet(T) /\ Cardinality(T) = Cardinality(DOMAIN page) - 1
  BY <1>5, FS_RemoveElement
<1>7. Cardinality(R) <= Cardinality(DOMAIN page) - 1
  BY <1>4, <1>6, FS_Injection
<1>8. Cardinality(R) + budget = blockRenderBudget(page) /\ Cardinality(R) \in Nat
  BY FS_CardinalityType DEF RenderInv
<1>9. blockRenderBudget(page) >= Cardinality(DOMAIN page)
  <2>1. \A a \in Nat \ {0}, c, d \in Nat : a * c + d >= c
    OBVIOUS
  <2>2. QED
    BY <1>5, <2>1, RenderAssumption DEF blockRenderBudget
<1>10. budget \in Int /\ blockRenderBudget(page) \in Int
  BY <1>5, RenderAssumption DEF RenderInv, TypeOK, blockRenderBudget
<1>11. QED
  BY <1>5, <1>7, <1>8, <1>9, <1>10

\* Before the page is checked nothing is written.
LEMMA InitInv == Init => RenderInv
<1> SUFFICES ASSUME Init
             PROVE  RenderInv
  OBVIOUS
<1>1. work \in Seq(Call) /\ DOMAIN work = {} /\ out \in Seq(Elem) /\ open \in Seq(Elem)
      /\ DOMAIN out = {}
  BY EmptySeq DEF Init
<1>2. Shown(out) = {} /\ RendersIn(out) = {}
  BY <1>1 DEF Shown, RendersIn
<1>3. Stack(page, out, work)
  BY <1>1, <1>2 DEF Stack, Nested, ItemsExist, OnTree
<1>4. OnceEach(page, out)
  BY <1>2 DEF OnceEach
<1>5. TypeOK
  BY <1>1 DEF Init, TypeOK
<1>6. QED
  BY <1>1, <1>3, <1>4, <1>5 DEF Init, RenderInv

\* Elements are elements, and what a call makes is a call.
LEMMA Making ==
  ASSUME NEW d \in Nat
  PROVE  /\ \A id \in Id, is \in {"page", "list", "block", "panel"} :
              /\ Element(is, id, d) \in Elem
              /\ Element(is, id, d).is = is /\ Element(is, id, d).id = id
         /\ \A ids \in Seq(Id) :
              /\ Blocks(ids, d) \in Call /\ Items(ids, d) \in Call /\ Panels(ids, d) \in Call
         /\ \A e \in Elem : Close(e) \in Call
<1>1. \A id \in Id, is \in {"page", "list", "block", "panel"} :
        /\ Element(is, id, d) \in Elem
        /\ Element(is, id, d).is = is /\ Element(is, id, d).id = id
  BY DEF Element, Elem
<1>2. Body \in Elem
  BY RenderAssumption DEF Element, Elem, Body
<1>3. \A ids \in Seq(Id) :
        /\ Blocks(ids, d) \in Call /\ Items(ids, d) \in Call /\ Panels(ids, d) \in Call
  BY <1>2 DEF Blocks, Items, Panels, Call
<1>4. \A e \in Elem : Close(e) \in Call
  BY EmptySeq DEF Close, Call
<1>5. QED
  BY <1>1, <1>3, <1>4

\* The walk starts with the body and the content of the page.
LEMMA StartInv == RenderInv /\ Start => RenderInv'
<1> SUFFICES ASSUME RenderInv, Start
             PROVE  RenderInv'
  OBVIOUS
<1> DEFINE c == page[Root].content
           w == <<Blocks(c, 0), Close(Body)>>
<1>1. /\ result = "checking" /\ Root \in DOMAIN page /\ result' = "rendering"
      /\ budget' = blockRenderBudget(page) /\ out' = <<Body>> /\ open' = <<Body>>
      /\ work' = w /\ page' = page /\ refused' = refused /\ ~refused /\ page \in Pages
      /\ refused \in BOOLEAN
  BY DEF Start, Accepted, Exists, RenderInv, TypeOK
<1>2. c \in Seq(Id) /\ IsFiniteSet(DOMAIN page)
  BY <1>1, RenderAssumption
<1>3. Body \in Elem /\ Body.is = "page"
  BY Making, RenderAssumption DEF Body
<1>4. Blocks(c, 0) \in Call /\ Close(Body) \in Call
  BY <1>2, <1>3, Making
<1>5. /\ w \in Seq(Call) /\ DOMAIN w = 1..2
      /\ w[1].do = "blocks" /\ w[1].ids = c /\ w[1].depth = 0
      /\ w[2].do = "close" /\ w[2].ids = <<>>
  BY <1>4 DEF Blocks, Close
<1>6. <<Body>> \in Seq(Elem) /\ DOMAIN <<Body>> = {1} /\ <<Body>>[1] = Body /\ <<Body>> # <<>>
  BY <1>3
<1>7. Shown(<<Body>>) = {} /\ RendersIn(<<Body>>) = {}
  BY <1>3, <1>6 DEF Shown, RendersIn, IsBlock
<1> HIDE DEF w
<1>8. Nested(w) /\ ItemsExist(page, w)
  BY <1>5, RenderAssumption DEF Nested, ItemsExist
<1>9. ASSUME TreePage(page)
      PROVE  OnTree(page, w, {})
  <2>1. \A i \in DOMAIN w : \A k \in DOMAIN w[i].ids : i = 1 /\ k \in DOMAIN c /\ w[i].ids[k] = c[k]
    BY <1>5, EmptySeq
  <2>2. \A k \in DOMAIN c : Hangs(page, {}, c[k])
    BY <1>1, <1>9 DEF Hangs, TreePage
  <2>3. \A k, l \in DOMAIN c : c[k] = c[l] => k = l
    BY <1>1, <1>9 DEF TreePage
  <2>4. QED
    BY <2>1, <2>2, <2>3 DEF OnTree
<1>10. Stack(page, <<Body>>, w)
  BY <1>5, <1>7, <1>8, <1>9 DEF Stack
<1>11. OnceEach(page, <<Body>>)
  BY <1>7 DEF OnceEach
<1>12. /\ blockRenderBudget(page) \in Nat
       /\ Cardinality(RendersIn(<<Body>>)) + blockRenderBudget(page) = blockRenderBudget(page)
       /\ IsFiniteSet(RendersIn(<<Body>>))
  <2>1. Cardinality(DOMAIN page) \in Nat
    BY <1>2, FS_CardinalityType
  <2>2. blockRenderBudget(page) \in Nat
    BY <2>1, RenderAssumption DEF blockRenderBudget
  <2>3. IsFiniteSet(RendersIn(<<Body>>)) /\ Cardinality(RendersIn(<<Body>>)) = 0
    BY <1>7, FS_EmptySet
  <2>4. QED
    BY <2>2, <2>3
<1>13. \A i \in DOMAIN w : w[i].do \in {"blocks", "items", "panels", "close"}
  BY <1>5
<1>14. QED
  BY <1>1, <1>6, <1>10, <1>11, <1>12, <1>13 DEF RenderInv, TypeOK, blockRenderBudget

\* What is common to the steps of the walk.
LEMMA Walking ==
  ASSUME RenderInv, result = "rendering", work # <<>>
  PROVE  /\ Top = work[1] /\ work \in Seq(Call) /\ out \in Seq(Elem) /\ open \in Seq(Elem)
         /\ 1 \in DOMAIN work /\ Top.depth \in Nat /\ Top.ids \in Seq(Id)
         /\ DOMAIN Top.ids = 1..Len(Top.ids) /\ Len(Top.ids) \in Nat
         /\ Top.ids # <<>> => /\ Len(Top.ids) > 0 /\ Head(Top.ids) = Top.ids[1] /\ Top.ids[1] \in Id
         /\ Top.do = "items" => /\ Top.depth <= MaxDepth
                                /\ \A k \in DOMAIN Top.ids :
                                     Top.ids[k] \in DOMAIN page /\ Kind(Top.ids[k]) \in Lists
         /\ Top.do = "panels" => Top.depth <= MaxDepth
         /\ page \in Pages /\ refused \in BOOLEAN /\ budget \in Nat
         /\ out # <<>> /\ Stack(page, out, work)
<1>1. work \in Seq(Call) /\ Stack(page, out, work)
  BY DEF RenderInv, Stack
<1>2. 1 \in DOMAIN work /\ Top = work[1] /\ Top \in Call
  BY <1>1, StackTop DEF Top
<1>3. Top.depth \in Nat /\ Top.ids \in Seq(Id)
  BY <1>2 DEF Call
<1>4. DOMAIN Top.ids = 1..Len(Top.ids) /\ Len(Top.ids) \in Nat
  BY <1>3, LenProperties
<1>5. Top.ids # <<>> => Len(Top.ids) > 0 /\ Head(Top.ids) = Top.ids[1] /\ Top.ids[1] \in Id
  <2> SUFFICES ASSUME Top.ids # <<>>
               PROVE  Len(Top.ids) > 0 /\ Head(Top.ids) = Top.ids[1] /\ Top.ids[1] \in Id
    OBVIOUS
  <2>1. Len(Top.ids) \in Nat \ {0}
    BY <1>3, EmptySeq
  <2>2. Head(Top.ids) = Top.ids[1]
    BY <1>3, <2>1
  <2>3. QED
    BY <1>3, <2>1, <2>2, ElementOfSeq
<1>6. /\ Top.do = "items" => /\ Top.depth <= MaxDepth
                             /\ \A k \in DOMAIN Top.ids :
                                  Top.ids[k] \in DOMAIN page /\ Kind(Top.ids[k]) \in Lists
      /\ Top.do = "panels" => Top.depth <= MaxDepth
  BY <1>1, <1>2 DEF Stack, Nested, ItemsExist, Kind
<1>7. QED
  BY <1>1, <1>2, <1>3, <1>4, <1>5, <1>6 DEF RenderInv, TypeOK

\* What a step of the walk that writes nothing has to keep.
LEMMA Passing ==
  ASSUME RenderInv, result = "rendering", work # <<>>, Stack(page, out, work'),
         page' = page, result' = result, budget' = budget, out' = out,
         open' \in Seq(Elem), refused' \in BOOLEAN, TreePage(page) => ~refused'
  PROVE  RenderInv'
<1>1. \A i \in DOMAIN work' : work'[i].do \in {"blocks", "items", "panels", "close"}
  <2>1. \A i \in DOMAIN work' : work'[i] \in Call
    BY LenProperties, ElementOfSeq DEF Stack
  <2>2. QED
    BY <2>1 DEF Call
<1>2. TypeOK'
  BY <1>1 DEF RenderInv, TypeOK
<1>3. Stack(page, out, work)'
  BY DEF Stack
<1>4. QED
  BY <1>2, <1>3 DEF RenderInv, blockRenderBudget

\* What a step that writes e has to keep.
LEMMA Writing ==
  ASSUME RenderInv, result = "rendering", work # <<>>, NEW e \in Elem,
         out' = Append(out, e), Stack(page, out', work'),
         TreePage(page) => OnceEach(page, out'),
         IsBlock(e) => Spend, ~IsBlock(e) => budget' = budget,
         page' = page, result' = result, open' \in Seq(Elem), refused' = refused
  PROVE  RenderInv'
<1> DEFINE R == RendersIn(out)
           Q == RendersIn(out')
<1>1. \A i \in DOMAIN work' : work'[i].do \in {"blocks", "items", "panels", "close"}
  <2>1. \A i \in DOMAIN work' : work'[i] \in Call
    BY LenProperties, ElementOfSeq DEF Stack
  <2>2. QED
    BY <2>1 DEF Call
<1>2. out \in Seq(Elem) /\ out # <<>> /\ budget \in Nat
  BY DEF RenderInv, TypeOK
<1>3. IsFiniteSet(R) /\ Cardinality(R) \in Nat /\ Cardinality(R) + budget = blockRenderBudget(page)
  BY <1>2, FS_CardinalityType DEF RenderInv
<1>4. /\ out' \in Seq(Elem) /\ out' # <<>>
      /\ IsBlock(e) => Q = R \union {Len(out) + 1}
      /\ ~IsBlock(e) => Q = R
      /\ Len(out) + 1 \notin R
  BY <1>2, Written
<1>5. budget' \in Nat /\ IsFiniteSet(Q) /\ Cardinality(Q) + budget' = blockRenderBudget(page)
  <2>1. CASE IsBlock(e)
    <3>1. IsFiniteSet(Q) /\ Cardinality(Q) = Cardinality(R) + 1
      BY <1>3, <1>4, <2>1, FS_AddElement
    <3>2. QED
      BY <1>2, <1>3, <2>1, <3>1 DEF Spend
  <2>2. CASE ~IsBlock(e)
    BY <1>2, <1>3, <1>4, <2>2
  <2>3. QED
    BY <2>1, <2>2
<1>6. TypeOK'
  BY <1>1, <1>5 DEF RenderInv, TypeOK
<1>7. Stack(page, out, work)'
  BY DEF Stack
<1>8. QED
  BY <1>4, <1>5, <1>6, <1>7 DEF RenderInv, blockRenderBudget

\* What a step that shows a block or a tab has to keep.
LEMMA Showing ==
  ASSUME RenderInv, result = "rendering", work # <<>>,
         Top.do # "close", Top.depth <= MaxDepth, Top.ids # <<>>, Head(Top.ids) \in DOMAIN page,
         NEW is \in {"block", "panel"},
         NEW P \in Seq(Call), Callable(P, Top.depth), \A i \in DOMAIN P : P[i].do # "items",
         TreePage(page) => (1 \in DOMAIN P => P[1].ids \in {<<>>, page[Head(Top.ids)].content}),
         out' = Append(out, Element(is, Head(Top.ids), Top.depth)),
         work' = P \o Rest(1),
         is = "block" => Spend, is = "panel" => budget' = budget,
         page' = page, result' = result, open' \in Seq(Elem), refused' = refused
  PROVE  RenderInv'
<1> DEFINE e == Element(is, Head(Top.ids), Top.depth)
<1>1. e \in Elem /\ e.is = is /\ e.id = Top.ids[1] /\ e.id = Head(Top.ids)
  BY Walking, Making, SMTT(30)
<1> HIDE DEF e
<1>2. out' = Append(out, e) /\ work' = Calling(work, P, 1)
  BY DEF e, Calling, Rest, Top
<1>3. /\ Stack(page, Append(out, e), Calling(work, P, 1))
      /\ TreePage(page) /\ OnceEach(page, out) => OnceEach(page, Append(out, e))
  BY <1>1, Walking, DescendStack
<1>4. TreePage(page) => OnceEach(page, out')
  BY <1>2, <1>3 DEF RenderInv
<1>5. QED
  BY <1>1, <1>2, <1>3, <1>4, Writing DEF IsBlock

\* A step that passes over the first id of a call.
LEMMA Skipping ==
  ASSUME RenderInv, result = "rendering", work # <<>>,
         Top.do # "close", Top.depth <= MaxDepth, Top.ids # <<>>
  PROVE  Stack(page, out, Rest(1))
<1>1. <<>> \in Seq(Call) /\ DOMAIN <<>> = {}
  OBVIOUS
<1>2. Callable(<<>>, Top.depth) /\ ItemsExist(page, <<>>)
  BY <1>1 DEF Callable, ItemsExist
<1>3. 1 \in 0..Len(Top.ids)
  BY Walking
<1>4. Stack(page, out, Calling(work, <<>>, 1))
  BY <1>1, <1>2, <1>3, Walking, RegroupStack
<1>5. Calling(work, <<>>, 1) = Rest(1)
  <2>1. Rest(1) \in Seq(Call)
    <3>1. Pushed(work, <<>>, 1, Calling(work, <<>>, 1))
      BY <1>1, <1>3, Walking, Push DEF Calling
    <3>2. [Top EXCEPT !.ids = SubSeq(@, 1 + 1, Len(@))] \in Call
      <4>1. \A i \in 1 + 1..Len(Top.ids) : Top.ids[i] \in Id
        BY Walking, ElementOfSeq
      <4>2. SubSeq(Top.ids, 1 + 1, Len(Top.ids)) \in Seq(Id)
        BY <4>1, Walking, SubSeqProperties
      <4>3. Top \in Call
        BY Walking, ElementOfSeq, StackTop
      <4>4. QED
        BY <4>2, <4>3 DEF Call
    <3>3. <<[Top EXCEPT !.ids = SubSeq(@, 1 + 1, Len(@))]>> \in Seq(Call) /\ Tail(work) \in Seq(Call)
      BY <3>2, Walking, HeadTailProperties
    <3>4. QED
      BY <3>3, ConcatProperties DEF Rest
  <2>2. QED
    BY <2>1, ConcatEmptySeq DEF Calling, Rest, Top
<1>6. QED
  BY <1>4, <1>5

\* What is below a block is one call at most, and the content of the block unless it
\* refers to another one.
LEMMA BelowCalls ==
  ASSUME page \in Pages, NEW id \in DOMAIN page, NEW d \in Nat
  PROVE  LET B == Below(id, d) IN
         \/ B = <<>>
         \/ \E c \in Seq(Id) : /\ B = <<Blocks(c, d + 1)>> \/ B = <<Panels(c, d)>>
                               /\ Kind(id) # "reference" => c = page[id].content
<1>1. page[id].content \in Seq(Id)
  BY RenderAssumption
<1>2. CASE Kind(id) = "leaf"
  BY <1>2, Zenon DEF Below
<1>3. CASE Kind(id) = "reference" /\ Exists(page[id].target)
  <2>1. page[page[id].target].content \in Seq(Id)
    BY <1>3, RenderAssumption DEF Exists
  <2>2. Below(id, d) = <<Blocks(page[page[id].target].content, d + 1)>>
    <3>1. Kind(id) # "leaf" /\ Kind(id) # "tabs"
      BY <1>3
    <3>2. QED
      BY <1>3, <3>1, Zenon DEF Below
  <2>3. QED
    BY <1>3, <2>1, <2>2
<1>4. CASE Kind(id) = "reference" /\ ~Exists(page[id].target)
  <2>1. Kind(id) # "leaf" /\ Kind(id) # "tabs"
    BY <1>4
  <2>2. QED
    BY <1>4, <2>1, Zenon DEF Below
<1>5. CASE Kind(id) = "tabs"
  <2>1. Kind(id) # "leaf" /\ Kind(id) # "reference"
    BY <1>5
  <2>2. Below(id, d) = <<Panels(page[id].content, d)>>
    BY <1>5, <2>1, Zenon DEF Below
  <2>3. QED
    BY <1>1, <2>2
<1>6. CASE Kind(id) \notin {"leaf", "reference", "tabs"}
  <2>1. Kind(id) # "leaf" /\ Kind(id) # "reference" /\ Kind(id) # "tabs"
    BY <1>6
  <2>2. Below(id, d) = <<Blocks(page[id].content, d + 1)>>
    BY <2>1, Zenon DEF Below
  <2>3. QED
    BY <1>1, <2>2
<1>7. QED
  BY <1>2, <1>3, <1>4, <1>5, <1>6
--------------------------------------------------------------------------------
\* No step of RenderPage leaves the invariant.
LEMMA StepInv == RenderInv /\ [Next]_vars => RenderInv'
<1> SUFFICES ASSUME RenderInv, [Next]_vars
             PROVE  RenderInv'
  OBVIOUS
<1>1. CASE Reject
  BY <1>1 DEF Reject, RenderInv, TypeOK, Stack, blockRenderBudget
<1>2. CASE Start
  BY <1>2, StartInv
<1>3. CASE Return
  <2>1. Stack(page, out, Tail(work))
    BY <1>3, PopStack DEF Return, RenderInv
  <2>2. QED
    BY <1>3, <2>1, Passing DEF Return, RenderInv, TypeOK
<1>4. CASE SkipMissing
  <2>1. /\ result = "rendering" /\ work # <<>> /\ Top.do # "close" /\ Top.ids # <<>>
        /\ work' = Rest(1) /\ UNCHANGED <<page, result, budget, out, open, refused>>
    BY <1>4 DEF SkipMissing, NextId, Doing
  <2>2. Top.depth <= MaxDepth
    BY <1>4, <2>1, Walking DEF SkipMissing, NextId, Doing
  <2>3. Stack(page, out, Rest(1))
    BY <2>1, <2>2, Skipping
  <2>4. QED
    BY <2>1, <2>3, Passing DEF RenderInv, TypeOK
<1>5. CASE OpenList
  <2> DEFINE e == Element("list", Head(Top.ids), Top.depth)
  <2>1. /\ result = "rendering" /\ work # <<>> /\ Top.do = "blocks" /\ Top.ids # <<>>
        /\ Top.depth <= MaxDepth
        /\ out' = Append(out, e) /\ open' = Append(open, e)
        /\ UNCHANGED <<page, result, budget, refused>>
    BY <1>5 DEF OpenList, NextId, Doing, Begin, Write
  <2>2. PICK n \in 1..Len(Top.ids) :
          /\ IsGroup(Top.ids, n)
          /\ work' = <<Items(SubSeq(Top.ids, 1, n), Top.depth), Close(e)>> \o Rest(n)
    BY <1>5 DEF OpenList
  <2>3. e \in Elem /\ e.is = "list"
    BY <2>1, Walking, Making
  <2> DEFINE ids == SubSeq(Top.ids, 1, n)
             P == <<Items(ids, Top.depth), Close(e)>>
  <2>4. ids \in Seq(Id) /\ DOMAIN ids = 1..n /\ \A k \in 1..n : ids[k] = Top.ids[k]
    <3>1. Top.ids \in Seq(Id) /\ DOMAIN Top.ids = 1..Len(Top.ids) /\ Len(Top.ids) \in Nat
      BY <2>1, Walking
    <3>2. \A k \in 1..n : Top.ids[k] \in Id
      BY <3>1, ElementOfSeq
    <3>3. /\ ids \in Seq(Id) /\ Len(ids) = n
          /\ \A k \in 1..n : ids[k] = Top.ids[1 + k - 1]
      BY <3>1, <3>2, SubSeqProperties
    <3>4. DOMAIN ids = 1..n
      BY <3>3, LenProperties
    <3>5. QED
      BY <3>1, <3>3, <3>4
  <2>5. /\ Items(ids, Top.depth) \in Call /\ Close(e) \in Call
        /\ Items(ids, Top.depth).do = "items" /\ Items(ids, Top.depth).ids = ids
        /\ Items(ids, Top.depth).depth = Top.depth
        /\ Close(e).do = "close" /\ Close(e).ids = <<>>
    BY <2>1, <2>3, <2>4, Walking, Making DEF Items, Close
  <2>6. /\ P \in Seq(Call) /\ DOMAIN P = 1..2
        /\ P[1] = Items(ids, Top.depth) /\ P[2] = Close(e)
    BY <2>5
  <2> HIDE DEF P, ids, e
  <2>7. Callable(P, Top.depth)
    BY <2>5, <2>6 DEF Callable
  <2>8. ItemsExist(page, P)
    <3>1. Kind(Top.ids[1]) \in Lists
      BY <1>5, <2>1, Walking DEF OpenList
    <3>2. QED
      BY <2>2, <2>4, <2>5, <2>6, <3>1, SMTT(30) DEF ItemsExist, IsGroup, Exists, Kind
  <2>9. n \in 0..Len(Top.ids)
    BY <2>1, Walking
  <2>10. Stack(page, out, Calling(work, P, n))
    BY <2>1, <2>4, <2>5, <2>6, <2>7, <2>8, <2>9, Walking, RegroupStack
  <2>11. Calling(work, P, n) = work'
    BY <2>2 DEF Calling, Rest, Top, P, ids, e
  <2>12. /\ Shown(Append(out, e)) = Shown(out)
         /\ OnceEach(page, out) => OnceEach(page, Append(out, e))
    BY <2>1, <2>3, Walking, Written
  <2>13. Stack(page, out', work')
    BY <2>1, <2>10, <2>11, <2>12 DEF Stack, e
  <2>14. TreePage(page) => OnceEach(page, out')
    BY <2>1, <2>12 DEF RenderInv, e
  <2>15. open' \in Seq(Elem)
    BY <2>1, <2>3, Walking, AppendProperties DEF e
  <2>16. QED
    BY <2>1, <2>3, <2>13, <2>14, <2>15, Writing DEF IsBlock, e
<1>6. CASE RenderItem
  <2> DEFINE id == Head(Top.ids)
             e  == Element("block", id, Top.depth)
             P  == <<Blocks(page[id].content, Top.depth + 1), Close(e)>>
  <2>1. /\ result = "rendering" /\ work # <<>> /\ Top.do = "items" /\ Top.ids # <<>>
        /\ Spend /\ out' = Append(out, e) /\ open' = Append(open, e) /\ work' = P \o Rest(1)
        /\ UNCHANGED <<page, result, refused>>
    BY <1>6 DEF RenderItem, Doing, Begin, Write
  <2>2. id \in DOMAIN page /\ id \in Id /\ Top.depth <= MaxDepth /\ Top.depth + 1 \in Nat
    BY <2>1, Walking
  <2>3. page[id].content \in Seq(Id) /\ e \in Elem
    BY <2>1, <2>2, Walking, Making, RenderAssumption
  <2>4. Callable(P, Top.depth) /\ P \in Seq(Call)
        /\ \A i \in DOMAIN P : P[i].do # "items"
        /\ P[1].ids = page[id].content
    <3>1. Blocks(page[id].content, Top.depth + 1) \in Call /\ Close(e) \in Call
      BY <2>2, <2>3, Making
    <3>2. P \in Seq(Call) /\ DOMAIN P = 1..2
      BY <3>1
    <3>3. QED
      BY <3>2 DEF Callable, Blocks, Close
  <2>5. open' \in Seq(Elem)
    BY <2>1, <2>3, Walking, AppendProperties
  <2> HIDE DEF P
  <2>6. QED
    BY <2>1, <2>2, <2>4, <2>5, Showing
<1>7. CASE RefuseItem
  <2>1. /\ result = "rendering" /\ work # <<>> /\ Top.do = "items" /\ Top.ids # <<>> /\ budget = 0
        /\ work' = Tail(work) /\ refused' = TRUE /\ UNCHANGED <<page, result, budget, out, open>>
    BY <1>7 DEF RefuseItem, Doing
  <2>2. ~TreePage(page)
    <3>1. work[1].ids # <<>> /\ work[1].ids[1] \in DOMAIN page
      BY <2>1, Walking
    <3>2. QED
      BY <2>1, <3>1, BudgetLeft
  <2>3. Stack(page, out, Tail(work))
    BY <2>1, Walking, PopStack
  <2>4. QED
    BY <2>1, <2>2, <2>3, Walking, Passing
<1>8. CASE RenderBlock
  <2> DEFINE id == Head(Top.ids)
             e  == Element("block", id, Top.depth)
             B  == Below(id, Top.depth)
             P  == IF Kind(id) \in Wraps THEN B \o <<Close(e)>> ELSE B
  <2>1. /\ result = "rendering" /\ work # <<>> /\ Top.do = "blocks" /\ Top.ids # <<>>
        /\ id \in DOMAIN page /\ Top.depth <= MaxDepth
        /\ Spend /\ UNCHANGED <<page, result, refused>>
    BY <1>8 DEF RenderBlock, NextBlock, NextId, Doing, Exists
  <2>2. out' = Append(out, e) /\ open' \in {open, Append(open, e)} /\ work' = P \o Rest(1)
    BY <1>8 DEF RenderBlock, Begin, Write
  <2>3. e \in Elem /\ Close(e) \in Call /\ Top.depth \in Nat /\ Top.depth + 1 \in Nat
    BY <2>1, Walking, Making
  <2>4. \/ B = <<>>
        \/ \E c \in Seq(Id) : /\ B = <<Blocks(c, Top.depth + 1)>> \/ B = <<Panels(c, Top.depth)>>
                              /\ Kind(id) # "reference" => c = page[id].content
    BY <2>1, <2>3, Walking, BelowCalls
  <2> HIDE DEF B
  <2>5. /\ B \in Seq(Call) /\ Len(B) \in {0, 1} /\ Callable(B, Top.depth)
        /\ \A i \in DOMAIN B : B[i].do # "items"
        /\ Kind(id) # "reference" => (1 \in DOMAIN B => B[1].ids = page[id].content)
    <3>1. CASE B = <<>>
      BY <3>1 DEF Callable
    <3>2. ASSUME NEW c \in Seq(Id),
                 B = <<Blocks(c, Top.depth + 1)>> \/ B = <<Panels(c, Top.depth)>>,
                 Kind(id) # "reference" => c = page[id].content
          PROVE  /\ B \in Seq(Call) /\ Len(B) \in {0, 1} /\ Callable(B, Top.depth)
                 /\ \A i \in DOMAIN B : B[i].do # "items"
                 /\ Kind(id) # "reference" => (1 \in DOMAIN B => B[1].ids = page[id].content)
      <4>1. Blocks(c, Top.depth + 1) \in Call /\ Panels(c, Top.depth) \in Call
        BY <2>3, Making
      <4>2. \A b \in Call : <<b>> \in Seq(Call) /\ DOMAIN <<b>> = {1} /\ Len(<<b>>) = 1
        OBVIOUS
      <4>3. B \in Seq(Call) /\ DOMAIN B = {1} /\ Len(B) = 1
        BY <3>2, <4>1, <4>2, Zenon
      <4>4. QED
        BY <3>2, <4>3 DEF Callable, Blocks, Panels
    <3>3. QED
      BY <2>4, <3>1, <3>2
  <2>6. /\ P \in Seq(Call) /\ Callable(P, Top.depth)
        /\ \A i \in DOMAIN P : P[i].do # "items"
        /\ Kind(id) # "reference" =>
             (1 \in DOMAIN P => P[1].ids \in {<<>>, page[id].content})
    <3>1. CASE Kind(id) \in Wraps
      <4> DEFINE C == <<Close(e)>>
      <4>1. C \in Seq(Call) /\ Len(C) = 1 /\ C[1].do = "close" /\ C[1].ids = <<>>
        BY <2>3 DEF Close
      <4>2. DOMAIN B = 1..Len(B)
        BY <2>5, LenProperties
      <4> HIDE DEF C
      <4>3. /\ B \o C \in Seq(Call) /\ Len(B \o C) = Len(B) + 1
            /\ \A i \in 1..Len(B) + 1 :
                 (B \o C)[i] = IF i <= Len(B) THEN B[i] ELSE C[i - Len(B)]
        BY <2>5, <4>1, ConcatProperties
      <4>4. DOMAIN (B \o C) = 1..Len(B) + 1
        BY <4>3, LenProperties
      <4>5. \A i \in DOMAIN (B \o C) :
              \/ i \in DOMAIN B /\ (B \o C)[i] = B[i]
              \/ (B \o C)[i].do = "close" /\ (B \o C)[i].ids = <<>>
        BY <2>5, <4>1, <4>2, <4>3, <4>4
      <4>6. P = B \o C
        BY <3>1 DEF C
      <4> HIDE DEF P
      <4>7. QED
        BY <2>5, <4>3, <4>5, <4>6 DEF Callable
    <3>2. CASE Kind(id) \notin Wraps
      BY <2>5, <3>2
    <3>3. QED
      BY <3>1, <3>2
  <2>7. open' \in Seq(Elem)
    <3>1. open \in Seq(Elem)
      BY DEF RenderInv
    <3>2. Append(open, e) \in Seq(Elem)
      BY <2>3, <3>1, AppendProperties
    <3>3. QED
      BY <2>2, <3>1, <3>2
  <2>8. TreePage(page) => Kind(id) # "reference"
    BY <2>1 DEF TreePage, Kind
  <2> HIDE DEF P
  <2>9. QED
    BY <2>1, <2>2, <2>6, <2>7, <2>8, Showing
<1>9. CASE RefuseBlock
  <2>1. /\ result = "rendering" /\ work # <<>> /\ Top.do = "blocks" /\ Top.ids # <<>> /\ budget = 0
        /\ Head(Top.ids) \in DOMAIN page /\ Top.depth <= MaxDepth
        /\ work' = Rest(1) /\ refused' = TRUE /\ UNCHANGED <<page, result, budget, out, open>>
    BY <1>9 DEF RefuseBlock, NextBlock, NextId, Doing, Exists
  <2>2. ~TreePage(page)
    <3>1. work[1].ids # <<>> /\ work[1].ids[1] \in DOMAIN page
      BY <2>1, Walking
    <3>2. QED
      BY <2>1, <3>1, BudgetLeft
  <2>3. Stack(page, out, Rest(1))
    BY <2>1, Skipping
  <2>4. QED
    BY <2>1, <2>2, <2>3, Walking, Passing
<1>10. CASE OpenPanel
  <2> DEFINE id == Head(Top.ids)
             e  == Element("panel", id, Top.depth)
             P  == <<Blocks(page[id].content, Top.depth + 1), Close(e)>>
  <2>1. /\ result = "rendering" /\ work # <<>> /\ Top.do = "panels" /\ Top.ids # <<>>
        /\ id \in DOMAIN page
        /\ out' = Append(out, e) /\ open' = Append(open, e) /\ work' = P \o Rest(1)
        /\ UNCHANGED <<page, result, budget, refused>>
    BY <1>10 DEF OpenPanel, Doing, Begin, Write, Exists
  <2>2. id \in Id /\ Top.depth <= MaxDepth /\ Top.depth + 1 \in Nat
    BY <2>1, Walking
  <2>3. page[id].content \in Seq(Id) /\ e \in Elem
    BY <2>1, <2>2, Walking, Making, RenderAssumption
  <2>4. Callable(P, Top.depth) /\ P \in Seq(Call)
        /\ \A i \in DOMAIN P : P[i].do # "items"
        /\ P[1].ids = page[id].content
    <3>1. Blocks(page[id].content, Top.depth + 1) \in Call /\ Close(e) \in Call
      BY <2>2, <2>3, Making
    <3>2. P \in Seq(Call) /\ DOMAIN P = 1..2
      BY <3>1
    <3>3. QED
      BY <3>2 DEF Callable, Blocks, Close
  <2>5. open' \in Seq(Elem)
    BY <2>1, <2>3, Walking, AppendProperties
  <2> HIDE DEF P
  <2>6. QED
    BY <2>1, <2>2, <2>4, <2>5, Showing
<1>11. CASE EndElement
  <2>1. /\ result = "rendering" /\ work # <<>> /\ work' = Tail(work)
        /\ open' = SubSeq(open, 1, Len(open) - 1)
        /\ UNCHANGED <<page, result, budget, out, refused>>
    BY <1>11 DEF EndElement, Doing
  <2>2. Stack(page, out, Tail(work))
    BY <2>1, Walking, PopStack
  <2>3. open' \in Seq(Elem)
    <3>1. open \in Seq(Elem) /\ Len(open) \in Nat
      BY <2>1, Walking, LenProperties
    <3>2. \A i \in 1..Len(open) - 1 : open[i] \in Elem
      BY <3>1, ElementOfSeq
    <3>3. QED
      BY <2>1, <3>1, <3>2, SubSeqProperties
  <2>4. QED
    BY <2>1, <2>2, <2>3, Passing DEF RenderInv, TypeOK
<1>12. CASE Finish
  BY <1>12 DEF Finish, RenderInv, TypeOK, Stack, blockRenderBudget
<1>13. CASE UNCHANGED vars
  BY <1>13 DEF vars, RenderInv, TypeOK, Stack, blockRenderBudget
<1>14. QED
  BY <1>1, <1>2, <1>3, <1>4, <1>5, <1>6, <1>7, <1>8, <1>9, <1>10, <1>11, <1>12, <1>13
  DEF Next, Walk

\* The inductive invariant of the walk, for any page.
THEOREM RenderInvariance == Spec => []RenderInv
  BY InitInv, StepInv, PTL DEF Spec

\* Types, for any page (render.go:86-210).
THEOREM TypeCorrect == Spec => []TypeOK
<1>1. RenderInv => TypeOK
  BY DEF RenderInv
<1>2. QED
  BY <1>1, RenderInvariance, PTL

\* Whatever cycles the content has, calls inside each other are ever deeper and the
\* deepest is one that returns at once.
THEOREM CallsNeverTooDeep == Spec => []NestingBounded
<1>1. RenderInv => NestingBounded
  <2> SUFFICES ASSUME RenderInv, NEW i \in DOMAIN work, NEW j \in DOMAIN work, i < j,
                      work[i].do = "blocks", work[j].do = "blocks"
               PROVE  work[j].depth < work[i].depth /\ work[i].depth <= MaxDepth + 1
    BY DEF NestingBounded
  <2>1. QED
    BY DEF RenderInv, Stack, Nested
<1>2. QED
  BY <1>1, RenderInvariance, PTL

\* No more blocks are rendered than the budget allows, however often they occur.
THEOREM BudgetIsTheBound == Spec => []RendersBounded
<1>1. RenderInv => RendersBounded
  <2> SUFFICES ASSUME RenderInv, out # <<>>
               PROVE  Cardinality(Renders) <= blockRenderBudget(page)
    BY DEF RendersBounded
  <2>1. Renders = RendersIn(out)
    BY DEF Renders, RendersIn
  <2>2. /\ Cardinality(Renders) \in Nat /\ budget \in Nat
        /\ Cardinality(Renders) + budget = blockRenderBudget(page)
    BY <2>1, FS_CardinalityType DEF RenderInv, TypeOK
  <2>3. QED
    BY <2>2
<1>2. QED
  BY <1>1, RenderInvariance, PTL

\* A page that is a tree is never cut, however large it is: nothing is rendered twice,
\* so that the budget, which is at least the number of blocks, lasts.
THEOREM TreesAreNeverCut == Spec => []OrdinaryPagesFit
<1>1. RenderInv => OrdinaryPagesFit
  BY DEF RenderInv, OrdinaryPagesFit
<1>2. QED
  BY <1>1, RenderInvariance, PTL
--------------------------------------------------------------------------------
\* What a walk writes.

\* The lists and panels that a call can still begin, not counting those of the blocks
\* it will render; those of a stack; and those that came with the blocks rendered.
Owed(p, c) ==
  IF c.do = "blocks" THEN Len(c.ids) ELSE IF c.do = "panels" THEN BelowTabs(p, c.ids) ELSE 0
Due(p, w) == SumFunction([i \in 1..Len(w) |-> Owed(p, w[i])])
Spread(p, o) == SumFunction([i \in RendersIn(o) |-> Fan(p, o[i].id)])

\* What has been written and what is due stay within the bound.
CostInv ==
  /\ \A i \in RendersIn(out) : out[i].id \in DOMAIN page
  /\ out # <<>> =>
       Len(out) + Due(page, work)
         <= 1 + Cardinality(RendersIn(out)) + Children(page, Root) + Spread(page, out)

\* The numbers are numbers.
LEMMA BelowNat ==
  ASSUME NEW p \in Pages, NEW id
  PROVE  Children(p, id) \in Nat /\ BelowTab(p, id) \in Nat
<1>1. ASSUME id \in DOMAIN p
      PROVE  Len(p[id].content) \in Nat
  BY <1>1, RenderAssumption, LenProperties
<1>2. QED
  BY <1>1 DEF Children, BelowTab

\* The sum of the tabs is that of the first one and that of the rest.
LEMMA TabsInTurn ==
  ASSUME NEW p \in Pages, NEW ids \in Seq(Id)
  PROVE  /\ BelowTabs(p, ids) \in Nat
         /\ ids # <<>> => BelowTabs(p, ids) = BelowTab(p, ids[1])
                                                + BelowTabs(p, SubSeq(ids, 2, Len(ids)))
<1> DEFINE f == [k \in DOMAIN ids |-> BelowTab(p, ids[k])]
           D == DOMAIN ids
<1>1. Len(ids) \in Nat /\ DOMAIN ids = 1..Len(ids)
  BY LenProperties
<1>2. IsFiniteSet(D) /\ \A k \in D : f[k] \in Nat
  <2>1. IsFiniteSet(D)
    BY <1>1, FS_Interval
  <2>2. \A k \in D : f[k] \in Nat
    BY BelowNat
  <2>3. QED
    BY <2>1, <2>2
<1>3. BelowTabs(p, ids) = SumFunctionOnSet(f, D)
  <2>1. DOMAIN f = D /\ BelowTabs(p, ids) = SumFunction(f)
    BY DEF BelowTabs
  <2> HIDE DEF f, D
  <2>2. QED
    BY <2>1, Zenon DEF SumFunction
<1>4. BelowTabs(p, ids) \in Nat
  <2> HIDE DEF f, D
  <2>1. QED
    BY <1>2, <1>3, SumNat
<1>5. ASSUME ids # <<>>
      PROVE  BelowTabs(p, ids) = BelowTab(p, ids[1]) + BelowTabs(p, SubSeq(ids, 2, Len(ids)))
  <2> DEFINE m == Len(ids) - 1
             rest == SubSeq(ids, 2, Len(ids))
             e == [k \in DOMAIN rest |-> BelowTab(p, rest[k])]
  <2>1. m \in Nat /\ Len(ids) = 1 + m
    BY <1>1, <1>5, EmptySeq
  <2>2. rest \in Seq(Id) /\ DOMAIN rest = 1..m /\ \A k \in 1..m : rest[k] = ids[1 + k]
    <3>1. \A i \in 2..Len(ids) : ids[i] \in Id
      BY <1>1, ElementOfSeq
    <3>2. rest \in Seq(Id) /\ Len(rest) = m /\ \A i \in 1..m : rest[i] = ids[2 + i - 1]
      BY <1>1, <2>1, <3>1, SubSeqProperties
    <3> HIDE DEF rest, m
    <3>3. DOMAIN rest = 1..m
      BY <3>2, LenProperties
    <3>4. \A i \in 1..m : 2 + i - 1 = 1 + i
      BY <2>1
    <3>5. QED
      BY <3>2, <3>3, <3>4
  <2>3. BelowTabs(p, rest) = SumFunctionOnSet(e, 1..m)
    <3> HIDE DEF rest, m
    <3>1. DOMAIN e = 1..m /\ BelowTabs(p, rest) = SumFunction(e)
      BY <2>2 DEF BelowTabs
    <3> HIDE DEF e
    <3>2. QED
      BY <3>1, Zenon DEF SumFunction
  <2>4. /\ \A i \in 1..1 : f[i] = f[i] /\ f[i] \in Int
        /\ \A i \in 1..m : f[1 + i] = e[i] /\ e[i] \in Int
    <3>1. \A i \in 1..m : 1 + i \in DOMAIN ids
      BY <1>1, <2>1
    <3>2. 1 \in DOMAIN ids
      BY <1>1, <2>1
    <3> HIDE DEF m, rest
    <3>3. \A i \in 1..m : f[1 + i] = e[i]
      BY <2>2, <3>1
    <3>4. \A k \in D : f[k] \in Int
      BY <1>2
    <3> HIDE DEF f, e
    <3>5. QED
      BY <3>1, <3>2, <3>3, <3>4
  <2>5. f[1] = BelowTab(p, ids[1]) /\ f[1] \in Int
    BY <1>1, <1>2, <2>1
  <2> HIDE DEF f, e, m, rest, D
  <2>6. SumFunctionOnSet(f, 1..(1 + m)) = SumFunctionOnSet(f, 1..1) + SumFunctionOnSet(e, 1..m)
    <3> DEFINE n == 1
    <3>1. /\ n \in Nat /\ \A i \in 1..n : f[i] = f[i] /\ f[i] \in Int
          /\ \A i \in 1..m : f[n + i] = e[i] /\ e[i] \in Int
      BY <2>4
    <3> HIDE DEF n
    <3>2. SumFunctionOnSet(f, 1..(n + m)) = SumFunctionOnSet(f, 1..n) + SumFunctionOnSet(e, 1..m)
      BY <2>1, <3>1, SumOfParts
    <3>3. QED
      BY <3>2 DEF n
  <2>7. SumFunctionOnSet(f, 1..1) = f[1]
    <3>1. 1..1 = {1}
      OBVIOUS
    <3>2. QED
      BY <2>5, <3>1, SumOfOne
  <2>8. D = 1..(1 + m)
    BY <1>1, <2>1 DEF D
  <2>9. QED
    BY <1>3, <2>3, <2>5, <2>6, <2>7, <2>8 DEF rest
<1>6. QED
  BY <1>4, <1>5

\* What a call owes is a number.
LEMMA OwedNat ==
  ASSUME NEW p \in Pages, NEW c \in Call
  PROVE  Owed(p, c) \in Nat
<1>1. c.ids \in Seq(Id)
  BY DEF Call
<1>2. Len(c.ids) \in Nat /\ BelowTabs(p, c.ids) \in Nat
  BY <1>1, LenProperties, TabsInTurn
<1>3. QED
  BY <1>2 DEF Owed

\* Stacks owe what their parts owe.
LEMMA DueOfBoth ==
  ASSUME NEW p \in Pages, NEW a \in Seq(Call), NEW b \in Seq(Call)
  PROVE  Due(p, a) \in Nat /\ Due(p, a \o b) = Due(p, a) + Due(p, b)
<1> DEFINE n == Len(a)
           m == Len(b)
           h == [i \in 1..Len(a \o b) |-> Owed(p, (a \o b)[i])]
           f == [i \in 1..n |-> Owed(p, a[i])]
           e == [i \in 1..m |-> Owed(p, b[i])]
<1>1. n \in Nat /\ m \in Nat
  BY LenProperties
<1>2. /\ Len(a \o b) = n + m
      /\ \A i \in 1..n + m : (a \o b)[i] = IF i <= n THEN a[i] ELSE b[i - n]
  BY ConcatProperties
<1>3. \A i \in 1..n : f[i] \in Nat
  BY ElementOfSeq, OwedNat
<1>4. \A i \in 1..m : e[i] \in Nat
  BY ElementOfSeq, OwedNat
<1>5. \A i \in 1..n : h[i] = f[i]
  <2> SUFFICES ASSUME NEW i \in 1..n
               PROVE  h[i] = f[i]
    OBVIOUS
  <2>1. i \in 1..n + m /\ i <= n
    BY <1>1
  <2> HIDE DEF n, m
  <2>2. (a \o b)[i] = a[i]
    BY <1>2, <2>1
  <2>3. QED
    BY <1>2, <2>1, <2>2
<1>6. \A i \in 1..m : h[n + i] = e[i]
  <2> SUFFICES ASSUME NEW i \in 1..m
               PROVE  h[n + i] = e[i]
    OBVIOUS
  <2>1. n + i \in 1..n + m /\ ~(n + i <= n) /\ n + i - n = i
    BY <1>1
  <2> DEFINE j == n + i
  <2>2. j \in 1..n + m /\ ~(j <= n) /\ j - n = i
    BY <2>1
  <2> HIDE DEF n, m, j
  <2>3. (a \o b)[j] = b[i]
    BY <1>2, <2>2
  <2>4. h[j] = Owed(p, b[i])
    BY <1>2, <2>2, <2>3
  <2>5. QED
    BY <2>4 DEF j
<1>7. Due(p, a) = SumFunctionOnSet(f, 1..n)
  <2>1. DOMAIN f = 1..n /\ Due(p, a) = SumFunction(f)
    BY DEF Due
  <2> HIDE DEF f, n
  <2>2. QED
    BY <2>1, Zenon DEF SumFunction
<1>8. Due(p, b) = SumFunctionOnSet(e, 1..m)
  <2>1. DOMAIN e = 1..m /\ Due(p, b) = SumFunction(e)
    BY DEF Due
  <2> HIDE DEF e, m
  <2>2. QED
    BY <2>1, Zenon DEF SumFunction
<1>9. Due(p, a \o b) = SumFunctionOnSet(h, 1..(n + m))
  <2>1. DOMAIN h = 1..Len(a \o b) /\ Due(p, a \o b) = SumFunction(h)
    BY DEF Due
  <2> HIDE DEF h, n, m
  <2>2. QED
    BY <1>2, <2>1, Zenon DEF SumFunction
<1>10. \A i \in 1..n : h[i] = f[i] /\ f[i] \in Int
  BY <1>3, <1>5
<1>11. \A i \in 1..m : h[n + i] = e[i] /\ e[i] \in Int
  BY <1>4, <1>6
<1> HIDE DEF n, m, h, f, e
<1>12. SumFunctionOnSet(h, 1..(n + m)) = SumFunctionOnSet(f, 1..n) + SumFunctionOnSet(e, 1..m)
  BY <1>1, <1>10, <1>11, SumOfParts, SMTT(30)
<1>13. IsFiniteSet(1..n)
  BY <1>1, FS_Interval
<1>14. SumFunctionOnSet(f, 1..n) \in Nat
  BY <1>3, <1>13, SumNat
<1>15. QED
  BY <1>7, <1>8, <1>9, <1>12, <1>14

\* A stack of one call owes what the call does, an empty one nothing.
LEMMA DueOfOne ==
  ASSUME NEW p \in Pages
  PROVE  /\ Due(p, <<>>) = 0
         /\ \A c \in Call : Due(p, <<c>>) = Owed(p, c)
<1>1. Due(p, <<>>) = 0
  <2> DEFINE f == [i \in 1..Len(<<>>) |-> Owed(p, <<>>[i])]
  <2>1. DOMAIN f = {} /\ Due(p, <<>>) = SumFunction(f)
    BY DEF Due
  <2> HIDE DEF f
  <2>2. Due(p, <<>>) = SumFunctionOnSet(f, {})
    BY <2>1, Zenon DEF SumFunction
  <2>3. QED
    BY <2>2, SumOfNone
<1>2. ASSUME NEW c \in Call
      PROVE  Due(p, <<c>>) = Owed(p, c)
  <2> DEFINE f == [i \in 1..Len(<<c>>) |-> Owed(p, <<c>>[i])]
  <2>1. 1..Len(<<c>>) = {1} /\ <<c>>[1] = c
    OBVIOUS
  <2>2. DOMAIN f = {1} /\ Due(p, <<c>>) = SumFunction(f)
    BY <2>1 DEF Due
  <2>3. f[1] = Owed(p, c) /\ f[1] \in Int
    BY <2>1, OwedNat
  <2> HIDE DEF f
  <2>4. Due(p, <<c>>) = SumFunctionOnSet(f, {1})
    BY <2>2, Zenon DEF SumFunction
  <2>5. QED
    BY <2>3, <2>4, SumOfOne
<1>3. QED
  BY <1>1, <1>2

\* A stack owes what its top and the rest of it do.
LEMMA DueOfTail ==
  ASSUME NEW p \in Pages, NEW w \in Seq(Call), w # <<>>
  PROVE  /\ Due(p, Tail(w)) \in Nat /\ Owed(p, w[1]) \in Nat
         /\ Due(p, w) = Owed(p, w[1]) + Due(p, Tail(w))
<1>1. Len(w) \in Nat \ {0} /\ w[1] \in Call /\ Tail(w) \in Seq(Call) /\ <<w[1]>> \in Seq(Call)
  BY StackTop, HeadTailProperties
<1>2. w = <<w[1]>> \o Tail(w)
  <2>1. 1 \in 1..Len(w) /\ Len(w) \in 1..Len(w)
    BY <1>1
  <2>2. SubSeq(w, 1, Len(w)) = <<w[1]>> \o SubSeq(w, 1 + 1, Len(w))
    BY <2>1, SubSeqRecursiveFirst
  <2>3. SubSeq(w, 1, Len(w)) = w
    BY SubSeqFull
  <2>4. Tail(w) = SubSeq(w, 2, Len(w))
    BY TailIsSubSeq
  <2>5. QED
    BY <2>2, <2>3, <2>4
<1>3. Due(p, <<w[1]>> \o Tail(w)) = Due(p, <<w[1]>>) + Due(p, Tail(w)) /\ Due(p, Tail(w)) \in Nat
  BY <1>1, DueOfBoth
<1>4. Due(p, <<w[1]>>) = Owed(p, w[1]) /\ Owed(p, w[1]) \in Nat
  BY <1>1, DueOfOne, OwedNat
<1>5. QED
  BY <1>2, <1>3, <1>4

\* What is still owed when the top of the stack has dealt with n ids.
LEMMA RestOwes ==
  ASSUME RenderInv, result = "rendering", work # <<>>, NEW n \in 0..Len(Top.ids)
  PROVE  /\ Rest(n) \in Seq(Call)
         /\ Due(page, work) \in Nat /\ Due(page, Rest(n)) \in Nat
         /\ Top.do = "items" => Due(page, Rest(n)) = Due(page, work)
         /\ Top.do = "blocks" => Due(page, Rest(n)) = Due(page, work) - n
         /\ Top.do = "panels" /\ n = 1 =>
              Due(page, Rest(n)) = Due(page, work) - BelowTab(page, Top.ids[1])
<1> DEFINE ids == SubSeq(Top.ids, n + 1, Len(Top.ids))
           t == [Top EXCEPT !.ids = SubSeq(@, n + 1, Len(@))]
<1>1. /\ Top = work[1] /\ work \in Seq(Call) /\ Top \in Call /\ page \in Pages
      /\ Top.ids \in Seq(Id) /\ Len(Top.ids) \in Nat /\ DOMAIN Top.ids = 1..Len(Top.ids)
  BY Walking, StackTop
<1>2. ids \in Seq(Id) /\ Len(ids) = Len(Top.ids) - n
  <2>1. \A i \in n + 1..Len(Top.ids) : Top.ids[i] \in Id
    BY <1>1, ElementOfSeq
  <2>2. QED
    BY <1>1, <2>1, SubSeqProperties
<1>3. t \in Call /\ t.ids = ids /\ t.do = Top.do
  BY <1>1, <1>2 DEF Call
<1>4. Rest(n) = <<t>> \o Tail(work)
  BY DEF Rest
<1> HIDE DEF t
<1>5. <<t>> \in Seq(Call) /\ Tail(work) \in Seq(Call)
  BY <1>1, <1>3, HeadTailProperties
<1>6. Rest(n) \in Seq(Call)
  BY <1>4, <1>5, ConcatProperties
<1>7. Due(page, Rest(n)) = Owed(page, t) + Due(page, Tail(work)) /\ Owed(page, t) \in Nat
  <2>1. Due(page, <<t>> \o Tail(work)) = Due(page, <<t>>) + Due(page, Tail(work))
    BY <1>1, <1>5, DueOfBoth
  <2>2. Due(page, <<t>>) = Owed(page, t) /\ Owed(page, t) \in Nat
    BY <1>1, <1>3, DueOfOne, OwedNat
  <2>3. QED
    BY <1>4, <2>1, <2>2
<1>8. /\ Due(page, Tail(work)) \in Nat /\ Owed(page, Top) \in Nat
      /\ Due(page, work) = Owed(page, Top) + Due(page, Tail(work))
  BY <1>1, DueOfTail
<1>9. CASE Top.do = "blocks"
  <2>1. Owed(page, Top) = Len(Top.ids) /\ Owed(page, t) = Len(ids)
    BY <1>3, <1>9 DEF Owed
  <2>2. QED
    BY <1>1, <1>2, <1>6, <1>7, <1>8, <1>9, <2>1
<1>10. CASE Top.do = "panels" /\ n = 1
  <2>1. Owed(page, Top) = BelowTabs(page, Top.ids) /\ Owed(page, t) = BelowTabs(page, ids)
    BY <1>3, <1>10 DEF Owed
  <2>2. ids = SubSeq(Top.ids, 2, Len(Top.ids)) /\ Top.ids # <<>>
    BY <1>1, <1>10, EmptySeq
  <2>3. /\ BelowTabs(page, Top.ids) = BelowTab(page, Top.ids[1]) + BelowTabs(page, ids)
        /\ BelowTabs(page, ids) \in Nat /\ BelowTab(page, Top.ids[1]) \in Nat
    BY <1>1, <1>2, <2>2, TabsInTurn, BelowNat
  <2>4. QED
    BY <1>6, <1>7, <1>8, <1>10, <2>1, <2>3
<1>11. CASE Top.do = "items"
  <2>1. Owed(page, Top) = 0 /\ Owed(page, t) = 0
    BY <1>3, <1>11 DEF Owed
  <2>2. QED
    BY <1>6, <1>7, <1>8, <1>11, <2>1
<1>12. QED
  BY <1>6, <1>7, <1>8, <1>9, <1>10, <1>11

\* The number of lists and panels that a block brings.
LEMMA FanNat ==
  ASSUME NEW p \in Pages, NEW id \in DOMAIN p
  PROVE  Fan(p, id) \in Nat
<1>1. p[id].content \in Seq(Id)
  BY RenderAssumption
<1>2. BelowTabs(p, p[id].content) \in Nat /\ Children(p, id) \in Nat /\ Children(p, p[id].target) \in Nat
  BY <1>1, TabsInTurn, BelowNat
<1>3. QED
  BY <1>2 DEF Fan

\* What renderBlock calls for a block owes what the block brings.
LEMMA BelowOwes ==
  ASSUME page \in Pages, NEW id \in DOMAIN page, NEW d \in Nat
  PROVE  Below(id, d) \in Seq(Call) /\ Due(page, Below(id, d)) = Fan(page, id)
<1>1. page[id].content \in Seq(Id) /\ d + 1 \in Nat
  BY RenderAssumption
<1>2. ASSUME NEW c \in Seq(Id)
      PROVE  /\ <<Blocks(c, d + 1)>> \in Seq(Call) /\ Due(page, <<Blocks(c, d + 1)>>) = Len(c)
             /\ <<Panels(c, d)>> \in Seq(Call) /\ Due(page, <<Panels(c, d)>>) = BelowTabs(page, c)
  <2>1. Blocks(c, d + 1) \in Call /\ Panels(c, d) \in Call
    BY <1>1, Making
  <2>2. Owed(page, Blocks(c, d + 1)) = Len(c) /\ Owed(page, Panels(c, d)) = BelowTabs(page, c)
    BY DEF Owed, Blocks, Panels
  <2>3. Due(page, <<Blocks(c, d + 1)>>) = Len(c) /\ Due(page, <<Panels(c, d)>>) = BelowTabs(page, c)
    BY <2>1, <2>2, DueOfOne
  <2>4. <<Blocks(c, d + 1)>> \in Seq(Call) /\ <<Panels(c, d)>> \in Seq(Call)
    BY <2>1
  <2>5. QED
    BY <2>3, <2>4
<1>3. <<>> \in Seq(Call) /\ Due(page, <<>>) = 0
  BY DueOfOne, EmptySeq
<1>4. CASE Kind(id) = "leaf"
  <2>1. Below(id, d) = <<>>
    BY <1>4, Zenon DEF Below
  <2>2. QED
    BY <1>3, <1>4, <2>1 DEF Fan, Kind
<1>5. CASE Kind(id) = "reference" /\ Exists(page[id].target)
  <2>1. Kind(id) # "leaf" /\ Kind(id) # "tabs"
    BY <1>5
  <2>2. Below(id, d) = <<Blocks(page[page[id].target].content, d + 1)>>
    BY <1>5, <2>1, Zenon DEF Below
  <2>3. page[page[id].target].content \in Seq(Id)
    BY <1>5, RenderAssumption DEF Exists
  <2>4. Fan(page, id) = Len(page[page[id].target].content)
    BY <1>5 DEF Fan, Kind, Children, Exists
  <2>5. QED
    BY <1>2, <2>2, <2>3, <2>4
<1>6. CASE Kind(id) = "reference" /\ ~Exists(page[id].target)
  <2>1. Kind(id) # "leaf" /\ Kind(id) # "tabs"
    BY <1>6
  <2>2. Below(id, d) = <<>>
    BY <1>6, <2>1, Zenon DEF Below
  <2>3. Fan(page, id) = 0
    BY <1>6 DEF Fan, Kind, Children, Exists
  <2>4. QED
    BY <1>3, <2>2, <2>3
<1>7. CASE Kind(id) = "tabs"
  <2>1. Kind(id) # "leaf" /\ Kind(id) # "reference"
    BY <1>7
  <2>2. Below(id, d) = <<Panels(page[id].content, d)>>
    BY <1>7, <2>1, Zenon DEF Below
  <2>3. Fan(page, id) = BelowTabs(page, page[id].content)
    BY <1>7 DEF Fan, Kind
  <2>4. QED
    BY <1>1, <1>2, <2>2, <2>3
<1>8. CASE Kind(id) \notin {"leaf", "reference", "tabs"}
  <2>1. Kind(id) # "leaf" /\ Kind(id) # "reference" /\ Kind(id) # "tabs"
    BY <1>8
  <2>2. Below(id, d) = <<Blocks(page[id].content, d + 1)>>
    BY <2>1, Zenon DEF Below
  <2>3. Fan(page, id) = Len(page[id].content)
    BY <2>1 DEF Fan, Kind, Children
  <2>4. QED
    BY <1>1, <1>2, <2>2, <2>3
<1>9. QED
  BY <1>4, <1>5, <1>6, <1>7, <1>8

\* What one more element changes.
LEMMA SpreadGrows ==
  ASSUME NEW p \in Pages, NEW o \in Seq(Elem), NEW e \in Elem, IsFiniteSet(RendersIn(o)),
         \A i \in RendersIn(o) : o[i].id \in DOMAIN p, IsBlock(e) => e.id \in DOMAIN p
  PROVE  LET v == Append(o, e) IN
         /\ \A i \in RendersIn(v) : v[i].id \in DOMAIN p
         /\ Len(v) = Len(o) + 1 /\ Len(o) \in Nat
         /\ Spread(p, o) \in Nat /\ Cardinality(RendersIn(o)) \in Nat
         /\ ~IsBlock(e) => /\ Spread(p, v) = Spread(p, o)
                           /\ Cardinality(RendersIn(v)) = Cardinality(RendersIn(o))
         /\ IsBlock(e) => /\ Spread(p, v) = Spread(p, o) + Fan(p, e.id)
                          /\ Cardinality(RendersIn(v)) = Cardinality(RendersIn(o)) + 1
<1> DEFINE v == Append(o, e)
           R == RendersIn(o)
           Q == RendersIn(v)
           x == Len(o) + 1
           f == [i \in R |-> Fan(p, o[i].id)]
           g == [i \in Q |-> Fan(p, v[i].id)]
<1>1. /\ IsBlock(e) => Q = R \union {x}
      /\ ~IsBlock(e) => Q = R
      /\ x \notin R
  BY Written
<1>2. /\ Len(v) = Len(o) + 1 /\ Len(o) \in Nat /\ v[x] = e
      /\ \A i \in 1..Len(o) : v[i] = o[i]
  BY AppendProperties, LenProperties
<1>3. R \subseteq 1..Len(o)
  BY LenProperties DEF RendersIn
<1>4. \A i \in R : v[i] = o[i]
  BY <1>2, <1>3
<1>5. \A i \in Q : v[i].id \in DOMAIN p
  BY <1>1, <1>2, <1>4
<1>6. IsFiniteSet(R) /\ Cardinality(R) \in Nat
  BY FS_CardinalityType
<1>7. (\A i \in R : f[i] \in Nat) /\ (\A i \in Q : g[i] \in Nat)
  BY <1>5, FanNat
<1>8. Spread(p, o) = SumFunctionOnSet(f, R)
  <2>1. DOMAIN f = R /\ Spread(p, o) = SumFunction(f)
    BY DEF Spread
  <2> HIDE DEF f, R
  <2>2. QED
    BY <2>1, Zenon DEF SumFunction
<1>9. Spread(p, v) = SumFunctionOnSet(g, Q)
  <2>1. DOMAIN g = Q /\ Spread(p, v) = SumFunction(g)
    BY DEF Spread
  <2> HIDE DEF g, Q, v
  <2>2. QED
    BY <2>1, Zenon DEF SumFunction
<1>10. \A i \in R : i \in Q /\ g[i] = f[i]
  BY <1>1, <1>4
<1>11. IsBlock(e) => g[x] = Fan(p, e.id)
  BY <1>1, <1>2
<1> HIDE DEF f, g, Q, R, x
<1>12. SumFunctionOnSet(f, R) \in Nat
  BY <1>6, <1>7, SumNat
<1>13. SumFunctionOnSet(g, R) = SumFunctionOnSet(f, R)
  BY <1>6, <1>10, SumSame
<1>14. CASE IsBlock(e)
  <2>1. Cardinality(Q) = Cardinality(R) + 1
    BY <1>1, <1>6, <1>14, FS_AddElement
  <2>2. \A i \in R \cup {x} : g[i] \in Int
    BY <1>1, <1>7, <1>14
  <2>3. SumFunctionOnSet(g, R \cup {x}) = g[x] + SumFunctionOnSet(g, R)
    BY <1>1, <1>6, <2>2, SumPutsIn
  <2>4. Q = R \cup {x}
    BY <1>1, <1>14
  <2>5. Spread(p, v) = Fan(p, e.id) + Spread(p, o)
    BY <1>8, <1>9, <1>11, <1>13, <1>14, <2>3, <2>4
  <2>6. Fan(p, e.id) \in Nat
    BY <1>14, FanNat
  <2>7. Spread(p, o) \in Nat
    BY <1>8, <1>12
  <2>8. Spread(p, v) = Spread(p, o) + Fan(p, e.id)
    BY <2>5, <2>6, <2>7
  <2>9. QED
    BY <1>2, <1>5, <1>6, <1>14, <2>1, <2>7, <2>8 DEF Q, R
<1>15. CASE ~IsBlock(e)
  <2>1. Q = R
    BY <1>1, <1>15
  <2>2. Spread(p, v) = Spread(p, o)
    BY <1>8, <1>9, <1>13, <2>1
  <2>3. QED
    BY <1>2, <1>5, <1>6, <1>8, <1>12, <1>15, <2>1, <2>2 DEF Q, R
<1>16. QED
  BY <1>14, <1>15

\* A step that writes nothing leaves less to write.
LEMMA CostPasses ==
  ASSUME RenderInv, CostInv, out' = out, page' = page,
         Due(page, work') \in Nat, out # <<>> => Due(page, work') <= Due(page, work),
         Due(page, work) \in Nat
  PROVE  CostInv'
<1>1. ASSUME out # <<>>
      PROVE  Len(out) + Due(page, work')
               <= 1 + Cardinality(RendersIn(out)) + Children(page, Root) + Spread(page, out)
  <2>1. IsFiniteSet(RendersIn(out)) /\ page \in Pages /\ out \in Seq(Elem)
    BY <1>1 DEF RenderInv
  <2>2. Body \in Elem /\ ~IsBlock(Body)
    <3>1. Body \in Elem /\ Body.is = "page"
      BY Making, RenderAssumption DEF Body
    <3>2. QED
      BY <3>1 DEF IsBlock
  <2>3. /\ Len(out) \in Nat /\ Spread(page, out) \in Nat /\ Cardinality(RendersIn(out)) \in Nat
    BY <2>1, <2>2, SpreadGrows DEF CostInv
  <2>4. Children(page, Root) \in Nat
    BY <2>1, BelowNat
  <2>5. /\ Len(out) + Due(page, work)
             <= 1 + Cardinality(RendersIn(out)) + Children(page, Root) + Spread(page, out)
        /\ Due(page, work') <= Due(page, work)
    BY <1>1 DEF CostInv
  <2>6. QED
    BY <2>3, <2>4, <2>5
<1>2. QED
  BY <1>1 DEF CostInv, Due, Spread

\* A step that writes an element writes what was due, or renders a block and is due
\* what the block brings.
LEMMA CostWrites ==
  ASSUME RenderInv, CostInv, out # <<>>, NEW e \in Elem, out' = Append(out, e), page' = page,
         Due(page, work) \in Nat, Due(page, work') \in Nat, IsBlock(e) => e.id \in DOMAIN page,
         IsBlock(e) => Due(page, work') <= Due(page, work) + Fan(page, e.id),
         ~IsBlock(e) => Due(page, work') <= Due(page, work) - 1
  PROVE  CostInv'
<1>1. IsFiniteSet(RendersIn(out)) /\ page \in Pages /\ out \in Seq(Elem)
  BY DEF RenderInv
<1>2. /\ \A i \in RendersIn(out') : out'[i].id \in DOMAIN page
      /\ Len(out') = Len(out) + 1 /\ Len(out) \in Nat
      /\ Spread(page, out) \in Nat /\ Cardinality(RendersIn(out)) \in Nat
      /\ ~IsBlock(e) => /\ Spread(page, out') = Spread(page, out)
                        /\ Cardinality(RendersIn(out')) = Cardinality(RendersIn(out))
      /\ IsBlock(e) => /\ Spread(page, out') = Spread(page, out) + Fan(page, e.id)
                       /\ Cardinality(RendersIn(out')) = Cardinality(RendersIn(out)) + 1
  BY <1>1, SpreadGrows DEF CostInv
<1>3. Children(page, Root) \in Nat
  BY <1>1, BelowNat
<1>4. Len(out) + Due(page, work)
        <= 1 + Cardinality(RendersIn(out)) + Children(page, Root) + Spread(page, out)
  BY DEF CostInv
<1>5. Len(out') + Due(page, work')
        <= 1 + Cardinality(RendersIn(out')) + Children(page, Root) + Spread(page, out')
  <2>1. CASE IsBlock(e)
    <3>1. Fan(page, e.id) \in Nat
      BY <1>1, <2>1, FanNat
    <3>2. QED
      BY <1>2, <1>3, <1>4, <2>1, <3>1
  <2>2. CASE ~IsBlock(e)
    BY <1>2, <1>3, <1>4, <2>2
  <2>3. QED
    BY <2>1, <2>2
<1>6. CostInv' <=> /\ \A i \in RendersIn(out') : out'[i].id \in DOMAIN page
                   /\ out' # <<>> =>
                        Len(out') + Due(page, work')
                          <= 1 + Cardinality(RendersIn(out')) + Children(page, Root) + Spread(page, out')
  BY DEF CostInv, Due, Spread, RendersIn
<1>7. QED
  BY <1>2, <1>5, <1>6
\* Before the walk nothing is written, and then the body with the page's own blocks due.
LEMMA CostStart ==
  /\ Init => CostInv
  /\ RenderInv /\ Start => CostInv'
<1>1. ASSUME Init
      PROVE  CostInv
  <2>1. out = <<>> /\ DOMAIN out = {}
    BY <1>1 DEF Init
  <2>2. RendersIn(out) = {}
    BY <2>1 DEF RendersIn
  <2>3. QED
    BY <2>1, <2>2 DEF CostInv
<1>2. ASSUME RenderInv, Start
      PROVE  CostInv'
  <2> DEFINE c == page[Root].content
             w == <<Blocks(c, 0), Close(Body)>>
             o == <<Body>>
  <2>1. /\ Root \in DOMAIN page /\ page \in Pages /\ out' = o /\ work' = w /\ page' = page
    BY <1>2 DEF Start, Accepted, Exists, RenderInv
  <2>2. c \in Seq(Id) /\ Len(c) \in Nat /\ Children(page, Root) = Len(c)
    BY <2>1, RenderAssumption, LenProperties DEF Children
  <2>3. Body \in Elem /\ Body.is = "page"
    BY Making, RenderAssumption DEF Body
  <2>4. Blocks(c, 0) \in Call /\ Close(Body) \in Call
    BY <2>2, <2>3, Making
  <2>5. Owed(page, Blocks(c, 0)) = Len(c) /\ Owed(page, Close(Body)) = 0
    BY DEF Owed, Blocks, Close
  <2>6. Due(page, w) = Len(c)
    <3> DEFINE a == <<Blocks(c, 0)>>
               b == <<Close(Body)>>
    <3>1. a \in Seq(Call) /\ b \in Seq(Call) /\ w = a \o b
      BY <2>4
    <3>2. Due(page, a) = Len(c) /\ Due(page, b) = 0
      BY <2>1, <2>4, <2>5, DueOfOne
    <3> HIDE DEF a, b, w
    <3>3. Due(page, a \o b) = Due(page, a) + Due(page, b)
      BY <2>1, <3>1, DueOfBoth
    <3>4. QED
      BY <2>2, <3>1, <3>2, <3>3
  <2>7. Len(o) = 1 /\ DOMAIN o = {1} /\ o[1] = Body
    OBVIOUS
  <2> HIDE DEF o, w, c
  <2>8. RendersIn(o) = {} /\ Cardinality(RendersIn(o)) = 0
    BY <2>3, <2>7, FS_EmptySet DEF RendersIn, IsBlock
  <2>9. Spread(page, o) = 0
    <3> DEFINE f == [i \in RendersIn(o) |-> Fan(page, o[i].id)]
    <3>1. DOMAIN f = {} /\ Spread(page, o) = SumFunction(f)
      BY <2>8 DEF Spread
    <3> HIDE DEF f
    <3>2. Spread(page, o) = SumFunctionOnSet(f, {})
      BY <3>1, Zenon DEF SumFunction
    <3>3. QED
      BY <3>2, SumOfNone
  <2>10. CostInv' <=> /\ \A i \in RendersIn(out') : out'[i].id \in DOMAIN page
                      /\ out' # <<>> =>
                           Len(out') + Due(page, work')
                             <= 1 + Cardinality(RendersIn(out')) + Children(page, Root)
                                + Spread(page, out')
    BY <2>1 DEF CostInv, Due, Spread, RendersIn
  <2>11. QED
    BY <2>1, <2>2, <2>6, <2>7, <2>8, <2>9, <2>10
<1>3. QED
  BY <1>1, <1>2

\* No step writes more than was due.
LEMMA CostStep == RenderInv /\ CostInv /\ [Next]_vars => CostInv'
<1> SUFFICES ASSUME RenderInv, CostInv, [Next]_vars
             PROVE  CostInv'
  OBVIOUS
<1> USE DEF Doing
<1>w. ASSUME result = "rendering", work # <<>>
      PROVE  /\ work[1] = Top /\ Top \in Call /\ Due(page, work) \in Nat
             /\ Due(page, Tail(work)) \in Nat /\ Due(page, Tail(work)) <= Due(page, work)
  <2>1. work \in Seq(Call) /\ page \in Pages /\ Top = work[1] /\ work[1] \in Call
    BY <1>w, Walking, StackTop
  <2>2. /\ Due(page, Tail(work)) \in Nat /\ Owed(page, work[1]) \in Nat
        /\ Due(page, work) = Owed(page, work[1]) + Due(page, Tail(work))
    BY <1>w, <2>1, DueOfTail
  <2>3. QED
    BY <2>1, <2>2
\* What a call passes on to, with an end tag, owes what the call does.
<1>c. ASSUME NEW e \in Elem, NEW a \in Seq(Call), page \in Pages
      PROVE  /\ <<Close(e)>> \in Seq(Call) /\ a \o <<Close(e)>> \in Seq(Call)
             /\ Due(page, a \o <<Close(e)>>) = Due(page, a)
  <2>1. Close(e) \in Call /\ Owed(page, Close(e)) = 0
    <3>1. Close(e) \in Call
      BY Making
    <3>2. QED
      BY <3>1 DEF Owed, Close
  <2>2. <<Close(e)>> \in Seq(Call) /\ Due(page, <<Close(e)>>) = 0
    BY <1>c, <2>1, DueOfOne
  <2> DEFINE b == <<Close(e)>>
  <2> HIDE DEF b
  <2>3. /\ Due(page, a) \in Nat /\ Due(page, a \o b) = Due(page, a) + Due(page, b)
        /\ a \o b \in Seq(Call)
    BY <1>c, <2>2, DueOfBoth, ConcatProperties DEF b
  <2>4. QED
    BY <2>2, <2>3 DEF b
<1>1. CASE Reject
  <2>1. out' = out /\ page' = page /\ work' = work
    BY <1>1 DEF Reject
  <2>2. QED
    BY <2>1 DEF CostInv, Due, Spread, RendersIn
<1>2. CASE Start
  BY <1>2, CostStart
<1>3. CASE Return
  <2>1. result = "rendering" /\ work # <<>> /\ out' = out /\ page' = page /\ work' = Tail(work)
    BY <1>3 DEF Return
  <2>2. QED
    BY <1>w, <2>1, CostPasses
<1>4. CASE SkipMissing \/ RefuseBlock
  <2>1. /\ result = "rendering" /\ work # <<>> /\ Top.do \in {"blocks", "panels"} /\ Top.ids # <<>>
        /\ work' = Rest(1) /\ out' = out /\ page' = page
    BY <1>4 DEF SkipMissing, RefuseBlock, NextBlock, NextId
  <2>2. 1 \in 0..Len(Top.ids) /\ page \in Pages
    BY <2>1, Walking
  <2>3. BelowTab(page, Top.ids[1]) \in Nat
    BY <2>2, BelowNat
  <2>4. Due(page, Rest(1)) \in Nat /\ Due(page, Rest(1)) <= Due(page, work) /\ Due(page, work) \in Nat
    BY <2>1, <2>2, <2>3, RestOwes
  <2>5. QED
    BY <2>1, <2>4, CostPasses
<1>5. CASE OpenList
  <2> DEFINE e == Element("list", Head(Top.ids), Top.depth)
  <2>1. /\ result = "rendering" /\ work # <<>> /\ Top.do = "blocks" /\ Top.ids # <<>>
        /\ out' = Append(out, e) /\ page' = page
    BY <1>5 DEF OpenList, NextId, Begin, Write
  <2>2. PICK n \in 1..Len(Top.ids) :
          work' = <<Items(SubSeq(Top.ids, 1, n), Top.depth), Close(e)>> \o Rest(n)
    BY <1>5 DEF OpenList
  <2> DEFINE ids == SubSeq(Top.ids, 1, n)
             a == <<Items(ids, Top.depth)>>
             r == Rest(n)
  <2>3. e \in Elem /\ ~IsBlock(e)
    <3>1. e \in Elem /\ e.is = "list"
      BY <2>1, Walking, Making
    <3>2. QED
      BY <3>1 DEF IsBlock
  <2>4. page \in Pages /\ out # <<>> /\ Top.depth \in Nat
    BY <2>1, Walking
  <2>5. ids \in Seq(Id)
    <3>1. Top.ids \in Seq(Id) /\ DOMAIN Top.ids = 1..Len(Top.ids) /\ Len(Top.ids) \in Nat
      BY <2>1, Walking
    <3>2. \A k \in 1..n : Top.ids[k] \in Id
      BY <3>1, ElementOfSeq
    <3>3. QED
      BY <3>1, <3>2, SubSeqProperties
  <2>6. a \in Seq(Call) /\ Due(page, a) = 0
    <3>1. Items(ids, Top.depth) \in Call /\ Owed(page, Items(ids, Top.depth)) = 0
      BY <2>4, <2>5, Making DEF Owed, Items
    <3>2. QED
      BY <2>4, <3>1, DueOfOne
  <2>7. /\ r \in Seq(Call) /\ Due(page, r) = Due(page, work) - n
        /\ Due(page, r) \in Nat /\ Due(page, work) \in Nat
    <3>1. n \in 0..Len(Top.ids)
      BY <2>1, Walking
    <3>2. QED
      BY <2>1, <3>1, RestOwes
  <2>8. a \o <<Close(e)>> \in Seq(Call) /\ Due(page, a \o <<Close(e)>>) = 0
    <3> HIDE DEF a, e
    <3>1. QED
      BY <1>c, <2>3, <2>4, <2>6
  <2>9. work' = (a \o <<Close(e)>>) \o r
    BY <2>2
  <2> HIDE DEF r, a, e
  <2>10. Due(page, work') = Due(page, work) - n
    <3> DEFINE P == a \o <<Close(e)>>
    <3>1. P \in Seq(Call) /\ Due(page, P) = 0 /\ work' = P \o r
      BY <2>8, <2>9
    <3> HIDE DEF P
    <3>2. Due(page, P \o r) = Due(page, P) + Due(page, r)
      BY <2>4, <2>7, <3>1, DueOfBoth
    <3>3. QED
      BY <2>7, <3>1, <3>2
  <2>11. n \in Nat /\ n >= 1
    BY <2>2
  <2>12. Due(page, work') \in Nat /\ Due(page, work') <= Due(page, work) - 1
    BY <2>7, <2>10, <2>11
  <2>13. QED
    BY <2>1, <2>3, <2>4, <2>7, <2>12, CostWrites DEF e
<1>6. CASE RenderItem
  <2> DEFINE id == Head(Top.ids)
             e  == Element("block", id, Top.depth)
             a  == <<Blocks(page[id].content, Top.depth + 1)>>
             r  == Rest(1)
  <2>1. /\ result = "rendering" /\ work # <<>> /\ Top.do = "items" /\ Top.ids # <<>>
        /\ out' = Append(out, e) /\ page' = page /\ work' = (a \o <<Close(e)>>) \o r
    BY <1>6 DEF RenderItem, Begin, Write
  <2>2. /\ id \in DOMAIN page /\ id \in Id /\ Kind(id) \in Lists /\ page \in Pages /\ out # <<>>
        /\ Top.depth \in Nat /\ Top.depth + 1 \in Nat
    BY <2>1, Walking
  <2>3. e \in Elem /\ IsBlock(e) /\ e.id = id
    <3>1. e \in Elem /\ e.is = "block" /\ e.id = id
      BY <2>2, Making
    <3>2. QED
      BY <3>1 DEF IsBlock
  <2>4. page[id].content \in Seq(Id) /\ Len(page[id].content) \in Nat
    BY <2>2, RenderAssumption, LenProperties
  <2>5. a \in Seq(Call) /\ Due(page, a) = Fan(page, id)
    <3>1. /\ Blocks(page[id].content, Top.depth + 1) \in Call
          /\ Owed(page, Blocks(page[id].content, Top.depth + 1)) = Len(page[id].content)
      BY <2>2, <2>4, Making DEF Owed, Blocks
    <3>2. Fan(page, id) = Len(page[id].content)
      BY <2>2 DEF Fan, Kind, Lists, Children
    <3>3. QED
      BY <2>2, <3>1, <3>2, DueOfOne
  <2>6. /\ r \in Seq(Call) /\ Due(page, r) = Due(page, work)
        /\ Due(page, r) \in Nat /\ Due(page, work) \in Nat
    <3>1. 1 \in 0..Len(Top.ids)
      BY <2>1, Walking
    <3>2. QED
      BY <2>1, <3>1, RestOwes
  <2>7. a \o <<Close(e)>> \in Seq(Call) /\ Due(page, a \o <<Close(e)>>) = Fan(page, id)
    <3> HIDE DEF a, e
    <3>1. QED
      BY <1>c, <2>2, <2>3, <2>5
  <2> HIDE DEF r, a, e, id
  <2>8. Due(page, work') = Due(page, work) + Fan(page, id) /\ Fan(page, id) \in Nat
    <3> DEFINE P == a \o <<Close(e)>>
    <3>1. P \in Seq(Call) /\ Due(page, P) = Fan(page, id) /\ work' = P \o r
      BY <2>1, <2>7
    <3>2. Fan(page, id) \in Nat
      BY <2>2, FanNat
    <3> HIDE DEF P
    <3>3. Due(page, P \o r) = Due(page, P) + Due(page, r)
      BY <2>2, <2>6, <3>1, DueOfBoth
    <3>4. QED
      BY <2>6, <3>1, <3>2, <3>3
  <2>9. Due(page, work') \in Nat /\ Due(page, work') <= Due(page, work) + Fan(page, e.id)
    BY <2>3, <2>6, <2>8
  <2>10. QED
    BY <2>1, <2>2, <2>3, <2>6, <2>9, CostWrites
<1>7. CASE RefuseItem \/ EndElement
  <2>1. result = "rendering" /\ work # <<>> /\ out' = out /\ page' = page /\ work' = Tail(work)
    BY <1>7 DEF RefuseItem, EndElement
  <2>2. QED
    BY <1>w, <2>1, CostPasses
<1>8. CASE RenderBlock
  <2> DEFINE id == Head(Top.ids)
             e  == Element("block", id, Top.depth)
             B  == Below(id, Top.depth)
             r  == Rest(1)
             P  == IF Kind(id) \in Wraps THEN B \o <<Close(e)>> ELSE B
  <2>1. /\ result = "rendering" /\ work # <<>> /\ Top.do = "blocks" /\ Top.ids # <<>>
        /\ id \in DOMAIN page /\ page' = page
    BY <1>8 DEF RenderBlock, NextBlock, NextId, Exists
  <2>2. out' = Append(out, e) /\ work' = P \o r
    BY <1>8 DEF RenderBlock, Begin, Write
  <2>3. id \in Id /\ page \in Pages /\ out # <<>> /\ Top.depth \in Nat
    BY <2>1, Walking
  <2>4. e \in Elem /\ IsBlock(e) /\ e.id = id
    <3>1. e \in Elem /\ e.is = "block" /\ e.id = id
      BY <2>3, Making
    <3>2. QED
      BY <3>1 DEF IsBlock
  <2>5. B \in Seq(Call) /\ Due(page, B) = Fan(page, id)
    BY <2>1, <2>3, BelowOwes
  <2>6. /\ r \in Seq(Call) /\ Due(page, r) = Due(page, work) - 1
        /\ Due(page, r) \in Nat /\ Due(page, work) \in Nat
    <3>1. 1 \in 0..Len(Top.ids)
      BY <2>1, Walking
    <3>2. QED
      BY <2>1, <3>1, RestOwes
  <2>7. Fan(page, id) \in Nat
    BY <2>1, <2>3, FanNat
  <2> HIDE DEF r, e, B, id
  <2>8. B \o <<Close(e)>> \in Seq(Call) /\ Due(page, B \o <<Close(e)>>) = Fan(page, id)
    BY <1>c, <2>3, <2>4, <2>5
  <2>9. P \in Seq(Call) /\ Due(page, P) = Fan(page, id)
    BY <2>5, <2>8
  <2> HIDE DEF P
  <2>10. Due(page, P \o r) = Due(page, P) + Due(page, r)
    BY <2>3, <2>6, <2>9, DueOfBoth
  <2>11. Due(page, work') \in Nat /\ Due(page, work') <= Due(page, work) + Fan(page, e.id)
    BY <2>2, <2>4, <2>6, <2>7, <2>9, <2>10
  <2>12. QED
    BY <2>1, <2>2, <2>3, <2>4, <2>6, <2>11, CostWrites
<1>9. CASE OpenPanel
  <2> DEFINE id == Head(Top.ids)
             e  == Element("panel", id, Top.depth)
             a  == <<Blocks(page[id].content, Top.depth + 1)>>
             r  == Rest(1)
  <2>1. /\ result = "rendering" /\ work # <<>> /\ Top.do = "panels" /\ Top.ids # <<>>
        /\ out' = Append(out, e) /\ page' = page /\ work' = (a \o <<Close(e)>>) \o r
        /\ id \in DOMAIN page
    BY <1>9 DEF OpenPanel, Begin, Write, Exists
  <2>2. /\ id \in Id /\ id = Top.ids[1] /\ page \in Pages /\ out # <<>>
        /\ Top.depth \in Nat /\ Top.depth + 1 \in Nat
    BY <2>1, Walking
  <2>3. e \in Elem /\ ~IsBlock(e)
    <3>1. e \in Elem /\ e.is = "panel"
      BY <2>2, Making
    <3>2. QED
      BY <3>1 DEF IsBlock
  <2> DEFINE l == Len(page[id].content)
  <2>4. page[id].content \in Seq(Id) /\ l \in Nat
    BY <2>1, <2>2, RenderAssumption, LenProperties
  <2>5. a \in Seq(Call) /\ Due(page, a) = l
    <3>1. /\ Blocks(page[id].content, Top.depth + 1) \in Call
          /\ Owed(page, Blocks(page[id].content, Top.depth + 1)) = l
      BY <2>2, <2>4, Making DEF Owed, Blocks
    <3>2. QED
      BY <2>2, <3>1, DueOfOne
  <2>6. BelowTab(page, Top.ids[1]) = 1 + l
    BY <2>1, <2>2 DEF BelowTab
  <2>7. /\ r \in Seq(Call) /\ Due(page, r) = Due(page, work) - (1 + l)
        /\ Due(page, r) \in Nat /\ Due(page, work) \in Nat
    <3>1. 1 \in 0..Len(Top.ids)
      BY <2>1, Walking
    <3>2. QED
      BY <2>1, <2>6, <3>1, RestOwes
  <2> HIDE DEF a, e, l, id, r
  <2>8. a \o <<Close(e)>> \in Seq(Call) /\ Due(page, a \o <<Close(e)>>) = l
    BY <1>c, <2>2, <2>3, <2>5
  <2>9. Due(page, work') = l + Due(page, r)
    <3> DEFINE P == a \o <<Close(e)>>
    <3>1. P \in Seq(Call) /\ Due(page, P) = l /\ work' = P \o r
      BY <2>1, <2>8
    <3> HIDE DEF P
    <3>2. Due(page, P \o r) = Due(page, P) + Due(page, r)
      BY <2>2, <2>7, <3>1, DueOfBoth
    <3>3. QED
      BY <3>1, <3>2
  <2>10. Due(page, work') \in Nat /\ Due(page, work') <= Due(page, work) - 1
    BY <2>4, <2>7, <2>9, SMTT(30) DEF l
  <2>11. QED
    BY <2>1, <2>2, <2>3, <2>7, <2>10, CostWrites
<1>10. CASE Finish
  <2>1. out' = out /\ page' = page /\ work' = work
    BY <1>10 DEF Finish
  <2>2. QED
    BY <2>1 DEF CostInv, Due, Spread, RendersIn
<1>11. CASE UNCHANGED vars
  <2>1. out' = out /\ page' = page /\ work' = work
    BY <1>11 DEF vars
  <2>2. QED
    BY <2>1 DEF CostInv, Due, Spread, RendersIn
<1>12. QED
  BY <1>1, <1>2, <1>3, <1>4, <1>5, <1>6, <1>7, <1>8, <1>9, <1>10, <1>11 DEF Next, Walk

\* Whatever cycles and repetitions the content has, the calls, the blocks and the
\* elements of a page are bounded by what the page holds and by the budget.
THEOREM CostIsBounded == Spec => []CostBounded
<1>1. RenderInv /\ CostInv => ElementsBounded
  <2> SUFFICES ASSUME RenderInv, CostInv, out # <<>>
               PROVE  Len(out) <= 1 + Cardinality(Renders) + Children(page, Root)
                                    + SumFunction([i \in Renders |-> Fan(page, out[i].id)])
    BY DEF ElementsBounded
  <2>1. Renders = RendersIn(out)
    BY DEF Renders, RendersIn
  <2>2. SumFunction([i \in Renders |-> Fan(page, out[i].id)]) = Spread(page, out)
    BY <2>1 DEF Spread
  <2>3. /\ IsFiniteSet(RendersIn(out)) /\ page \in Pages /\ out \in Seq(Elem) /\ work \in Seq(Call)
    BY DEF RenderInv, Stack
  <2>4. Body \in Elem /\ ~IsBlock(Body)
    <3>1. Body \in Elem /\ Body.is = "page"
      BY Making, RenderAssumption DEF Body
    <3>2. QED
      BY <3>1 DEF IsBlock
  <2>5. Len(out) \in Nat /\ Spread(page, out) \in Nat /\ Cardinality(RendersIn(out)) \in Nat
    BY <2>3, <2>4, SpreadGrows DEF CostInv
  <2>6. Children(page, Root) \in Nat /\ Due(page, work) \in Nat
    BY <2>3, BelowNat, DueOfBoth
  <2>7. Len(out) + Due(page, work)
          <= 1 + Cardinality(RendersIn(out)) + Children(page, Root) + Spread(page, out)
    BY DEF CostInv
  <2>8. QED
    BY <2>1, <2>2, <2>5, <2>6, <2>7
<1>2. Spec => [](RenderInv /\ CostInv)
  BY InitInv, StepInv, CostStart, CostStep, PTL DEF Spec
<1>3. QED
  BY <1>1, <1>2, CallsNeverTooDeep, BudgetIsTheBound, PTL DEF CostBounded
--------------------------------------------------------------------------------
\* The end tags that callers have still to write, from the outermost on, are those of
\* the elements that are open.
Matched(w, o) ==
  \E f \in [1..Len(o) -> DOMAIN w] :
    /\ \A k \in 1..Len(o) : w[f[k]].do = "close" /\ w[f[k]].elem = o[k]
    /\ \A k, l \in 1..Len(o) : k < l => f[l] < f[k]
    /\ \A i \in DOMAIN w : w[i].do = "close" => \E k \in 1..Len(o) : f[k] = i

ShapeInv == Matched(work, open) /\ (result # "rendering" => work = <<>>)

\* The end tag on top of the stack is that of the element begun last.
LEMMA LastIsTop ==
  ASSUME NEW w \in Seq(Call), w # <<>>, NEW o \in Seq(Elem), w[1].do = "close",
         NEW f \in [1..Len(o) -> DOMAIN w],
         \A k, l \in 1..Len(o) : k < l => f[l] < f[k],
         \A i \in DOMAIN w : w[i].do = "close" => \E k \in 1..Len(o) : f[k] = i
  PROVE  o # <<>> /\ Len(o) \in 1..Len(o) /\ f[Len(o)] = 1
<1>1. 1 \in DOMAIN w /\ DOMAIN w = 1..Len(w) /\ Len(w) \in Nat
  BY StackTop
<1>2. PICK k \in 1..Len(o) : f[k] = 1
  BY <1>1
<1>3. Len(o) \in Nat /\ Len(o) \in 1..Len(o)
  BY <1>2, LenProperties
<1>4. ~(k < Len(o))
  <2>1. ~(f[Len(o)] < 1)
    BY <1>1, <1>3
  <2>2. QED
    BY <1>2, <1>3, <2>1
<1>5. k = Len(o)
  BY <1>2, <1>3, <1>4
<1>6. QED
  BY <1>2, <1>3, <1>5, EmptySeq

\* A call returns.
LEMMA PopMatched ==
  ASSUME NEW w \in Seq(Call), w # <<>>, NEW o \in Seq(Elem), Matched(w, o), w[1].do # "close",
         NEW v, Popped(w, v)
  PROVE  Matched(v, o)
<1>1. Len(w) \in Nat \ {0} /\ DOMAIN w = 1..Len(w) /\ DOMAIN v = 1..Len(w) - 1
  BY StackTop, LenProperties DEF Popped
<1>2. PICK f \in [1..Len(o) -> DOMAIN w] :
        /\ \A k \in 1..Len(o) : w[f[k]].do = "close" /\ w[f[k]].elem = o[k]
        /\ \A k, l \in 1..Len(o) : k < l => f[l] < f[k]
        /\ \A i \in DOMAIN w : w[i].do = "close" => \E k \in 1..Len(o) : f[k] = i
  BY DEF Matched
<1> DEFINE g == [k \in 1..Len(o) |-> f[k] - 1]
<1>3. \A i \in DOMAIN v : i + 1 \in DOMAIN w /\ v[i] = w[i + 1]
  BY <1>1 DEF Popped
<1>4. \A k \in 1..Len(o) : f[k] \in DOMAIN w /\ f[k] # 1
  BY <1>2
<1>5. \A k \in 1..Len(o) : g[k] \in DOMAIN v /\ g[k] + 1 = f[k] /\ v[g[k]] = w[f[k]]
  <2> SUFFICES ASSUME NEW k \in 1..Len(o)
               PROVE  g[k] \in DOMAIN v /\ g[k] + 1 = f[k] /\ v[g[k]] = w[f[k]]
    OBVIOUS
  <2>1. g[k] = f[k] - 1 /\ f[k] \in 1..Len(w) /\ f[k] # 1
    BY <1>1, <1>4
  <2>2. g[k] \in DOMAIN v /\ g[k] + 1 = f[k]
    BY <1>1, <2>1
  <2>3. QED
    BY <1>3, <2>2
<1>6. \A k, l \in 1..Len(o) : k < l => g[l] < g[k]
  <2> SUFFICES ASSUME NEW k \in 1..Len(o), NEW l \in 1..Len(o), k < l
               PROVE  g[l] < g[k]
    OBVIOUS
  <2>1. f[l] < f[k] /\ f[l] \in 1..Len(w) /\ f[k] \in 1..Len(w)
    BY <1>1, <1>2
  <2>2. QED
    BY <1>1, <2>1
<1>7. ASSUME NEW i \in DOMAIN v, v[i].do = "close"
      PROVE  \E k \in 1..Len(o) : g[k] = i
  <2>1. PICK k \in 1..Len(o) : f[k] = i + 1
    BY <1>2, <1>3, <1>7
  <2>2. g[k] = i
    BY <1>1, <2>1
  <2>3. QED
    BY <2>2
<1>8. g \in [1..Len(o) -> DOMAIN v]
  BY <1>5
<1>9. \A k \in 1..Len(o) : v[g[k]].do = "close" /\ v[g[k]].elem = o[k]
  BY <1>2, <1>5
<1> HIDE DEF g
<1>10. QED
  BY <1>6, <1>7, <1>8, <1>9 DEF Matched

\* A caller writes an end tag.
LEMMA EndMatched ==
  ASSUME NEW w \in Seq(Call), w # <<>>, NEW o \in Seq(Elem), Matched(w, o), w[1].do = "close",
         NEW v, Popped(w, v)
  PROVE  Matched(v, SubSeq(o, 1, Len(o) - 1))
<1> DEFINE m == Len(o) - 1
           q == SubSeq(o, 1, m)
<1>1. Len(w) \in Nat \ {0} /\ DOMAIN w = 1..Len(w) /\ DOMAIN v = 1..Len(w) - 1
  BY StackTop, LenProperties DEF Popped
<1>2. PICK f \in [1..Len(o) -> DOMAIN w] :
        /\ \A k \in 1..Len(o) : w[f[k]].do = "close" /\ w[f[k]].elem = o[k]
        /\ \A k, l \in 1..Len(o) : k < l => f[l] < f[k]
        /\ \A i \in DOMAIN w : w[i].do = "close" => \E k \in 1..Len(o) : f[k] = i
  BY DEF Matched
<1>3. o # <<>> /\ Len(o) \in 1..Len(o) /\ f[Len(o)] = 1
  BY <1>2, LastIsTop
<1>4. m \in Nat /\ Len(o) = m + 1 /\ Len(o) \in Nat
  BY <1>3, LenProperties
<1>5. Len(q) = m /\ \A k \in 1..m : q[k] = o[k]
  <2>1. \A k \in 1..m : o[k] \in Elem
    BY <1>4, ElementOfSeq
  <2>2. Len(q) = m - 1 + 1 /\ \A k \in 1..m - 1 + 1 : q[k] = o[1 + k - 1]
    BY <1>4, <2>1, SubSeqProperties
  <2>3. m - 1 + 1 = m /\ \A k \in 1..m : 1 + k - 1 = k
    BY <1>4
  <2> HIDE DEF m, q
  <2>4. QED
    BY <2>2, <2>3
<1> HIDE DEF q
<1> DEFINE g == [k \in 1..m |-> f[k] - 1]
<1>6. \A i \in DOMAIN v : i + 1 \in DOMAIN w /\ v[i] = w[i + 1]
  BY <1>1 DEF Popped
<1>7. \A k \in 1..m : k \in 1..Len(o) /\ f[k] \in DOMAIN w /\ 1 < f[k]
  <2> SUFFICES ASSUME NEW k \in 1..m
               PROVE  k \in 1..Len(o) /\ f[k] \in DOMAIN w /\ 1 < f[k]
    OBVIOUS
  <2>1. k \in 1..Len(o) /\ k < Len(o)
    BY <1>4
  <2>2. QED
    BY <1>2, <1>3, <2>1
<1>8. \A k \in 1..m : g[k] \in DOMAIN v /\ g[k] + 1 = f[k] /\ v[g[k]] = w[f[k]]
  <2> SUFFICES ASSUME NEW k \in 1..m
               PROVE  g[k] \in DOMAIN v /\ g[k] + 1 = f[k] /\ v[g[k]] = w[f[k]]
    OBVIOUS
  <2>1. g[k] = f[k] - 1 /\ f[k] \in 1..Len(w) /\ 1 < f[k]
    BY <1>1, <1>7
  <2>2. g[k] \in DOMAIN v /\ g[k] + 1 = f[k]
    BY <1>1, <2>1
  <2>3. QED
    BY <1>6, <2>2
<1>9. \A k, l \in 1..m : k < l => g[l] < g[k]
  <2> SUFFICES ASSUME NEW k \in 1..m, NEW l \in 1..m, k < l
               PROVE  g[l] < g[k]
    OBVIOUS
  <2>1. f[l] < f[k] /\ f[l] \in 1..Len(w) /\ f[k] \in 1..Len(w)
    BY <1>1, <1>2, <1>7
  <2>2. QED
    BY <1>1, <2>1
<1>10. ASSUME NEW i \in DOMAIN v, v[i].do = "close"
       PROVE  \E k \in 1..m : g[k] = i
  <2>1. PICK k \in 1..Len(o) : f[k] = i + 1
    BY <1>2, <1>6, <1>10
  <2>2. k # Len(o)
    BY <1>1, <1>3, <2>1
  <2>3. k \in 1..m
    <3>1. \A x \in Nat : \A j \in 1..x : j # x => j \in 1..x - 1
      OBVIOUS
    <3>2. QED
      BY <1>4, <2>1, <2>2, <3>1, Zenon
  <2>4. i + 1 - 1 = i
    BY <1>1
  <2>5. g[k] = i
    BY <2>1, <2>3, <2>4
  <2>6. QED
    BY <2>3, <2>5
<1>11. g \in [1..m -> DOMAIN v]
  BY <1>8
<1>12. \A k \in 1..m : v[g[k]].do = "close" /\ v[g[k]].elem = q[k]
  BY <1>2, <1>5, <1>7, <1>8
<1> HIDE DEF g, m
<1>13. Matched(v, q)
  BY <1>5, <1>9, <1>10, <1>11, <1>12 DEF Matched
<1>14. QED
  BY <1>13 DEF q, m

\* A call makes calls, and opens an element if its end tag is the last of them.
LEMMA PushMatched ==
  ASSUME NEW w \in Seq(Call), w # <<>>, NEW o \in Seq(Elem), Matched(w, o), w[1].do # "close",
         NEW P \in Seq(Call), NEW n \in 0..Len(w[1].ids), NEW v, Pushed(w, P, n, v), NEW q,
         \/ q = o /\ \A i \in DOMAIN P : P[i].do # "close"
         \/ \E e \in Elem : /\ q = Append(o, e) /\ P # <<>> /\ P[Len(P)] = Close(e)
                            /\ \A i \in DOMAIN P : i < Len(P) => P[i].do # "close"
  PROVE  Matched(v, q)
<1> DEFINE s == Len(P)
           d == Len(o)
<1>1. /\ Len(w) \in Nat \ {0} /\ DOMAIN w = 1..Len(w) /\ s \in Nat /\ DOMAIN P = 1..s
      /\ DOMAIN v = 1..s + Len(w) /\ d \in Nat
  BY StackTop, LenProperties DEF Pushed
<1>2. PICK f \in [1..Len(o) -> DOMAIN w] :
        /\ \A k \in 1..Len(o) : w[f[k]].do = "close" /\ w[f[k]].elem = o[k]
        /\ \A k, l \in 1..Len(o) : k < l => f[l] < f[k]
        /\ \A i \in DOMAIN w : w[i].do = "close" => \E k \in 1..Len(o) : f[k] = i
  BY DEF Matched
\* Where the end tags of the old stack have got to.
<1>3. /\ \A i \in 1..s : v[i] = P[i]
      /\ \A i \in 2..Len(w) : s + i \in DOMAIN v /\ v[s + i] = w[i]
      /\ \A i \in DOMAIN v : /\ i <= s => i \in DOMAIN P
                             /\ i > s => /\ v[i].do = w[i - s].do /\ i - s \in DOMAIN w
                                         /\ s + (i - s) = i
  <2>1. \A i \in 2..Len(w) : s + i \in s + 2..Len(v) /\ s + i - s = i /\ s + i \in DOMAIN v
    BY <1>1 DEF Pushed
  <2>2. /\ \A i \in s + 2..Len(v) : v[i] = w[i - s]
        /\ \A i \in 1..s : v[i] = P[i]
        /\ v[s + 1].do = w[1].do
    BY DEF Pushed
  <2>3. \A i \in 2..Len(w) : v[s + i] = w[i]
    <3> SUFFICES ASSUME NEW i \in 2..Len(w)
                 PROVE  v[s + i] = w[i]
      OBVIOUS
    <3> DEFINE j == s + i
    <3>1. j \in s + 2..Len(v) /\ j - s = i
      BY <2>1
    <3> HIDE DEF j, s
    <3>2. v[j] = w[i]
      BY <2>2, <3>1
    <3>3. QED
      BY <3>2 DEF j
  <2>4. ASSUME NEW i \in DOMAIN v, i > s
        PROVE  v[i].do = w[i - s].do /\ i - s \in DOMAIN w /\ s + (i - s) = i
    <3>1. i - s \in DOMAIN w /\ s + (i - s) = i /\ (i = s + 1 \/ i \in s + 2..Len(v))
      BY <1>1, <2>4 DEF Pushed
    <3>2. CASE i = s + 1
      BY <1>1, <2>2, <3>1, <3>2
    <3>3. CASE i \in s + 2..Len(v)
      BY <2>2, <3>1, <3>3
    <3>4. QED
      BY <3>1, <3>2, <3>3
  <2>5. QED
    BY <1>1, <2>1, <2>2, <2>3, <2>4
<1>4. \A k \in 1..d : /\ f[k] \in 2..Len(w) /\ f[k] \in Nat
                      /\ s + f[k] \in DOMAIN v /\ s + f[k] > s /\ v[s + f[k]] = w[f[k]]
  <2> SUFFICES ASSUME NEW k \in 1..d
               PROVE  /\ f[k] \in 2..Len(w) /\ f[k] \in Nat
                      /\ s + f[k] \in DOMAIN v /\ s + f[k] > s /\ v[s + f[k]] = w[f[k]]
    OBVIOUS
  <2>1. f[k] \in DOMAIN w /\ f[k] # 1
    BY <1>2
  <2>2. f[k] \in 2..Len(w) /\ f[k] \in Nat /\ s + f[k] > s
    BY <1>1, <2>1
  <2>3. QED
    BY <1>3, <2>2
<1>5. ASSUME NEW i \in DOMAIN v, v[i].do = "close", i > s
      PROVE  \E k \in 1..d : s + f[k] = i
  <2>1. w[i - s].do = "close" /\ i - s \in DOMAIN w /\ s + (i - s) = i
    BY <1>3, <1>5
  <2>2. PICK k \in 1..d : f[k] = i - s
    BY <1>2, <2>1
  <2>3. QED
    BY <2>1, <2>2
<1>6. \A k, l \in 1..d : k < l => s + f[l] < s + f[k]
  <2> SUFFICES ASSUME NEW k \in 1..d, NEW l \in 1..d, k < l
               PROVE  s + f[l] < s + f[k]
    OBVIOUS
  <2>1. f[l] < f[k] /\ f[l] \in Nat /\ f[k] \in Nat
    BY <1>2, <1>4
  <2>2. QED
    BY <1>1, <2>1
<1>7. CASE q = o /\ \A i \in DOMAIN P : P[i].do # "close"
  <2> DEFINE g == [k \in 1..d |-> s + f[k]]
  <2>1. \A k \in 1..d : g[k] = s + f[k]
    OBVIOUS
  <2>2. g \in [1..d -> DOMAIN v]
    BY <1>4
  <2> HIDE DEF g
  <2>3. \A k \in 1..d : v[g[k]].do = "close" /\ v[g[k]].elem = q[k]
    BY <1>2, <1>4, <1>7, <2>1
  <2>4. \A k, l \in 1..d : k < l => g[l] < g[k]
    BY <1>6, <2>1
  <2>5. ASSUME NEW i \in DOMAIN v, v[i].do = "close"
        PROVE  \E k \in 1..d : g[k] = i
    <3>1. ~(i <= s)
      BY <1>1, <1>3, <1>7, <2>5
    <3>2. i > s
      BY <1>1, <3>1
    <3>3. QED
      BY <1>5, <2>1, <2>5, <3>2
  <2>6. QED
    BY <1>7, <2>2, <2>3, <2>4, <2>5 DEF Matched
<1>8. ASSUME NEW e \in Elem, q = Append(o, e), P # <<>>, P[s] = Close(e),
             \A i \in DOMAIN P : i < s => P[i].do # "close"
      PROVE  Matched(v, q)
  <2> DEFINE x == d + 1
             g == [k \in 1..x |-> IF k = x THEN s ELSE s + f[k]]
  <2>1. /\ Len(q) = x /\ \A k \in 1..d : q[k] = o[k]
        /\ q[x] = e
    BY <1>8, AppendProperties
  <2>2. s \in 1..s /\ s \in DOMAIN v /\ v[s] = Close(e)
    <3>1. s # 0
      BY <1>8, EmptySeq
    <3>2. s \in 1..s /\ s \in DOMAIN v
      BY <1>1, <3>1
    <3>3. QED
      BY <1>3, <1>8, <3>2
  <2>3. \A k \in 1..x : k = x \/ (k \in 1..d /\ k # x)
    BY <1>1
  <2>4. /\ g[x] = s /\ x \in 1..x
        /\ \A k \in 1..d : k \in 1..x /\ g[k] = s + f[k]
    BY <1>1
  <2>5. g \in [1..x -> DOMAIN v]
    <3>1. \A k \in 1..x : (IF k = x THEN s ELSE s + f[k]) \in DOMAIN v
      BY <1>4, <2>2, <2>3
    <3>2. QED
      BY <3>1
  <2> HIDE DEF g
  <2>6. \A k \in 1..x : v[g[k]].do = "close" /\ v[g[k]].elem = q[k]
    <3> SUFFICES ASSUME NEW k \in 1..x
                 PROVE  v[g[k]].do = "close" /\ v[g[k]].elem = q[k]
      OBVIOUS
    <3>1. CASE k = x
      BY <2>1, <2>2, <2>4, <3>1 DEF Close
    <3>2. CASE k \in 1..d
      BY <1>2, <1>4, <2>1, <2>4, <3>2
    <3>3. QED
      BY <2>3, <3>1, <3>2
  <2>7. \A k, l \in 1..x : k < l => g[l] < g[k]
    <3> SUFFICES ASSUME NEW k \in 1..x, NEW l \in 1..x, k < l
                 PROVE  g[l] < g[k]
      OBVIOUS
    <3>1. k \in 1..d
      BY <1>1
    <3>2. CASE l = x
      BY <1>1, <1>4, <2>4, <3>1, <3>2
    <3>3. CASE l \in 1..d
      BY <1>6, <2>4, <3>1, <3>3
    <3>4. QED
      BY <2>3, <3>2, <3>3
  <2>8. ASSUME NEW i \in DOMAIN v, v[i].do = "close"
        PROVE  \E k \in 1..x : g[k] = i
    <3>1. i > s \/ i = s \/ (i < s /\ i \in DOMAIN P /\ v[i] = P[i])
      BY <1>1, <1>3
    <3>2. CASE i > s
      BY <1>5, <2>4, <2>8, <3>2
    <3>3. CASE i = s
      BY <2>4, <3>3
    <3>4. QED
      BY <1>8, <2>8, <3>1, <3>2, <3>3
  <2> HIDE DEF x
  <2>9. QED
    BY <2>1, <2>5, <2>6, <2>7, <2>8 DEF Matched
<1>9. QED
  BY <1>7, <1>8

\* What is left of the stack is what a call that makes no calls leaves.
LEMMA RestIsCalling ==
  ASSUME RenderInv, result = "rendering", work # <<>>, NEW n \in 0..Len(Top.ids)
  PROVE  Calling(work, <<>>, n) = Rest(n)
<1>1. Rest(n) \in Seq(Call)
  BY RestOwes
<1>2. QED
  BY <1>1, ConcatEmptySeq DEF Calling, Rest, Top

\* Tags stay matched when a call makes calls.
LEMMA ShapeCalls ==
  ASSUME RenderInv, ShapeInv, result = "rendering", work # <<>>, Top.do # "close",
         NEW n \in 0..Len(Top.ids), NEW P \in Seq(Call), work' = P \o Rest(n), result' = result,
         \/ open' = open /\ \A i \in DOMAIN P : P[i].do # "close"
         \/ \E e \in Elem : /\ open' = Append(open, e) /\ P # <<>> /\ P[Len(P)] = Close(e)
                            /\ \A i \in DOMAIN P : i < Len(P) => P[i].do # "close"
  PROVE  ShapeInv'
<1>1. work \in Seq(Call) /\ open \in Seq(Elem) /\ Top = work[1]
  BY Walking
<1>2. work' = Calling(work, P, n)
  BY DEF Calling, Rest, Top
<1>3. Pushed(work, P, n, work')
  BY <1>1, <1>2, Push DEF Calling
<1>4. Matched(work', open')
  BY <1>1, <1>3, PushMatched DEF ShapeInv
<1>5. QED
  BY <1>4 DEF ShapeInv, Matched

\* A call with its end tag.
LEMMA WithEndTag ==
  ASSUME NEW a \in Call, NEW e \in Elem, a.do # "close"
  PROVE  LET P == <<a, Close(e)>> IN
         /\ P \in Seq(Call) /\ P # <<>> /\ P[Len(P)] = Close(e)
         /\ \A i \in DOMAIN P : i < Len(P) => P[i].do # "close"
<1>1. Close(e) \in Call
  BY Making
<1> DEFINE P == <<a, Close(e)>>
<1>2. P \in Seq(Call) /\ Len(P) = 2 /\ P[2] = Close(e) /\ P[1] = a /\ DOMAIN P = 1..2
  BY <1>1
<1> HIDE DEF P
<1>3. QED
  BY <1>2, EmptySeq DEF P

\* No step leaves an element open without its end tag on the stack, or the other way.
LEMMA ShapeStep == RenderInv /\ ShapeInv /\ [Next]_vars => ShapeInv'
<1> SUFFICES ASSUME RenderInv, ShapeInv, [Next]_vars
             PROVE  ShapeInv'
  OBVIOUS
<1> USE DEF Doing
<1>1. CASE Reject
  <2>1. work' = work /\ open' = open /\ work = <<>>
    BY <1>1 DEF Reject, RenderInv
  <2>2. QED
    BY <2>1 DEF ShapeInv, Matched
<1>2. CASE Start
  <2> DEFINE c == page[Root].content
             w == <<Blocks(c, 0), Close(Body)>>
             o == <<Body>>
             f == [k \in 1..1 |-> 2]
  <2>1. Root \in DOMAIN page /\ page \in Pages /\ open' = o /\ work' = w /\ result' = "rendering"
    BY <1>2 DEF Start, Accepted, Exists, RenderInv
  <2>2. Len(o) = 1 /\ o[1] = Body /\ DOMAIN w = 1..2
    OBVIOUS
  <2>3. w[1].do = "blocks" /\ w[2].do = "close" /\ w[2].elem = Body
    BY DEF Blocks, Close
  <2> HIDE DEF w, o
  <2>4. f \in [1..1 -> DOMAIN w] /\ \A k \in 1..1 : k = 1 /\ f[k] = 2
    BY <2>2
  <2> HIDE DEF f
  <2>5. \A i \in DOMAIN w : w[i].do = "close" => i = 2
    BY <2>2, <2>3
  <2>6. Matched(w, o)
    BY <2>2, <2>3, <2>4, <2>5 DEF Matched
  <2>7. QED
    BY <2>1, <2>6 DEF ShapeInv, Matched
<1>3. CASE Return \/ RefuseItem
  <2>1. /\ result = "rendering" /\ work # <<>> /\ Top.do # "close"
        /\ work' = Tail(work) /\ open' = open /\ result' = result
    BY <1>3 DEF Return, RefuseItem
  <2>2. work \in Seq(Call) /\ open \in Seq(Elem) /\ Top = work[1]
    BY <2>1, Walking
  <2>3. Matched(Tail(work), open)
    BY <2>1, <2>2, Pop, PopMatched DEF ShapeInv
  <2>4. QED
    BY <2>1, <2>3 DEF ShapeInv, Matched
<1>4. CASE SkipMissing \/ RefuseBlock
  <2>1. /\ result = "rendering" /\ work # <<>> /\ Top.do # "close" /\ Top.ids # <<>>
        /\ work' = Rest(1) /\ open' = open /\ result' = result
    BY <1>4 DEF SkipMissing, RefuseBlock, NextBlock, NextId
  <2>2. 1 \in 0..Len(Top.ids)
    BY <2>1, Walking
  <2>3. /\ work \in Seq(Call) /\ open \in Seq(Elem) /\ Top = work[1]
        /\ <<>> \in Seq(Call) /\ DOMAIN <<>> = {}
    BY <2>1, Walking
  <2>4. Pushed(work, <<>>, 1, work')
    <3>1. Pushed(work, <<>>, 1, Calling(work, <<>>, 1))
      BY <2>1, <2>2, <2>3, Push DEF Calling
    <3>2. QED
      BY <2>1, <2>2, <3>1, RestIsCalling
  <2>5. Matched(work', open)
    BY <2>1, <2>2, <2>3, <2>4, PushMatched DEF ShapeInv
  <2>6. QED
    BY <2>1, <2>5 DEF ShapeInv, Matched
<1>5. CASE OpenList
  <2> DEFINE e == Element("list", Head(Top.ids), Top.depth)
  <2>1. /\ result = "rendering" /\ work # <<>> /\ Top.do = "blocks" /\ Top.ids # <<>>
        /\ open' = Append(open, e) /\ result' = result
    BY <1>5 DEF OpenList, NextId, Begin
  <2>2. PICK n \in 1..Len(Top.ids) :
          work' = <<Items(SubSeq(Top.ids, 1, n), Top.depth), Close(e)>> \o Rest(n)
    BY <1>5 DEF OpenList
  <2> DEFINE ids == SubSeq(Top.ids, 1, n)
             a == Items(ids, Top.depth)
             P == <<a, Close(e)>>
  <2>3. e \in Elem /\ Top.depth \in Nat /\ n \in 0..Len(Top.ids)
    BY <2>1, Walking, Making
  <2>4. ids \in Seq(Id)
    <3>1. Top.ids \in Seq(Id) /\ DOMAIN Top.ids = 1..Len(Top.ids) /\ Len(Top.ids) \in Nat
      BY <2>1, Walking
    <3>2. \A k \in 1..n : Top.ids[k] \in Id
      BY <3>1, ElementOfSeq
    <3>3. QED
      BY <3>1, <3>2, SubSeqProperties
  <2>5. a \in Call /\ a.do = "items"
    BY <2>3, <2>4, Making DEF Items
  <2> HIDE DEF a, e
  <2>6. /\ P \in Seq(Call) /\ P # <<>> /\ P[Len(P)] = Close(e)
        /\ \A i \in DOMAIN P : i < Len(P) => P[i].do # "close"
    BY <2>3, <2>5, WithEndTag
  <2>7. work' = P \o Rest(n)
    BY <2>2 DEF a, e
  <2> HIDE DEF P
  <2>8. QED
    BY <2>1, <2>3, <2>6, <2>7, ShapeCalls
<1>6. CASE RenderItem \/ OpenPanel
  <2> DEFINE id == Head(Top.ids)
             a  == Blocks(page[id].content, Top.depth + 1)
  <2>1. /\ result = "rendering" /\ work # <<>> /\ Top.do \in {"items", "panels"} /\ Top.ids # <<>>
        /\ result' = result
    BY <1>6 DEF RenderItem, OpenPanel
  <2>2. PICK is \in {"block", "panel"} :
          /\ open' = Append(open, Element(is, id, Top.depth))
          /\ work' = <<a, Close(Element(is, id, Top.depth))>> \o Rest(1)
    BY <1>6 DEF RenderItem, OpenPanel, Begin
  <2> DEFINE e == Element(is, id, Top.depth)
             P == <<a, Close(e)>>
  <2>3. /\ id \in DOMAIN page /\ id \in Id /\ page \in Pages
        /\ Top.depth \in Nat /\ Top.depth + 1 \in Nat /\ 1 \in 0..Len(Top.ids)
    <3>1. id \in DOMAIN page
      BY <1>6, <2>1, Walking DEF OpenPanel, RenderItem, Exists
    <3>2. QED
      BY <2>1, <3>1, Walking
  <2>4. e \in Elem
    BY <2>3, Making
  <2>5. a \in Call /\ a.do = "blocks"
    <3>1. page[id].content \in Seq(Id)
      BY <2>3, RenderAssumption
    <3>2. QED
      BY <2>3, <3>1, Making DEF Blocks
  <2>6. open' = Append(open, e) /\ work' = P \o Rest(1)
    BY <2>2
  <2> HIDE DEF a, e
  <2>7. /\ P \in Seq(Call) /\ P # <<>> /\ P[Len(P)] = Close(e)
        /\ \A i \in DOMAIN P : i < Len(P) => P[i].do # "close"
    BY <2>4, <2>5, WithEndTag
  <2> HIDE DEF P
  <2>8. QED
    BY <2>1, <2>3, <2>4, <2>6, <2>7, ShapeCalls
<1>7. CASE RenderBlock
  <2> DEFINE id == Head(Top.ids)
             e  == Element("block", id, Top.depth)
             B  == Below(id, Top.depth)
  <2>1. /\ result = "rendering" /\ work # <<>> /\ Top.do = "blocks" /\ Top.ids # <<>>
        /\ id \in DOMAIN page /\ result' = result
        /\ \/ open' = Append(open, e) /\ work' = B \o <<Close(e)>> \o Rest(1)
           \/ open' = open /\ work' = B \o Rest(1)
    BY <1>7 DEF RenderBlock, NextBlock, NextId, Exists, Begin
  <2>2. /\ id \in Id /\ page \in Pages /\ Top.depth \in Nat /\ Top.depth + 1 \in Nat
        /\ 1 \in 0..Len(Top.ids)
    BY <2>1, Walking
  <2>3. e \in Elem /\ Close(e) \in Call
    BY <2>2, Making
  <2>4. \/ B = <<>>
        \/ \E c \in Seq(Id) : B = <<Blocks(c, Top.depth + 1)>> \/ B = <<Panels(c, Top.depth)>>
    BY <2>1, <2>2, BelowCalls
  <2>5. B = <<>> \/ \E a \in Call : B = <<a>> /\ a.do # "close"
    <3>1. ASSUME NEW c \in Seq(Id)
          PROVE  /\ Blocks(c, Top.depth + 1) \in Call /\ Blocks(c, Top.depth + 1).do # "close"
                 /\ Panels(c, Top.depth) \in Call /\ Panels(c, Top.depth).do # "close"
      BY <2>2, Making DEF Blocks, Panels
    <3> HIDE DEF B
    <3>2. QED
      BY <2>4, <3>1
  <2> HIDE DEF B, e
  <2>6. B \in Seq(Call) /\ \A i \in DOMAIN B : B[i].do # "close"
    <3>1. <<>> \in Seq(Call) /\ DOMAIN <<>> = {}
      OBVIOUS
    <3>2. ASSUME NEW a \in Call, B = <<a>>, a.do # "close"
          PROVE  B \in Seq(Call) /\ \A i \in DOMAIN B : B[i].do # "close"
      BY <3>2
    <3>3. QED
      BY <2>5, <3>1, <3>2
  <2>7. CASE open' = open /\ work' = B \o Rest(1)
    BY <2>1, <2>2, <2>6, <2>7, ShapeCalls
  <2>8. CASE open' = Append(open, e) /\ work' = B \o <<Close(e)>> \o Rest(1)
    <3> DEFINE P == B \o <<Close(e)>>
    <3>1. /\ P \in Seq(Call) /\ P # <<>> /\ P[Len(P)] = Close(e)
          /\ \A i \in DOMAIN P : i < Len(P) => P[i].do # "close"
      <4> DEFINE C == <<Close(e)>>
                 b == Len(B)
      <4>1. C \in Seq(Call) /\ Len(C) = 1 /\ C[1] = Close(e)
        BY <2>3
      <4>2. b \in Nat /\ DOMAIN B = 1..b
        BY <2>6, LenProperties
      <4> HIDE DEF C
      <4>3. /\ P \in Seq(Call) /\ Len(P) = b + 1
            /\ \A i \in 1..b + 1 : P[i] = IF i <= b THEN B[i] ELSE C[i - b]
        BY <2>6, <4>1, ConcatProperties DEF C
      <4> HIDE DEF P, b
      <4>4. P[b + 1] = Close(e)
        <5> DEFINE x == b + 1
        <5>1. x \in 1..b + 1 /\ ~(x <= b) /\ x - b = 1
          BY <4>2
        <5> HIDE DEF x
        <5>2. P[x] = C[x - b]
          BY <4>3, <5>1
        <5>3. QED
          BY <4>1, <5>1, <5>2, Zenon DEF x
      <4>5. DOMAIN P = 1..b + 1 /\ P # <<>>
        BY <4>2, <4>3, LenProperties, EmptySeq
      <4>6. ASSUME NEW i \in DOMAIN P, i < Len(P)
            PROVE  P[i].do # "close"
        <5>1. i \in 1..b + 1 /\ i <= b /\ i \in 1..b
          BY <4>2, <4>3, <4>5, <4>6
        <5>2. QED
          BY <2>6, <4>2, <4>3, <5>1
      <4>7. QED
        BY <4>3, <4>4, <4>5, <4>6
    <3>2. work' = P \o Rest(1)
      BY <2>8
    <3> HIDE DEF P
    <3>3. QED
      BY <2>1, <2>2, <2>3, <2>8, <3>1, <3>2, ShapeCalls
  <2>9. QED
    BY <2>1, <2>7, <2>8
<1>8. CASE EndElement
  <2>1. /\ result = "rendering" /\ work # <<>> /\ Top.do = "close" /\ work' = Tail(work)
        /\ open' = SubSeq(open, 1, Len(open) - 1) /\ result' = result
    BY <1>8 DEF EndElement
  <2>2. work \in Seq(Call) /\ open \in Seq(Elem) /\ Top = work[1]
    BY <2>1, Walking
  <2>3. Matched(Tail(work), SubSeq(open, 1, Len(open) - 1))
    BY <2>1, <2>2, Pop, EndMatched DEF ShapeInv
  <2>4. QED
    BY <2>1, <2>3 DEF ShapeInv, Matched
<1>9. CASE Finish
  <2>1. work' = work /\ open' = open /\ work = <<>>
    BY <1>9 DEF Finish
  <2>2. QED
    BY <2>1 DEF ShapeInv, Matched
<1>10. CASE UNCHANGED vars
  BY <1>10 DEF vars, ShapeInv, Matched
<1>11. QED
  BY <1>1, <1>2, <1>3, <1>4, <1>5, <1>6, <1>7, <1>8, <1>9, <1>10 DEF Next, Walk

\* Before the walk nothing is open, and nothing is to be closed.
LEMMA InitShape == Init => ShapeInv
<1> SUFFICES ASSUME Init
             PROVE  ShapeInv
  OBVIOUS
<1> DEFINE f == [k \in 1..Len(open) |-> 1]
<1>1. Len(open) = 0 /\ work = <<>> /\ DOMAIN work = {}
  BY DEF Init
<1>2. 1..Len(open) = {}
  BY <1>1
<1>3. f \in [1..Len(open) -> DOMAIN work]
  BY <1>2
<1> HIDE DEF f
<1>4. QED
  BY <1>1, <1>2, <1>3 DEF ShapeInv, Matched

\* Wherever the budget runs out, every element is closed by its own end tag, the inner
\* ones before the outer, and none is open when RenderPage returns.
THEOREM TagsMatch == Spec => []WellFormed
<1>2. RenderInv /\ ShapeInv => WellFormed
  <2> SUFFICES ASSUME RenderInv, ShapeInv
               PROVE  WellFormed
    OBVIOUS
  <2>1. PICK f \in [1..Len(open) -> DOMAIN work] :
          /\ \A k \in 1..Len(open) : work[f[k]].do = "close" /\ work[f[k]].elem = open[k]
          /\ \A k, l \in 1..Len(open) : k < l => f[l] < f[k]
          /\ \A i \in DOMAIN work : work[i].do = "close" => \E k \in 1..Len(open) : f[k] = i
    BY DEF ShapeInv, Matched
  <2>2. ASSUME result = "rendering", work # <<>>, Top.do = "close"
        PROVE  open # <<>> /\ open[Len(open)] = Top.elem
    <3>1. work \in Seq(Call) /\ open \in Seq(Elem) /\ Top = work[1]
      BY <2>2, Walking
    <3>2. open # <<>> /\ Len(open) \in 1..Len(open) /\ f[Len(open)] = 1
      BY <2>1, <2>2, <3>1, LastIsTop
    <3>3. QED
      BY <2>1, <3>1, <3>2
  <2>3. ASSUME result # "rendering"
        PROVE  open = <<>>
    <3>1. DOMAIN work = {} /\ open \in Seq(Elem)
      BY <2>3 DEF ShapeInv, RenderInv
    <3>2. 1..Len(open) = {} /\ Len(open) \in Nat
      BY <2>1, <3>1, LenProperties
    <3>3. Len(open) = 0
      BY <3>2
    <3>4. QED
      BY <3>1, <3>3, EmptySeq
  <2>4. QED
    BY <2>2, <2>3 DEF WellFormed
<1>3. QED
  BY <1>2, InitShape, InitInv, StepInv, ShapeStep, PTL DEF Spec
--------------------------------------------------------------------------------
\* What is below the blocks of page p at some depth.
Levels(p) == [DOMAIN p -> Seq(Elem)]

\* What a block shows is a list of elements.
LEMMA PieceType ==
  ASSUME NEW p \in Pages, NEW ids, NEW i \in DOMAIN ids, ids[i] \in Id, NEW d \in Nat,
         NEW below \in Levels(p)
  PROVE  Piece(p, ids, i, d, below) \in Seq(Elem)
<1> DEFINE l == IF Starts(p, ids, i) THEN <<Element("list", ids[i], d)>> ELSE <<>>
           b == <<Element("block", ids[i], d)>>
<1>1. Element("list", ids[i], d) \in Elem /\ Element("block", ids[i], d) \in Elem
  BY Making
<1>2. l \in Seq(Elem) /\ b \in Seq(Elem)
  BY <1>1, EmptySeq
<1>3. CASE ids[i] \notin DOMAIN p
  BY <1>3, EmptySeq DEF Piece
<1>4. CASE ids[i] \in DOMAIN p
  <2>1. below[ids[i]] \in Seq(Elem)
    BY <1>4 DEF Levels
  <2>2. Piece(p, ids, i, d, below) = l \o b \o below[ids[i]]
    BY <1>4 DEF Piece
  <2> HIDE DEF l, b
  <2>3. QED
    BY <1>2, <2>1, <2>2, ConcatProperties
<1>5. QED
  BY <1>3, <1>4

\* What blocks show is a list of elements.
LEMMA LaidType ==
  ASSUME NEW p \in Pages, NEW ids \in Seq(Id), NEW d \in Nat,
         NEW below, d <= MaxDepth => below \in Levels(p)
  PROVE  Laid(p, ids, d, below) \in Seq(Elem)
<1>1. CASE d > MaxDepth
  BY <1>1, EmptySeq DEF Laid
<1>2. CASE ~(d > MaxDepth)
  <2> DEFINE s == [i \in DOMAIN ids |-> Piece(p, ids, i, d, below)]
  <2>1. Len(ids) \in Nat /\ DOMAIN ids = 1..Len(ids) /\ \A i \in 1..Len(ids) : ids[i] \in Id
    BY LenProperties, ElementOfSeq
  <2>2. below \in Levels(p)
    BY <1>2, RenderAssumption
  <2>3. \A i \in DOMAIN ids : Piece(p, ids, i, d, below) \in Seq(Elem)
    BY <2>1, <2>2, PieceType
  <2>4. s \in Seq(Seq(Elem))
    BY <2>1, <2>3
  <2>5. Laid(p, ids, d, below) = FlattenSeq(s)
    BY <1>2 DEF Laid
  <2> HIDE DEF s
  <2>6. QED
    BY <2>4, <2>5, FlatType
<1>3. QED
  BY <1>1, <1>2

\* What a tab shows is a list of elements.
LEMMA PanelType ==
  ASSUME NEW p \in Pages, NEW id \in Id, NEW d \in Nat,
         NEW below, d + 1 <= MaxDepth => below \in Levels(p)
  PROVE  Panel(p, id, d, below) \in Seq(Elem)
<1>1. CASE id \notin DOMAIN p
  BY <1>1, EmptySeq DEF Panel
<1>2. CASE id \in DOMAIN p
  <2>1. <<Element("panel", id, d)>> \in Seq(Elem)
    BY Making
  <2>2. p[id].content \in Seq(Id) /\ d + 1 \in Nat
    BY <1>2, RenderAssumption
  <2>3. Laid(p, p[id].content, d + 1, below) \in Seq(Elem)
    <3> DEFINE k == d + 1
    <3>1. k \in Nat /\ (k <= MaxDepth => below \in Levels(p))
      BY <2>2
    <3> HIDE DEF k
    <3>2. Laid(p, p[id].content, k, below) \in Seq(Elem)
      BY <2>2, <3>1, LaidType
    <3>3. QED
      BY <3>2 DEF k
  <2>4. QED
    BY <1>2, <2>1, <2>3, ConcatProperties DEF Panel
<1>3. QED
  BY <1>1, <1>2

\* What is below a block that refers to another one, and below a block with tabs ids.
ReferenceShows(p, id, d, below) ==
  IF p[id].target \in DOMAIN p THEN Laid(p, p[p[id].target].content, d + 1, below) ELSE <<>>
TabsShow(p, ids, d, below) == FlattenSeq([i \in DOMAIN ids |-> Panel(p, ids[i], d, below)])

\* What is below block id, by the type of the block.
LEMMA BeneathOf ==
  ASSUME NEW p, NEW d, NEW below, NEW id \in DOMAIN p
  PROVE  LET b == Beneath(p, d, below)[id] IN
         /\ p[id].kind = "leaf" => b = <<>>
         /\ p[id].kind = "reference" =>
              b = ReferenceShows(p, id, d, below)
         /\ p[id].kind = "tabs" => b = TabsShow(p, p[id].content, d, below)
         /\ p[id].kind \notin {"leaf", "reference", "tabs"} =>
              b = Laid(p, p[id].content, d + 1, below)
<1> DEFINE b == Beneath(p, d, below)[id]
           k == p[id].kind
           leaf == <<>>
           ref == ReferenceShows(p, id, d, below)
           tabs == TabsShow(p, p[id].content, d, below)
           other == Laid(p, p[id].content, d + 1, below)
<1>1. b = CASE k = "leaf" -> leaf [] k = "reference" -> ref [] k = "tabs" -> tabs
            [] OTHER -> other
  BY Zenon DEF Beneath, ReferenceShows, TabsShow
<1> HIDE DEF b, k, leaf, ref, tabs, other
<1>2. CASE k = "leaf"
  <2>1. k # "reference" /\ k # "tabs"
    BY <1>2
  <2>2. b = leaf
    BY <1>1, <1>2, <2>1, Zenon
  <2>3. QED
    BY <1>2, <2>2 DEF b, k, leaf
<1>3. CASE k = "reference"
  <2>1. k # "leaf" /\ k # "tabs"
    BY <1>3
  <2>2. b = ref
    BY <1>1, <1>3, <2>1, Zenon
  <2>3. QED
    BY <1>3, <2>2 DEF b, k, ref
<1>4. CASE k = "tabs"
  <2>1. k # "leaf" /\ k # "reference"
    BY <1>4
  <2>2. b = tabs
    BY <1>1, <1>4, <2>1, Zenon
  <2>3. QED
    BY <1>4, <2>2 DEF b, k, tabs
<1>5. CASE k \notin {"leaf", "reference", "tabs"}
  <2>1. k # "leaf" /\ k # "reference" /\ k # "tabs"
    BY <1>5
  <2>2. b = other
    BY <1>1, <2>1, Zenon
  <2>3. QED
    BY <2>1, <2>2 DEF b, k, other
<1>6. QED
  BY <1>2, <1>3, <1>4, <1>5 DEF k

\* The panels of a tab block, as a function of the tabs.
PanelsOf(p, d, below) == [id \in Id |-> Panel(p, id, d, below)]

\* What tabs show is what each shows, joined.
LEMMA TabsGather ==
  ASSUME NEW p \in Pages, NEW ids \in Seq(Id), NEW d \in Nat,
         NEW below, d + 1 <= MaxDepth => below \in Levels(p)
  PROVE  /\ PanelsOf(p, d, below) \in [Id -> Seq(Elem)]
         /\ TabsShow(p, ids, d, below) = Gather(ids, PanelsOf(p, d, below))
         /\ Gather(ids, PanelsOf(p, d, below)) \in Seq(Elem)
<1> DEFINE f == PanelsOf(p, d, below)
<1>1. f \in [Id -> Seq(Elem)]
  BY PanelType DEF PanelsOf
<1>2. \A i \in DOMAIN ids : ids[i] \in Id
  BY LenProperties, ElementOfSeq
<1>3. [i \in DOMAIN ids |-> Panel(p, ids[i], d, below)] = [i \in DOMAIN ids |-> f[ids[i]]]
  BY <1>2 DEF PanelsOf
<1> HIDE DEF f
<1>4. Gather(ids, f) \in Seq(Elem)
  BY <1>1, GatherType
<1>5. QED
  BY <1>1, <1>3, <1>4 DEF f, Gather, TabsShow

\* What is below the blocks at a depth has its type.
LEMMA BeneathType ==
  ASSUME NEW p \in Pages, NEW d \in Nat,
         NEW below, d + 1 <= MaxDepth => below \in Levels(p)
  PROVE  Beneath(p, d, below) \in Levels(p)
<1> DEFINE b == Beneath(p, d, below)
<1>1. ASSUME NEW id \in DOMAIN p
      PROVE  b[id] \in Seq(Elem)
  <2> DEFINE k == d + 1
  <2>0. k \in Nat /\ (k <= MaxDepth => below \in Levels(p))
    OBVIOUS
  <2> HIDE DEF k
  <2>1. \A c \in Seq(Id) : Laid(p, c, k, below) \in Seq(Elem)
    BY <2>0, LaidType
  <2>2. p[id].content \in Seq(Id)
    BY RenderAssumption
  <2>3. CASE p[id].kind = "leaf"
    <3>1. b[id] = <<>>
      BY <2>3, BeneathOf
    <3>2. QED
      BY <3>1, EmptySeq
  <2>4. CASE p[id].kind = "reference"
    <3>1. p[id].target \in DOMAIN p => p[p[id].target].content \in Seq(Id)
      BY RenderAssumption
    <3>2. b[id] = ReferenceShows(p, id, d, below)
      BY <2>4, BeneathOf
    <3>3. ReferenceShows(p, id, d, below) \in Seq(Elem)
      BY <2>1, <3>1, EmptySeq DEF ReferenceShows, k
    <3>4. QED
      BY <3>2, <3>3
  <2>5. CASE p[id].kind = "tabs"
    <3>1. b[id] = TabsShow(p, p[id].content, d, below)
      BY <2>5, BeneathOf
    <3>2. TabsShow(p, p[id].content, d, below) \in Seq(Elem)
      BY <2>2, TabsGather
    <3>3. QED
      BY <3>1, <3>2
  <2>6. CASE p[id].kind \notin {"leaf", "reference", "tabs"}
    <3>1. b[id] = Laid(p, p[id].content, k, below)
      BY <2>6, BeneathOf DEF k
    <3> HIDE DEF b
    <3>2. QED
      BY <2>1, <2>2, <3>1
  <2>7. QED
    BY <2>3, <2>4, <2>5, <2>6
<1>2. b = [id \in DOMAIN p |-> b[id]]
  BY DEF Beneath
<1> HIDE DEF b
<1>3. b \in Levels(p)
  BY <1>1, <1>2 DEF Levels
<1>4. QED
  BY <1>3 DEF b

\* At the guard nothing is shown below a block but the tabs.
LEMMA BeneathAtGuard ==
  ASSUME NEW p \in Pages, NEW a, NEW b
  PROVE  Beneath(p, MaxDepth, a) = Beneath(p, MaxDepth, b)
<1>1. MaxDepth \in Nat /\ MaxDepth + 1 > MaxDepth
  BY RenderAssumption
<1>2. \A c : Laid(p, c, MaxDepth + 1, a) = <<>> /\ Laid(p, c, MaxDepth + 1, b) = <<>>
  BY <1>1 DEF Laid
<1>3. \A id : Panel(p, id, MaxDepth, a) = Panel(p, id, MaxDepth, b)
  BY <1>2 DEF Panel
<1> DEFINE v == Beneath(p, MaxDepth, a)
           w == Beneath(p, MaxDepth, b)
<1>4. ASSUME NEW id \in DOMAIN p
      PROVE  v[id] = w[id]
  <2>1. ReferenceShows(p, id, MaxDepth, a) = ReferenceShows(p, id, MaxDepth, b)
    BY <1>2 DEF ReferenceShows
  <2>2. TabsShow(p, p[id].content, MaxDepth, a) = TabsShow(p, p[id].content, MaxDepth, b)
    <3> DEFINE c == p[id].content
    <3>1. [i \in DOMAIN c |-> Panel(p, c[i], MaxDepth, a)]
            = [i \in DOMAIN c |-> Panel(p, c[i], MaxDepth, b)]
      BY <1>3
    <3>2. QED
      BY <3>1 DEF TabsShow
  <2>3. Laid(p, p[id].content, MaxDepth + 1, a) = Laid(p, p[id].content, MaxDepth + 1, b)
    BY <1>2
  <2>4. CASE p[id].kind = "leaf"
    BY <2>4, BeneathOf
  <2>5. CASE p[id].kind = "reference"
    BY <2>1, <2>5, BeneathOf
  <2>6. CASE p[id].kind = "tabs"
    BY <2>2, <2>6, BeneathOf
  <2>7. CASE p[id].kind \notin {"leaf", "reference", "tabs"}
    BY <2>3, <2>7, BeneathOf
  <2>8. QED
    BY <2>4, <2>5, <2>6, <2>7
<1>5. v = [id \in DOMAIN p |-> v[id]] /\ w = [id \in DOMAIN p |-> w[id]]
  BY DEF Beneath
<1> HIDE DEF v, w
<1>6. v = w
  BY <1>4, <1>5
<1>7. QED
  BY <1>6 DEF v, w

\* The recursion of what is shown, from the guard upwards.
LEMMA UnderIs ==
  ASSUME NEW p \in Pages
  PROVE  \A d \in 0..MaxDepth : /\ Under(p)[d] \in Levels(p)
                                /\ Under(p)[d] = Beneath(p, d, Under(p)[d + 1])
<1> DEFINE n == MaxDepth
           V == Levels(p)
           Rec(U) == U = [d \in 0..n |-> Beneath(p, d, U[d + 1])]
           base == Beneath(p, n, p)
           step == [k \in 1..n |-> [b \in V |-> Beneath(p, n - k, b)]]
<1>1. n \in Nat
  BY RenderAssumption
<1>2. base \in V
  <2>1. ~(n + 1 <= n)
    BY <1>1
  <2>2. QED
    BY <1>1, <2>1, BeneathType
<1>3. step \in [1..n -> [V -> V]] /\ \A k \in 1..n, b \in V : step[k][b] = Beneath(p, n - k, b)
  <2>1. \A k \in 1..n, b \in V : Beneath(p, n - k, b) \in V
    <3> SUFFICES ASSUME NEW k \in 1..n, NEW b \in V
                 PROVE  Beneath(p, n - k, b) \in V
      OBVIOUS
    <3>1. n - k \in Nat
      BY <1>1
    <3>2. QED
      BY <3>1, BeneathType
  <2> HIDE DEF V
  <2>2. QED
    BY <2>1
<1> HIDE DEF base, step, V
<1>4. PICK f : Recursion(f, n, V, base, step)
  BY <1>1, <1>2, <1>3, RecursionExists
<1>5. /\ \A k \in 0..n : f[k] \in V
      /\ f[0] = base
      /\ \A k \in 1..n : f[k] = Beneath(p, n - k, f[k - 1])
  <2>1. f \in [0..n -> V] /\ f[0] = base /\ \A k \in 1..n : f[k] = step[k][f[k - 1]]
    BY <1>4 DEF Recursion
  <2>2. ASSUME NEW k \in 1..n
        PROVE  f[k] = Beneath(p, n - k, f[k - 1])
    <3>1. k - 1 \in 0..n
      BY <1>1
    <3>2. f[k - 1] \in V
      BY <2>1, <3>1
    <3>3. QED
      BY <1>3, <2>1, <3>2
  <2>3. QED
    BY <2>1, <2>2
<1> DEFINE U == [d \in 0..n |-> f[n - d]]
<1>6. Rec(U)
  <2>1. ASSUME NEW d \in 0..n
        PROVE  U[d] = Beneath(p, d, U[d + 1])
    <3>1. CASE d = n
      <4>1. n - d = 0
        BY <1>1, <3>1
      <4>2. U[d] = f[0]
        BY <4>1
      <4> HIDE DEF U
      <4>3. base = Beneath(p, d, U[d + 1])
        BY <3>1, BeneathAtGuard DEF base
      <4>4. QED
        BY <1>5, <4>2, <4>3
    <3>2. CASE d # n
      <4> DEFINE k == n - d
                 e == d + 1
      <4>1. k \in 1..n /\ n - k = d /\ e \in 0..n /\ n - e = k - 1
        BY <1>1, <3>2
      <4>2. U[d] = f[k] /\ U[e] = f[n - e]
        BY <4>1
      <4> HIDE DEF U, k, e
      <4>3. U[d] = Beneath(p, d, U[e])
        BY <1>5, <4>1, <4>2
      <4>4. QED
        BY <4>3 DEF e
    <3>3. QED
      BY <3>1, <3>2
  <2>2. U = [d \in 0..n |-> U[d]]
    OBVIOUS
  <2> HIDE DEF U
  <2>3. QED
    BY <2>1, <2>2
<1> DEFINE W == CHOOSE X : Rec(X)
<1>7. Under(p) = W
  BY DEF Under
<1>8. Rec(W)
  <2> HIDE DEF Rec
  <2>1. QED
    BY <1>6
<1>9. \A d \in 0..n : W[d] = Beneath(p, d, W[d + 1])
  <2> HIDE DEF W
  <2>1. QED
    BY <1>8
<1> HIDE DEF W, Rec, n
<1> DEFINE good == {k \in 0..n : W[n - k] \in V}
<1>10. 0 \in good
  <2>1. n - 0 = n /\ n \in 0..n /\ 0 \in 0..n
    BY <1>1
  <2>2. W[n] = base
    BY <1>9, <2>1, BeneathAtGuard DEF base, n
  <2>3. QED
    BY <1>2, <2>1, <2>2
<1>11. ASSUME NEW k \in 0..n, k # n, k \in good
       PROVE  k + 1 \in good
  <2> DEFINE d == n - (k + 1)
  <2>1. d \in 0..n /\ d + 1 = n - k /\ d \in Nat /\ k + 1 \in 0..n
    BY <1>1, <1>11
  <2>2. W[d + 1] \in V
    BY <1>11, <2>1
  <2> HIDE DEF d
  <2>3. W[d] \in V
    BY <1>9, <2>1, <2>2, BeneathType DEF V
  <2>4. QED
    BY <2>1, <2>3 DEF d
<1>12. \A k \in 0..n : k \in good
  <2> HIDE DEF good
  <2>1. QED
    BY <1>1, <1>10, <1>11, CountUp
<1>13. \A d \in 0..n : W[d] \in V
  <2> SUFFICES ASSUME NEW d \in 0..n
               PROVE  W[d] \in V
    OBVIOUS
  <2>1. n - d \in 0..n /\ n - (n - d) = d
    BY <1>1
  <2>2. W[n - (n - d)] \in V
    BY <1>12, <2>1
  <2>3. QED
    BY <2>1, <2>2
<1>14. QED
  BY <1>7, <1>9, <1>13 DEF V, n
--------------------------------------------------------------------------------
\* Where a list starts.
LEMMA StartsIs ==
  ASSUME NEW p, NEW ids \in Seq(Id), NEW i \in 1..Len(ids)
  PROVE  Starts(p, ids, i) <=>
           /\ p[ids[i]].kind \in Lists
           /\ ~(i > 1 /\ ids[i - 1] \in DOMAIN p /\ p[ids[i - 1]].kind = p[ids[i]].kind)
<1>1. Len(ids) \in Nat /\ DOMAIN ids = 1..Len(ids)
  BY LenProperties
<1> DEFINE j == i - 1
<1>2. i > 1 <=> j \in DOMAIN ids
  BY <1>1
<1> HIDE DEF j
<1>3. QED
  BY <1>2 DEF Starts, j

\* A part of a list of identifiers.
LEMMA PartOf ==
  ASSUME NEW ids \in Seq(Id), NEW n \in 0..Len(ids)
  PROVE  LET r == SubSeq(ids, n + 1, Len(ids)) IN
         /\ r \in Seq(Id) /\ Len(r) = Len(ids) - n /\ DOMAIN r = 1..Len(ids) - n
         /\ \A i \in 1..Len(ids) - n : r[i] = ids[n + i]
<1> DEFINE r == SubSeq(ids, n + 1, Len(ids))
           m == Len(ids)
<1>1. m \in Nat /\ DOMAIN ids = 1..m
  BY LenProperties
<1>2. \A i \in n + 1..m : ids[i] \in Id
  BY <1>1, ElementOfSeq
<1>3. r \in Seq(Id) /\ Len(r) = m - n /\ \A i \in 1..m - n : r[i] = ids[n + i]
  <2> DEFINE k == n + 1
  <2>1. k \in 1..m + 1 /\ m - k + 1 = m - n /\ \A i \in 1..m - n : k + i - 1 = n + i
    BY <1>1
  <2>2. r = SubSeq(ids, k, m) /\ \A i \in k..m : ids[i] \in Id
    BY <1>2
  <2> HIDE DEF r, k
  <2>3. r \in Seq(Id) /\ Len(r) = m - k + 1 /\ \A i \in 1..m - k + 1 : r[i] = ids[k + i - 1]
    BY <1>1, <2>1, <2>2, SubSeqProperties
  <2>4. QED
    BY <2>1, <2>3
<1> HIDE DEF r, m
<1>4. DOMAIN r = 1..m - n
  BY <1>3, LenProperties
<1>5. QED
  BY <1>3, <1>4 DEF r, m

\* What blocks show is what the first n show, and then what the others show: unless a
\* list goes on from one to the other.
LEMMA LaidSplit ==
  ASSUME NEW p \in Pages, NEW ids \in Seq(Id), NEW d \in 0..MaxDepth, NEW below \in Levels(p),
         NEW n \in 1..Len(ids), NEW a \in Seq(Seq(Elem)), Len(a) = n,
         \A i \in 1..n : a[i] = Piece(p, ids, i, d, below),
         n < Len(ids) => ~(/\ ids[n] \in DOMAIN p /\ ids[n + 1] \in DOMAIN p
                           /\ p[ids[n + 1]].kind \in Lists
                           /\ p[ids[n]].kind = p[ids[n + 1]].kind)
  PROVE  Laid(p, ids, d, below)
           = FlattenSeq(a) \o Laid(p, SubSeq(ids, n + 1, Len(ids)), d, below)
<1> DEFINE m == Len(ids)
           l == m - n
           r == SubSeq(ids, n + 1, m)
           s == [i \in DOMAIN ids |-> Piece(p, ids, i, d, below)]
           b == [i \in DOMAIN r |-> Piece(p, r, i, d, below)]
<1>0. MaxDepth \in Nat /\ d \in Nat /\ ~(d > MaxDepth)
  BY RenderAssumption
<1>1. m \in Nat /\ l \in Nat /\ n \in 1..m /\ DOMAIN ids = 1..m /\ m = n + l
  BY LenProperties
<1>2. r \in Seq(Id) /\ Len(r) = l /\ DOMAIN r = 1..l /\ \A i \in 1..l : r[i] = ids[n + i]
  <2>1. n \in 0..Len(ids)
    BY <1>1
  <2>2. QED
    BY <2>1, PartOf
<1>3. Laid(p, ids, d, below) = FlattenSeq(s) /\ Laid(p, r, d, below) = FlattenSeq(b)
  BY <1>0 DEF Laid
<1> HIDE DEF m, l, r
<1>4. ASSUME NEW i \in 1..l
      PROVE  Piece(p, r, i, d, below) = Piece(p, ids, n + i, d, below)
  <2> DEFINE k == n + i
  <2>1. k \in 1..m /\ r[i] = ids[k] /\ k > 1
    BY <1>1, <1>2
  <2>2. Starts(p, ids, k) <=>
          /\ p[ids[k]].kind \in Lists
          /\ ~(k > 1 /\ ids[k - 1] \in DOMAIN p /\ p[ids[k - 1]].kind = p[ids[k]].kind)
    <3> HIDE DEF k
    <3>1. QED
      BY <2>1, StartsIs DEF m
  <2>3. Starts(p, r, i) <=>
          /\ p[r[i]].kind \in Lists
          /\ ~(i > 1 /\ r[i - 1] \in DOMAIN p /\ p[r[i - 1]].kind = p[r[i]].kind)
    BY <1>2, StartsIs
  <2>4. ids[k] \in DOMAIN p => (Starts(p, r, i) <=> Starts(p, ids, k))
    <3>1. CASE i = 1
      <4>1. k - 1 = n /\ k = n + 1 /\ n < m
        BY <1>1, <3>1
      <4>2. ~(i > 1)
        BY <3>1
      <4>3. ids[k] \in DOMAIN p /\ p[ids[k]].kind \in Lists =>
              ~(ids[n] \in DOMAIN p /\ p[ids[n]].kind = p[ids[k]].kind)
        BY <4>1 DEF m
      <4> HIDE DEF k
      <4>4. QED
        BY <2>1, <2>2, <2>3, <4>1, <4>2, <4>3
    <3>2. CASE i # 1
      <4>1. i > 1 /\ i - 1 \in 1..l /\ k - 1 = n + (i - 1)
        BY <1>1, <3>2
      <4>2. r[i - 1] = ids[k - 1]
        BY <1>2, <4>1
      <4> HIDE DEF k
      <4>3. QED
        BY <2>1, <2>2, <2>3, <4>1, <4>2
    <3>3. QED
      BY <3>1, <3>2
  <2> HIDE DEF k
  <2>5. Piece(p, r, i, d, below) = Piece(p, ids, k, d, below)
    BY <2>1, <2>4 DEF Piece
  <2>6. QED
    BY <2>5 DEF k
<1>5. \A i \in 1..m : Piece(p, ids, i, d, below) \in Seq(Elem)
  <2> SUFFICES ASSUME NEW i \in 1..m
               PROVE  Piece(p, ids, i, d, below) \in Seq(Elem)
    OBVIOUS
  <2>1. ids[i] \in Id
    BY <1>1, ElementOfSeq DEF m
  <2>2. i \in DOMAIN ids
    BY <1>1
  <2>3. QED
    BY <1>0, <2>1, <2>2, PieceType
<1>6. /\ s \in Seq(Seq(Elem)) /\ Len(s) = m /\ s = [i \in 1..m |-> s[i]]
      /\ \A i \in 1..m : s[i] = Piece(p, ids, i, d, below)
  <2>1. s = [i \in 1..m |-> Piece(p, ids, i, d, below)]
    BY <1>1
  <2>2. s \in Seq(Seq(Elem)) /\ Len(s) = m
    BY <1>1, <1>5, <2>1
  <2>3. \A i \in 1..m : s[i] = Piece(p, ids, i, d, below)
    BY <2>1
  <2> HIDE DEF s
  <2>4. QED
    BY <2>1, <2>2, <2>3
<1>7. b \in Seq(Seq(Elem)) /\ Len(b) = l /\ \A i \in 1..l : b[i] = Piece(p, ids, n + i, d, below)
  <2>1. \A i \in 1..l : Piece(p, r, i, d, below) \in Seq(Elem)
    <3> SUFFICES ASSUME NEW i \in 1..l
                 PROVE  Piece(p, r, i, d, below) \in Seq(Elem)
      OBVIOUS
    <3>1. n + i \in 1..m
      BY <1>1
    <3>2. QED
      BY <1>4, <1>5, <3>1
  <2> DEFINE q == [i \in 1..l |-> Piece(p, r, i, d, below)]
  <2>2. q \in Seq(Seq(Elem)) /\ Len(q) = l /\ \A i \in 1..l : q[i] = Piece(p, r, i, d, below)
    BY <1>1, <2>1
  <2>3. b = q
    BY <1>2
  <2> HIDE DEF b, q
  <2>4. QED
    BY <1>4, <2>2, <2>3
<1> HIDE DEF s, b
<1> DEFINE ab == a \o b
<1>8. /\ ab \in Seq(Seq(Elem)) /\ Len(ab) = m
      /\ \A i \in 1..m : ab[i] = IF i <= n THEN a[i] ELSE b[i - n]
  <2>1. /\ ab \in Seq(Seq(Elem)) /\ Len(ab) = n + l
        /\ \A i \in 1..n + l : ab[i] = IF i <= n THEN a[i] ELSE b[i - n]
    <3>1. /\ ab \in Seq(Seq(Elem)) /\ Len(ab) = Len(a) + Len(b)
          /\ \A i \in 1..Len(a) + Len(b) : ab[i] = IF i <= Len(a) THEN a[i] ELSE b[i - Len(a)]
      BY <1>7, ConcatProperties, ZenonT(30)
    <3> HIDE DEF ab
    <3>2. QED
      BY <1>7, <3>1
  <2> HIDE DEF ab
  <2>2. QED
    BY <1>1, <2>1
<1> HIDE DEF ab
<1>9. \A i \in 1..m : ab[i] = s[i]
  <2> SUFFICES ASSUME NEW i \in 1..m
               PROVE  ab[i] = s[i]
    OBVIOUS
  <2>1. CASE i <= n
    <3>1. i \in 1..n
      BY <1>1, <2>1
    <3>2. QED
      BY <1>6, <1>8, <2>1, <3>1
  <2>2. CASE ~(i <= n)
    <3> DEFINE j == i - n
    <3>1. j \in 1..l /\ n + j = i
      BY <1>1, <2>2
    <3> HIDE DEF j
    <3>2. b[j] = Piece(p, ids, i, d, below)
      BY <1>7, <3>1
    <3>3. QED
      BY <1>6, <1>8, <2>2, <3>2 DEF j
  <2>3. QED
    BY <2>1, <2>2
<1>10. ab = s
  <2>1. DOMAIN ab = 1..m
    BY <1>8, LenProperties
  <2>2. ab = [i \in 1..m |-> ab[i]]
    BY <1>8, <2>1
  <2>3. QED
    BY <1>6, <1>9, <2>2
<1>11. FlattenSeq(ab) = FlattenSeq(a) \o FlattenSeq(b)
  BY <1>7, FlatConcat DEF ab
<1>12. QED
  BY <1>3, <1>10, <1>11 DEF r, m

\* How lists of elements are joined does not depend on the order it is done in.
LEMMA ElemJoins ==
  /\ \A x, y, z \in Seq(Elem) : (x \o y) \o z = x \o (y \o z)
  /\ \A x, y \in Seq(Elem) : x \o y \in Seq(Elem)
BY JoinAnyOrder

\* A first block that is missing shows nothing.
LEMMA LaidMissing ==
  ASSUME NEW p \in Pages, NEW ids \in Seq(Id), NEW d \in 0..MaxDepth, NEW below \in Levels(p),
         ids # <<>>, ids[1] \notin DOMAIN p
  PROVE  Laid(p, ids, d, below) = Laid(p, SubSeq(ids, 2, Len(ids)), d, below)
<1> DEFINE e == <<>>
           a == <<e>>
<1>1. 1 \in 1..Len(ids) /\ Len(ids) \in Nat
  BY EmptySeq, LenProperties
<1>2. e \in Seq(Elem) /\ a \in Seq(Seq(Elem)) /\ Len(a) = 1 /\ a[1] = e
  BY EmptySeq
<1>3. Piece(p, ids, 1, d, below) = e
  BY DEF Piece
<1>4. FlattenSeq(a) = e
  <2> HIDE DEF e
  <2>1. QED
    BY <1>2, FlatOne
<1> DEFINE r == SubSeq(ids, 2, Len(ids))
<1> HIDE DEF a
<1>5. Laid(p, ids, d, below) = FlattenSeq(a) \o Laid(p, r, d, below)
  <2>1. \A i \in 1..1 : a[i] = Piece(p, ids, i, d, below)
    BY <1>2, <1>3
  <2> HIDE DEF e
  <2>2. Laid(p, ids, d, below) = FlattenSeq(a) \o Laid(p, SubSeq(ids, 1 + 1, Len(ids)), d, below)
    BY <1>1, <1>2, <2>1, LaidSplit
  <2>3. QED
    BY <2>2
<1>6. Laid(p, r, d, below) \in Seq(Elem)
  <2>1. r \in Seq(Id) /\ d \in Nat
    <3>1. 1 \in 0..Len(ids)
      BY <1>1
    <3>2. SubSeq(ids, 1 + 1, Len(ids)) \in Seq(Id)
      BY <3>1, PartOf
    <3>3. QED
      BY <3>2
  <2>2. QED
    BY <2>1, LaidType
<1> HIDE DEF r
<1>7. QED
  BY <1>4, <1>5, <1>6, ConcatEmptySeq DEF r

\* A first block that is not an item of a list shows itself and what is below it.
LEMMA LaidBlock ==
  ASSUME NEW p \in Pages, NEW ids \in Seq(Id), NEW d \in 0..MaxDepth, NEW below \in Levels(p),
         ids # <<>>, ids[1] \in DOMAIN p, p[ids[1]].kind \notin Lists
  PROVE  Laid(p, ids, d, below)
           = (<<Element("block", ids[1], d)>> \o below[ids[1]])
               \o Laid(p, SubSeq(ids, 2, Len(ids)), d, below)
<1> DEFINE b == <<Element("block", ids[1], d)>>
           c == below[ids[1]]
           e == b \o c
           a == <<e>>
<1>1. 1 \in 1..Len(ids) /\ Len(ids) \in Nat /\ ids[1] \in Id
  BY EmptySeq, LenProperties, ElementOfSeq
<1>2. b \in Seq(Elem) /\ c \in Seq(Elem)
  BY <1>1, Making DEF Levels
<1>3. Piece(p, ids, 1, d, below) = e
  <2>1. ~Starts(p, ids, 1)
    BY DEF Starts
  <2>2. Piece(p, ids, 1, d, below) = <<>> \o b \o c
    BY <2>1 DEF Piece
  <2> HIDE DEF b, c
  <2>3. <<>> \o b = b
    BY <1>2, ConcatEmptySeq
  <2>4. QED
    BY <2>2, <2>3
<1> HIDE DEF b, c
<1>4. e \in Seq(Elem)
  BY <1>2, ConcatProperties
<1> HIDE DEF e
<1>5. a \in Seq(Seq(Elem)) /\ Len(a) = 1 /\ a[1] = e
  BY <1>4
<1>6. FlattenSeq(a) = e
  BY <1>4, FlatOne
<1> HIDE DEF a
<1>7. \A i \in 1..1 : a[i] = Piece(p, ids, i, d, below)
  BY <1>3, <1>5
<1>8. Laid(p, ids, d, below) = FlattenSeq(a) \o Laid(p, SubSeq(ids, 1 + 1, Len(ids)), d, below)
  <2>1. ~(p[ids[1]].kind \in Lists)
    OBVIOUS
  <2>2. QED
    BY <1>1, <1>5, <1>7, <2>1, LaidSplit
<1>9. QED
  BY <1>6, <1>8 DEF e, b, c

\* The items of a list at depth d, as a function of the blocks.
ItemsOf(p, d, below) ==
  [id \in DOMAIN p \cap Id |-> <<Element("block", id, d)>> \o below[id]]

\* What items show are lists of elements.
LEMMA ItemsOfType ==
  ASSUME NEW p \in Pages, NEW d \in Nat, NEW below \in Levels(p)
  PROVE  ItemsOf(p, d, below) \in [DOMAIN p \cap Id -> Seq(Elem)]
<1>1. ASSUME NEW id \in DOMAIN p \cap Id
      PROVE  <<Element("block", id, d)>> \o below[id] \in Seq(Elem)
  <2>1. <<Element("block", id, d)>> \in Seq(Elem) /\ below[id] \in Seq(Elem)
    BY Making DEF Levels
  <2>2. QED
    BY <2>1, ConcatProperties
<1>2. QED
  BY <1>1 DEF ItemsOf

\* Blocks that are the items of a list show the list, then each item and what is below
\* it, and then what the others show.
LEMMA LaidList ==
  ASSUME NEW p \in Pages, NEW ids \in Seq(Id), NEW d \in 0..MaxDepth, NEW below \in Levels(p),
         NEW n \in 1..Len(ids), p[ids[1]].kind \in Lists,
         \A i \in 1..n : ids[i] \in DOMAIN p /\ p[ids[i]].kind = p[ids[1]].kind,
         n < Len(ids) => ~(ids[n + 1] \in DOMAIN p /\ p[ids[n + 1]].kind = p[ids[1]].kind)
  PROVE  Laid(p, ids, d, below)
           = (<<Element("list", ids[1], d)>>
               \o Gather(SubSeq(ids, 1, n), ItemsOf(p, d, below)))
               \o Laid(p, SubSeq(ids, n + 1, Len(ids)), d, below)
<1> DEFINE l == <<Element("list", ids[1], d)>>
           f == ItemsOf(p, d, below)
           g == SubSeq(ids, 1, n)
           h == [i \in 1..n |-> f[ids[i]]]
           a == [i \in 1..n |-> IF i = 1 THEN l \o f[ids[1]] ELSE f[ids[i]]]
<1>1. Len(ids) \in Nat /\ 1 \in 1..n /\ n \in Nat /\ d \in Nat /\ \A i \in 1..n : ids[i] \in Id /\ i \in 1..Len(ids)
  BY LenProperties, ElementOfSeq
<1>2. f \in [DOMAIN p \cap Id -> Seq(Elem)]
  BY <1>1, ItemsOfType
<1>3. l \in Seq(Elem)
  BY <1>1, Making
<1>4. \A i \in 1..n : f[ids[i]] = <<Element("block", ids[i], d)>> \o below[ids[i]]
  BY <1>1 DEF ItemsOf
<1>5. \A i \in 1..n : f[ids[i]] \in Seq(Elem)
  BY <1>1, <1>2
<1>6. \A i \in 1..n : Piece(p, ids, i, d, below) = IF i = 1 THEN l \o f[ids[1]] ELSE f[ids[i]]
  <2> SUFFICES ASSUME NEW i \in 1..n
               PROVE  Piece(p, ids, i, d, below) = IF i = 1 THEN l \o f[ids[1]] ELSE f[ids[i]]
    OBVIOUS
  <2> DEFINE b == <<Element("block", ids[i], d)>>
             c == below[ids[i]]
  <2>1. b \in Seq(Elem) /\ c \in Seq(Elem) /\ f[ids[i]] = b \o c
    BY <1>1, <1>4, Making DEF Levels
  <2>2. Starts(p, ids, i) <=> i = 1
    <3>1. Starts(p, ids, i) <=>
            /\ p[ids[i]].kind \in Lists
            /\ ~(i > 1 /\ ids[i - 1] \in DOMAIN p /\ p[ids[i - 1]].kind = p[ids[i]].kind)
      BY <1>1, StartsIs
    <3>2. i # 1 => i > 1 /\ i - 1 \in 1..n
      BY <1>1
    <3>3. QED
      BY <3>1, <3>2
  <2>3. CASE i = 1
    <3>1. Piece(p, ids, i, d, below) = l \o b \o c
      BY <2>2, <2>3 DEF Piece
    <3> HIDE DEF b, c, l
    <3>2. \A x, y, z \in Seq(Elem) : (x \o y) \o z = x \o (y \o z)
      BY ElemJoins, Zenon
    <3>3. (l \o b) \o c = l \o (b \o c)
      BY <1>3, <2>1, <3>2, Zenon
    <3>4. QED
      BY <2>1, <2>3, <3>1, <3>3
  <2>4. CASE i # 1
    <3>1. Piece(p, ids, i, d, below) = <<>> \o b \o c
      BY <2>2, <2>4 DEF Piece
    <3> HIDE DEF b, c, l
    <3>2. <<>> \o b = b
      BY <2>1, ConcatEmptySeq
    <3>3. QED
      BY <2>1, <2>4, <3>1, <3>2
  <2>5. QED
    BY <2>3, <2>4
<1>7. l \o f[ids[1]] \in Seq(Elem)
  BY <1>1, <1>3, <1>5, ConcatProperties
<1> HIDE DEF l, f
<1>8. a \in Seq(Seq(Elem)) /\ Len(a) = n /\ \A i \in 1..n : a[i] = Piece(p, ids, i, d, below)
  BY <1>1, <1>5, <1>6, <1>7
<1>9. h \in Seq(Seq(Elem)) /\ Len(h) = n
  BY <1>1, <1>5
<1>10. FlattenSeq(a) = l \o FlattenSeq(h)
  <2> DEFINE t == [i \in 1..n - 1 |-> f[ids[i + 1]]]
             x == l \o f[ids[1]]
             y == f[ids[1]]
  <2>1. t \in Seq(Seq(Elem))
    <3>1. \A i \in 1..n - 1 : i + 1 \in 1..n
      BY <1>1
    <3>2. n - 1 \in Nat
      BY <1>1
    <3>3. QED
      BY <1>5, <3>1, <3>2
  <2>3. x \in Seq(Elem) /\ y \in Seq(Elem)
    BY <1>1, <1>5, <1>7
  <2>2. h = <<y>> \o t /\ a = <<x>> \o t
    <3> DEFINE k == n - 1
    <3>1. k \in Nat /\ n = 1 + k /\ DOMAIN t = 1..k
      BY <1>1
    <3>2. Len(t) = k /\ \A i \in 1..k : t[i] = f[ids[i + 1]]
      BY <3>1
    <3> HIDE DEF t, k
    <3>3. ASSUME NEW z \in Seq(Elem)
          PROVE  <<z>> \o t = [i \in 1..n |-> IF i = 1 THEN z ELSE f[ids[i]]]
      <4> DEFINE u == <<z>>
                 v == u \o t
      <4>1. u \in Seq(Seq(Elem)) /\ Len(u) = 1 /\ u[1] = z
        BY <3>3
      <4> HIDE DEF u
      <4>2. /\ v \in Seq(Seq(Elem)) /\ Len(v) = 1 + k
            /\ \A i \in 1..1 + k : v[i] = IF i <= 1 THEN u[i] ELSE t[i - 1]
        <5>1. /\ v \in Seq(Seq(Elem)) /\ Len(v) = Len(u) + Len(t)
              /\ \A i \in 1..Len(u) + Len(t) : v[i] = IF i <= Len(u) THEN u[i] ELSE t[i - Len(u)]
          BY <2>1, <4>1, ConcatProperties
        <5> HIDE DEF v
        <5>2. QED
          BY <3>2, <4>1, <5>1
      <4> HIDE DEF v
      <4>3. DOMAIN v = 1..n
        BY <3>1, <4>2, LenProperties
      <4>4. v = [i \in 1..n |-> v[i]]
        BY <4>2, <4>3
      <4>5. \A i \in 1..n : v[i] = IF i = 1 THEN z ELSE f[ids[i]]
        <5> SUFFICES ASSUME NEW i \in 1..n
                     PROVE  v[i] = IF i = 1 THEN z ELSE f[ids[i]]
          OBVIOUS
        <5>1. CASE i = 1
          BY <3>1, <4>1, <4>2, <5>1
        <5>2. CASE i # 1
          <6> DEFINE j == i - 1
          <6>1. j \in 1..k /\ j + 1 = i /\ ~(i <= 1) /\ i \in 1..1 + k
            BY <1>1, <3>1, <5>2
          <6>2. v[i] = t[j]
            BY <4>2, <6>1
          <6> HIDE DEF j
          <6>3. QED
            BY <3>2, <5>2, <6>1, <6>2
        <5>3. QED
          BY <5>1, <5>2
      <4>6. v = [i \in 1..n |-> IF i = 1 THEN z ELSE f[ids[i]]]
        BY <4>4, <4>5
      <4>7. QED
        BY <4>6 DEF v, u
    <3>4. h = [i \in 1..n |-> IF i = 1 THEN y ELSE f[ids[i]]]
      OBVIOUS
    <3> HIDE DEF h, a, x, y
    <3>5. <<y>> \o t = [i \in 1..n |-> IF i = 1 THEN y ELSE f[ids[i]]]
          /\ <<x>> \o t = [i \in 1..n |-> IF i = 1 THEN x ELSE f[ids[i]]]
      BY <2>3, <3>3
    <3>6. a = [i \in 1..n |-> IF i = 1 THEN x ELSE f[ids[i]]]
      BY DEF a, x
    <3>7. QED
      BY <3>4, <3>5, <3>6
  <2> HIDE DEF t
  <2>4. FlattenSeq(h) = y \o FlattenSeq(t) /\ FlattenSeq(a) = x \o FlattenSeq(t)
    <3> HIDE DEF h, a, x, y
    <3>1. QED
      BY <2>1, <2>2, <2>3, FlatCons
  <2>5. FlattenSeq(t) \in Seq(Elem)
    BY <2>1, FlatType
  <2> DEFINE z == FlattenSeq(t)
  <2>6. (l \o y) \o z = l \o (y \o z)
    <3> HIDE DEF y, z
    <3>1. \A u, v, w \in Seq(Elem) : (u \o v) \o w = u \o (v \o w)
      BY ElemJoins, Zenon
    <3>2. z \in Seq(Elem)
      BY <2>5 DEF z
    <3>3. QED
      BY <1>3, <2>3, <3>1, <3>2, Zenon
  <2> HIDE DEF h, a
  <2>7. QED
    BY <2>4, <2>6
<1>11. FlattenSeq(h) = Gather(g, f)
  <2>1. /\ g \in Seq(Id) /\ Len(g) = n - 1 + 1
        /\ \A i \in 1..n - 1 + 1 : g[i] = ids[1 + i - 1]
    BY <1>1, SubSeqProperties
  <2>2. n - 1 + 1 = n /\ \A i \in 1..n : 1 + i - 1 = i
    BY <1>1
  <2>3. DOMAIN g = 1..n /\ \A i \in 1..n : g[i] = ids[i]
    BY <2>1, <2>2, LenProperties
  <2> HIDE DEF g
  <2>4. [i \in DOMAIN g |-> f[g[i]]] = h
    BY <2>3
  <2> HIDE DEF h
  <2>5. QED
    BY <2>4 DEF Gather
<1>12. Laid(p, ids, d, below) = FlattenSeq(a) \o Laid(p, SubSeq(ids, n + 1, Len(ids)), d, below)
  <2>1. n < Len(ids) => ~(/\ ids[n] \in DOMAIN p /\ ids[n + 1] \in DOMAIN p
                          /\ p[ids[n + 1]].kind \in Lists
                          /\ p[ids[n]].kind = p[ids[n + 1]].kind)
    <3>1. n \in 1..n
      BY <1>1
    <3>2. p[ids[n]].kind = p[ids[1]].kind
      BY <3>1
    <3>3. QED
      BY <3>2
  <2> HIDE DEF a
  <2>2. QED
    BY <1>8, <2>1, LaidSplit
<1>13. QED
  BY <1>10, <1>11, <1>12 DEF l, f, g
--------------------------------------------------------------------------------
\* The calls the walk makes.
Legal(p) ==
  {c \in Call :
     /\ c.do = "blocks" => c.depth <= MaxDepth + 1
     /\ c.do \in {"items", "panels"} => c.depth <= MaxDepth
     /\ c.do = "items" =>
          \A k \in DOMAIN c.ids : c.ids[k] \in DOMAIN p /\ p[c.ids[k]].kind \in Lists}

\* What call c has still to write, and all of the calls of a stack.
Owes(p, c) ==
  IF c.do = "blocks" THEN Laid(p, c.ids, c.depth, Under(p)[c.depth])
  ELSE IF c.do = "items" THEN Gather(c.ids, ItemsOf(p, c.depth, Under(p)[c.depth]))
  ELSE IF c.do = "panels" THEN Gather(c.ids, PanelsOf(p, c.depth, Under(p)[c.depth + 1]))
  ELSE <<>>
OwesOf(p) == [c \in Legal(p) |-> Owes(p, c)]
Pending(p, w) == Gather(w, OwesOf(p))

\* What the blocks of a depth hold below them has a type, one level down as well.
LEMMA UnderType ==
  ASSUME NEW p \in Pages, NEW d \in Nat
  PROVE  /\ d <= MaxDepth => Under(p)[d] \in Levels(p)
         /\ d + 1 <= MaxDepth => Under(p)[d + 1] \in Levels(p)
<1>1. MaxDepth \in Nat
  BY RenderAssumption
<1>2. d <= MaxDepth => d \in 0..MaxDepth
  BY <1>1
<1>3. d + 1 <= MaxDepth => d + 1 \in 0..MaxDepth
  BY <1>1
<1>4. QED
  BY <1>2, <1>3, UnderIs

\* The identifiers of a list's items are those of blocks of the page.
LEMMA ItemIds ==
  ASSUME NEW p, NEW c \in Legal(p), c.do = "items"
  PROVE  c.ids \in Seq(DOMAIN p \cap Id)
<1>1. c.ids \in Seq(Id) /\ \A k \in DOMAIN c.ids : c.ids[k] \in DOMAIN p
  BY DEF Legal, Call
<1>2. Len(c.ids) \in Nat /\ DOMAIN c.ids = 1..Len(c.ids) /\ \A k \in DOMAIN c.ids : c.ids[k] \in Id
  BY <1>1, LenProperties, ElementOfSeq
<1> DEFINE s == c.ids
<1> HIDE DEF s
<1>3. s = [k \in 1..Len(s) |-> s[k]]
  BY <1>1, <1>2 DEF s
<1>4. [k \in 1..Len(s) |-> s[k]] \in Seq(DOMAIN p \cap Id)
  BY <1>1, <1>2 DEF s
<1>5. QED
  BY <1>3, <1>4 DEF s

\* What a call owes is a list of elements.
LEMMA OwesType ==
  ASSUME NEW p \in Pages
  PROVE  OwesOf(p) \in [Legal(p) -> Seq(Elem)]
<1>1. ASSUME NEW c \in Legal(p)
      PROVE  Owes(p, c) \in Seq(Elem)
  <2>1. c.ids \in Seq(Id) /\ c.depth \in Nat
    BY DEF Legal, Call
  <2> DEFINE d == c.depth
  <2>2. CASE c.do = "blocks"
    <3>1. Laid(p, c.ids, d, Under(p)[d]) \in Seq(Elem)
      BY <2>1, UnderType, LaidType
    <3>2. QED
      BY <2>2, <3>1 DEF Owes
  <2>3. CASE c.do = "items"
    <3>1. d <= MaxDepth
      BY <2>3 DEF Legal
    <3>2. ItemsOf(p, d, Under(p)[d]) \in [DOMAIN p \cap Id -> Seq(Elem)]
      BY <2>1, <3>1, UnderType, ItemsOfType
    <3>3. Gather(c.ids, ItemsOf(p, d, Under(p)[d])) \in Seq(Elem)
      BY <2>3, <3>2, ItemIds, GatherType
    <3>4. QED
      BY <2>3, <3>3 DEF Owes
  <2>4. CASE c.do = "panels"
    <3>1. Gather(c.ids, PanelsOf(p, d, Under(p)[d + 1])) \in Seq(Elem)
      BY <2>1, UnderType, TabsGather
    <3>2. QED
      BY <2>4, <3>1 DEF Owes
  <2>5. CASE c.do \notin {"blocks", "items", "panels"}
    <3>1. Owes(p, c) = <<>>
      BY <2>5 DEF Owes
    <3>2. QED
      BY <3>1, EmptySeq
  <2>6. QED
    BY <2>2, <2>3, <2>4, <2>5
<1>2. QED
  BY <1>1 DEF OwesOf

\* The stack of the walk holds such calls.
LEMMA StackLegal ==
  ASSUME NEW p, NEW o, NEW w, Stack(p, o, w)
  PROVE  w \in Seq(Legal(p))
<1>1. w \in Seq(Call) /\ Nested(w) /\ ItemsExist(p, w)
  BY DEF Stack
<1>2. Len(w) \in Nat /\ DOMAIN w = 1..Len(w) /\ \A i \in 1..Len(w) : w[i] \in Call
  BY <1>1, LenProperties, ElementOfSeq
<1>3. \A i \in 1..Len(w) : w[i] \in Legal(p)
  BY <1>1, <1>2 DEF Legal, Nested, ItemsExist
<1>4. w = [i \in 1..Len(w) |-> w[i]]
  BY <1>1, <1>2
<1>5. [i \in 1..Len(w) |-> w[i]] \in Seq(Legal(p))
  BY <1>2, <1>3
<1>6. QED
  BY <1>4, <1>5

\* What is pending on a stack: first what its top owes.
LEMMA PendingTop ==
  ASSUME NEW p \in Pages, NEW w \in Seq(Legal(p)), w # <<>>
  PROVE  /\ Pending(p, w) = Owes(p, w[1]) \o Pending(p, Tail(w))
         /\ Owes(p, w[1]) \in Seq(Elem) /\ Pending(p, Tail(w)) \in Seq(Elem)
         /\ Tail(w) \in Seq(Legal(p)) /\ w[1] \in Legal(p)
<1>1. w[1] \in Legal(p) /\ Tail(w) \in Seq(Legal(p))
  <2>1. Len(w) \in Nat \ {0}
    BY EmptySeq, LenProperties
  <2>2. w[1] \in Legal(p)
    BY <2>1, ElementOfSeq
  <2>3. QED
    BY <2>2, HeadTailProperties
<1>2. OwesOf(p) \in [Legal(p) -> Seq(Elem)]
  BY OwesType
<1>3. Gather(w, OwesOf(p)) = OwesOf(p)[w[1]] \o Gather(Tail(w), OwesOf(p))
  BY <1>2, GatherCons
<1>4. OwesOf(p)[w[1]] = Owes(p, w[1])
  BY <1>1 DEF OwesOf
<1>5. Owes(p, w[1]) \in Seq(Elem)
  BY <1>1, <1>2, <1>4
<1>6. Gather(Tail(w), OwesOf(p)) \in Seq(Elem)
  BY <1>1, <1>2, GatherType
<1>7. QED
  BY <1>1, <1>3, <1>4, <1>5, <1>6 DEF Pending

\* What is pending after calls P have been made and call t is left of the top.
LEMMA PendingAfter ==
  ASSUME NEW p \in Pages, NEW P \in Seq(Legal(p)), NEW t \in Legal(p), NEW r \in Seq(Legal(p))
  PROVE  /\ Pending(p, P \o (<<t>> \o r)) = Pending(p, P) \o (Owes(p, t) \o Pending(p, r))
         /\ Pending(p, P) \in Seq(Elem) /\ Owes(p, t) \in Seq(Elem) /\ Pending(p, r) \in Seq(Elem)
<1> DEFINE f == OwesOf(p)
           c == <<t>>
           u == c \o r
<1>1. f \in [Legal(p) -> Seq(Elem)]
  BY OwesType
<1>2. c \in Seq(Legal(p))
  OBVIOUS
<1>3. f[t] = Owes(p, t)
  BY DEF OwesOf
<1> HIDE DEF f
<1>4. Gather(c, f) = Owes(p, t)
  BY <1>1, <1>3, GatherOne
<1> HIDE DEF c
<1>5. u \in Seq(Legal(p))
  BY <1>2, ConcatProperties
<1>6. Gather(u, f) = Gather(c, f) \o Gather(r, f)
  BY <1>1, <1>2, GatherConcat
<1> HIDE DEF u
<1>7. Gather(P \o u, f) = Gather(P, f) \o Gather(u, f)
  BY <1>1, <1>5, GatherConcat
<1>8. Gather(P, f) \in Seq(Elem) /\ Gather(r, f) \in Seq(Elem) /\ Gather(c, f) \in Seq(Elem)
  BY <1>1, <1>2, GatherType
<1>9. QED
  BY <1>4, <1>6, <1>7, <1>8 DEF Pending, f, u, c

--------------------------------------------------------------------------------
\* Call c when n of its ids have been dealt with.
Left(c, n) == [c EXCEPT !.ids = SubSeq(@, n + 1, Len(@))]

\* It is a call of the walk still.
LEMMA LeftLegal ==
  ASSUME NEW p, NEW c \in Legal(p), NEW n \in 0..Len(c.ids)
  PROVE  /\ Left(c, n) \in Legal(p)
         /\ Left(c, n).ids = SubSeq(c.ids, n + 1, Len(c.ids))
         /\ Left(c, n).do = c.do /\ Left(c, n).depth = c.depth
         /\ c.ids \in Seq(Id) /\ c.depth \in Nat /\ Left(c, n).ids \in Seq(Id)
<1> DEFINE ids == c.ids
           r == SubSeq(ids, n + 1, Len(ids))
<1>1. c \in Call /\ ids \in Seq(Id) /\ c.depth \in Nat
  BY DEF Legal, Call
<1>2. /\ r \in Seq(Id) /\ DOMAIN r = 1..Len(ids) - n /\ Len(ids) \in Nat /\ DOMAIN ids = 1..Len(ids)
      /\ \A i \in 1..Len(ids) - n : r[i] = ids[n + i]
  BY <1>1, PartOf, LenProperties
<1>3. \A k \in DOMAIN r : n + k \in DOMAIN ids /\ r[k] = ids[n + k]
  BY <1>2
<1> HIDE DEF r
<1> DEFINE l == [c EXCEPT !.ids = r]
<1>4. l \in Call /\ l.ids = r /\ l.do = c.do /\ l.depth = c.depth
  BY <1>1, <1>2 DEF Call
<1>6. Left(c, n) = l
  BY DEF Left, r
<1> HIDE DEF l
<1>5. l \in Legal(p)
  <2>1. l.do = "blocks" => l.depth <= MaxDepth + 1
    BY <1>4 DEF Legal
  <2>2. l.do \in {"items", "panels"} => l.depth <= MaxDepth
    BY <1>4 DEF Legal
  <2>3. l.do = "items" => \A k \in DOMAIN l.ids : l.ids[k] \in DOMAIN p /\ p[l.ids[k]].kind \in Lists
    BY <1>3, <1>4 DEF Legal
  <2>4. QED
    BY <1>4, <2>1, <2>2, <2>3 DEF Legal
<1>7. /\ Left(c, n).ids = r /\ Left(c, n) \in Legal(p)
      /\ Left(c, n).do = c.do /\ Left(c, n).depth = c.depth
  BY <1>4, <1>5, <1>6
<1>8. QED
  BY <1>1, <1>2, <1>7 DEF r

\* Without its first id a list is its tail.
LEMMA FirstOff ==
  ASSUME NEW S, NEW s \in Seq(S), s # <<>>
  PROVE  SubSeq(s, 2, Len(s)) = Tail(s)
<1> DEFINE t == SubSeq(s, 2, Len(s))
           n == Len(s)
<1>1. n \in Nat \ {0}
  BY EmptySeq, LenProperties
<1>2. \A i \in 2..n : s[i] \in S
  BY <1>1, ElementOfSeq
<1>3. t \in Seq(S) /\ Len(t) = n - 1 /\ \A i \in 1..n - 1 : t[i] = s[i + 1]
  <2> HIDE DEF n
  <2>0. t = SubSeq(s, 2, n) /\ 2 \in Int /\ n \in Int
    BY <1>1 DEF n
  <2> HIDE DEF t
  <2>1. /\ t \in Seq(S) /\ Len(t) = IF 2 <= n THEN n - 2 + 1 ELSE 0
        /\ \A i \in 1..n - 2 + 1 : t[i] = s[2 + i - 1]
    BY <1>2, <2>0, SubSeqProperties
  <2>2. n - 2 + 1 = n - 1 /\ \A i \in 1..n - 1 : 2 + i - 1 = i + 1
    BY <1>1
  <2>3. QED
    BY <1>1, <2>1, <2>2
<1>4. Tail(s) \in Seq(S) /\ Len(Tail(s)) = n - 1 /\ \A i \in 1..n - 1 : Tail(s)[i] = s[i + 1]
  BY HeadTailProperties
<1>5. DOMAIN t = 1..n - 1 /\ DOMAIN Tail(s) = 1..n - 1
  BY <1>3, <1>4, LenProperties
<1> DEFINE u == Tail(s)
<1> HIDE DEF t, n
<1>9. u \in Seq(S) /\ DOMAIN u = 1..n - 1 /\ \A i \in 1..n - 1 : u[i] = s[i + 1]
  BY <1>4, <1>5
<1> HIDE DEF u
<1>6. t = [i \in 1..n - 1 |-> t[i]] /\ u = [i \in 1..n - 1 |-> u[i]]
  BY <1>3, <1>5, <1>9
<1>7. t = u
  BY <1>3, <1>6, <1>9
<1>8. QED
  BY <1>7 DEF t, u

\* A call without its first id.
LEMMA LeftTail ==
  ASSUME NEW p, NEW c \in Legal(p), c.ids # <<>>
  PROVE  /\ Left(c, 1) \in Legal(p) /\ Left(c, 1).ids = Tail(c.ids)
         /\ Left(c, 1).do = c.do /\ Left(c, 1).depth = c.depth
         /\ c.ids \in Seq(Id) /\ c.depth \in Nat /\ 1 \in 1..Len(c.ids) /\ c.ids[1] \in Id
<1> DEFINE ids == c.ids
           k == 1
<1>1. ids \in Seq(Id) /\ c.depth \in Nat /\ ids # <<>>
  BY DEF Legal, Call
<1>2. k \in 0..Len(ids) /\ k \in 1..Len(ids) /\ k + 1 = 2 /\ ids[1] \in Id
  <2>1. Len(ids) \in Nat \ {0}
    BY <1>1, EmptySeq, LenProperties
  <2>2. QED
    BY <1>1, <2>1, ElementOfSeq
<1> HIDE DEF k
<1>3. /\ Left(c, k) \in Legal(p) /\ Left(c, k).ids = SubSeq(ids, k + 1, Len(ids))
      /\ Left(c, k).do = c.do /\ Left(c, k).depth = c.depth
  BY <1>2, LeftLegal
<1>4. SubSeq(ids, 2, Len(ids)) = Tail(ids)
  BY <1>1, FirstOff
<1>5. QED
  BY <1>1, <1>2, <1>3, <1>4 DEF k

\* A call that has no ids left, or is too deep, has nothing to write.
LEMMA OwesNothing ==
  ASSUME NEW p, NEW c \in Legal(p),
         c.ids = <<>> \/ c.do = "close" \/ (c.do = "blocks" /\ c.depth > MaxDepth)
  PROVE  Owes(p, c) = <<>>
<1>1. CASE c.do \notin {"blocks", "items", "panels"}
  BY <1>1 DEF Owes
<1>2. CASE c.do = "blocks" /\ c.depth > MaxDepth
  BY <1>2 DEF Owes, Laid
<1>3. CASE c.ids = <<>> /\ c.do = "blocks"
  <2> DEFINE d == c.depth
             u == Under(p)[d]
  <2>1. Owes(p, c) = Laid(p, <<>>, d, u)
    BY <1>3 DEF Owes
  <2> HIDE DEF d, u
  <2>2. [i \in DOMAIN <<>> |-> Piece(p, <<>>, i, d, u)] = <<>>
    OBVIOUS
  <2>3. Laid(p, <<>>, d, u) = <<>>
    BY <2>2, FlatNone DEF Laid
  <2>4. QED
    BY <2>1, <2>3
<1>4. CASE c.ids = <<>> /\ c.do \in {"items", "panels"}
  BY <1>4, GatherNone DEF Owes
<1>5. QED
  BY <1>1, <1>2, <1>3, <1>4

\* Nothing is shown for an identifier without a block.
LEMMA OwesMissing ==
  ASSUME NEW p \in Pages, NEW c \in Legal(p), c.ids # <<>>, c.ids[1] \notin DOMAIN p,
         c.do = "panels" \/ (c.do = "blocks" /\ c.depth <= MaxDepth)
  PROVE  Owes(p, c) = Owes(p, Left(c, 1))
<1> DEFINE ids == c.ids
           d == c.depth
           l == Left(c, 1)
<1>1. ids \in Seq(Id) /\ d \in Nat /\ 1 \in 0..Len(ids) /\ ids[1] \in Id
  <2>1. ids \in Seq(Id) /\ d \in Nat
    BY DEF Legal, Call
  <2>2. Len(ids) \in Nat \ {0}
    BY <2>1, EmptySeq, LenProperties
  <2>3. QED
    BY <2>1, <2>2, ElementOfSeq
<1>2. l.ids = SubSeq(ids, 2, Len(ids)) /\ l.do = c.do /\ l.depth = d /\ l.ids \in Seq(Id)
  BY <1>1, LeftLegal
<1>0. ids # <<>> /\ ids[1] \notin DOMAIN p
  OBVIOUS
<1>3. CASE c.do = "blocks"
  <2>1. d \in 0..MaxDepth
    BY <1>1, <1>3, RenderAssumption
  <2> DEFINE u == Under(p)[d]
  <2>2. u \in Levels(p)
    BY <2>1, UnderIs
  <2>3. Owes(p, c) = Laid(p, ids, d, u) /\ Owes(p, l) = Laid(p, l.ids, d, u)
    BY <1>2, <1>3 DEF Owes
  <2> HIDE DEF u, d, l, ids
  <2>4. Laid(p, ids, d, u) = Laid(p, SubSeq(ids, 2, Len(ids)), d, u)
    BY <1>0, <1>1, <2>1, <2>2, LaidMissing
  <2>5. QED
    BY <1>2, <2>3, <2>4 DEF l
<1>4. CASE c.do = "panels"
  <2> DEFINE f == PanelsOf(p, d, Under(p)[d + 1])
  <2>1. f \in [Id -> Seq(Elem)]
    BY <1>1, UnderType, TabsGather
  <2>2. f[ids[1]] = <<>>
    BY <1>1 DEF PanelsOf, Panel
  <2>3. Owes(p, c) = Gather(ids, f) /\ Owes(p, l) = Gather(l.ids, f)
    BY <1>2, <1>4 DEF Owes
  <2> HIDE DEF f, ids, d, l
  <2>4. Gather(ids, f) = f[ids[1]] \o Gather(Tail(ids), f)
    BY <1>0, <1>1, <2>1, GatherCons
  <2>5. l.ids = Tail(ids)
    BY <1>1, <1>2, FirstOff
  <2>6. Gather(l.ids, f) \in Seq(Elem)
    BY <1>2, <2>1, GatherType
  <2>7. QED
    BY <2>2, <2>3, <2>4, <2>5, <2>6, ConcatEmptySeq DEF l
<1>5. QED
  BY <1>3, <1>4

\* The first items of blocks are those of a list: the list, what its items show, and
\* what the other blocks show.
LEMMA OwesList ==
  ASSUME NEW p \in Pages, NEW c \in Legal(p), c.do = "blocks", c.depth <= MaxDepth,
         NEW n \in 1..Len(c.ids), p[c.ids[1]].kind \in Lists,
         \A i \in 1..n : c.ids[i] \in DOMAIN p /\ p[c.ids[i]].kind = p[c.ids[1]].kind,
         n < Len(c.ids) => ~(c.ids[n + 1] \in DOMAIN p /\ p[c.ids[n + 1]].kind = p[c.ids[1]].kind)
  PROVE  Owes(p, c) = (<<Element("list", c.ids[1], c.depth)>>
                         \o Owes(p, Items(SubSeq(c.ids, 1, n), c.depth)))
                         \o Owes(p, Left(c, n))
<1> DEFINE ids == c.ids
           d == c.depth
           l == Left(c, n)
           g == SubSeq(ids, 1, n)
           a == Items(g, d)
           u == Under(p)[d]
<1>1. ids \in Seq(Id) /\ d \in 0..MaxDepth /\ n \in 0..Len(ids)
  <2>1. ids \in Seq(Id) /\ d \in Nat
    BY DEF Legal, Call
  <2>2. QED
    BY <2>1, LenProperties, RenderAssumption
<1>2. l.ids = SubSeq(ids, n + 1, Len(ids)) /\ l.do = c.do /\ l.depth = d
  BY <1>1, LeftLegal
<1>3. u \in Levels(p)
  BY <1>1, UnderIs
<1>4. Owes(p, c) = Laid(p, ids, d, u) /\ Owes(p, l) = Laid(p, l.ids, d, u)
  BY <1>2 DEF Owes
<1>5. Owes(p, a) = Gather(g, ItemsOf(p, d, u))
  BY DEF Owes, Items
<1>6. /\ n \in 1..Len(ids) /\ p[ids[1]].kind \in Lists
      /\ \A i \in 1..n : ids[i] \in DOMAIN p /\ p[ids[i]].kind = p[ids[1]].kind
      /\ n < Len(ids) => ~(ids[n + 1] \in DOMAIN p /\ p[ids[n + 1]].kind = p[ids[1]].kind)
  OBVIOUS
<1> HIDE DEF u, a, l, d, ids
<1>7. Laid(p, ids, d, u)
        = (<<Element("list", ids[1], d)>> \o Gather(g, ItemsOf(p, d, u)))
            \o Laid(p, SubSeq(ids, n + 1, Len(ids)), d, u)
  BY <1>1, <1>3, <1>6, LaidList
<1>8. QED
  BY <1>2, <1>4, <1>5, <1>7 DEF a, l, d, ids

\* An item of a list: itself, what is below it, and the other items.
LEMMA OwesItem ==
  ASSUME NEW p \in Pages, NEW c \in Legal(p), c.do = "items", c.ids # <<>>
  PROVE  Owes(p, c) = (<<Element("block", c.ids[1], c.depth)>>
                         \o Owes(p, Blocks(p[c.ids[1]].content, c.depth + 1)))
                         \o Owes(p, Left(c, 1))
<1> DEFINE ids == c.ids
           d == c.depth
           l == Left(c, 1)
           x == ids[1]
           a == Blocks(p[x].content, d + 1)
           f == ItemsOf(p, d, Under(p)[d])
<1>1. ids \in Seq(DOMAIN p \cap Id) /\ d \in 0..MaxDepth /\ ids # <<>>
  <2>1. d \in Nat /\ d <= MaxDepth
    BY DEF Legal, Call
  <2>2. QED
    BY <2>1, ItemIds, RenderAssumption
<1>2. Len(ids) \in Nat \ {0} /\ 1 \in DOMAIN ids /\ x \in DOMAIN p \cap Id /\ 1 \in 0..Len(ids)
  BY <1>1, EmptySeq, LenProperties, ElementOfSeq
<1>3. p[x].kind \in Lists
  BY <1>2 DEF Legal
<1>4. l.ids = Tail(ids) /\ l.do = c.do /\ l.depth = d
  BY LeftTail
<1>5. f \in [DOMAIN p \cap Id -> Seq(Elem)]
  <2>1. d \in Nat /\ Under(p)[d] \in Levels(p)
    BY <1>1, UnderIs
  <2>2. QED
    BY <2>1, ItemsOfType
<1>6. f[x] = <<Element("block", x, d)>> \o Owes(p, a)
  <2>1. f[x] = <<Element("block", x, d)>> \o Under(p)[d][x]
    BY <1>2 DEF ItemsOf
  <2>2. Under(p)[d] = Beneath(p, d, Under(p)[d + 1])
    BY <1>1, UnderIs
  <2> DEFINE u == Under(p)[d + 1]
  <2>3. p[x].kind \notin {"leaf", "reference", "tabs"}
    BY <1>3 DEF Lists
  <2> HIDE DEF u
  <2>4. Beneath(p, d, u)[x] = Laid(p, p[x].content, d + 1, u)
    BY <1>2, <2>3, BeneathOf
  <2>5. Owes(p, a) = Laid(p, p[x].content, d + 1, u)
    BY DEF Owes, Blocks, u
  <2>6. QED
    BY <2>1, <2>2, <2>4, <2>5 DEF u
<1>7. Owes(p, c) = Gather(ids, f) /\ Owes(p, l) = Gather(l.ids, f)
  BY <1>4 DEF Owes
<1> HIDE DEF f, a, l
<1>8. Gather(ids, f) = f[x] \o Gather(Tail(ids), f)
  <2> HIDE DEF ids
  <2>1. QED
    BY <1>1, <1>5, GatherCons
<1>9. QED
  BY <1>4, <1>6, <1>7, <1>8 DEF a, l

\* A tab: its panel, what is below it in the panel, and the other tabs.
LEMMA OwesPanel ==
  ASSUME NEW p \in Pages, NEW c \in Legal(p), c.do = "panels", c.ids # <<>>, c.ids[1] \in DOMAIN p
  PROVE  Owes(p, c) = (<<Element("panel", c.ids[1], c.depth)>>
                         \o Owes(p, Blocks(p[c.ids[1]].content, c.depth + 1)))
                         \o Owes(p, Left(c, 1))
<1> DEFINE ids == c.ids
           d == c.depth
           l == Left(c, 1)
           x == ids[1]
           a == Blocks(p[x].content, d + 1)
           f == PanelsOf(p, d, Under(p)[d + 1])
<1>1. ids \in Seq(Id) /\ d \in Nat /\ ids # <<>>
  BY DEF Legal, Call
<1>2. Len(ids) \in Nat \ {0} /\ x \in Id /\ 1 \in 0..Len(ids)
  BY <1>1, EmptySeq, LenProperties, ElementOfSeq
<1>4. l.ids = Tail(ids) /\ l.do = c.do /\ l.depth = d
  BY LeftTail
<1>5. f \in [Id -> Seq(Elem)]
  BY <1>1, UnderType, TabsGather
<1>6. f[x] = <<Element("panel", x, d)>> \o Owes(p, a)
  BY <1>2 DEF PanelsOf, Panel, Owes, Blocks
<1>7. Owes(p, c) = Gather(ids, f) /\ Owes(p, l) = Gather(l.ids, f)
  BY <1>4 DEF Owes
<1> HIDE DEF f, a, l
<1>8. Gather(ids, f) = f[x] \o Gather(Tail(ids), f)
  <2> HIDE DEF ids
  <2>1. QED
    BY <1>1, <1>5, GatherCons
<1>9. QED
  BY <1>4, <1>6, <1>7, <1>8 DEF a, l

\* A block that is not an item of a list: itself, what is below it, and the others.
LEMMA OwesBlock ==
  ASSUME NEW p \in Pages, NEW c \in Legal(p), c.do = "blocks", c.depth <= MaxDepth,
         c.ids # <<>>, c.ids[1] \in DOMAIN p, p[c.ids[1]].kind \notin Lists
  PROVE  /\ Owes(p, c) = (<<Element("block", c.ids[1], c.depth)>>
                            \o Under(p)[c.depth][c.ids[1]])
                            \o Owes(p, Left(c, 1))
         /\ Under(p)[c.depth][c.ids[1]] \in Seq(Elem)
<1> DEFINE ids == c.ids
           d == c.depth
           l == Left(c, 1)
           u == Under(p)[d]
<1>1. /\ ids \in Seq(Id) /\ l.ids = Tail(ids) /\ SubSeq(ids, 2, Len(ids)) = Tail(ids)
      /\ l.do = c.do /\ l.depth = d /\ ids # <<>> /\ ids[1] \in DOMAIN p
      /\ p[ids[1]].kind \notin Lists
  BY LeftTail, FirstOff
<1>2. d \in 0..MaxDepth
  <2>1. d \in Nat /\ d <= MaxDepth
    BY LeftTail
  <2>2. QED
    BY <2>1, RenderAssumption
<1>3. u \in Levels(p)
  BY <1>2, UnderIs
<1>4. Owes(p, c) = Laid(p, ids, d, u) /\ Owes(p, l) = Laid(p, l.ids, d, u)
  BY <1>1 DEF Owes
<1> HIDE DEF u, l, ids, d
<1>5. Laid(p, ids, d, u)
        = (<<Element("block", ids[1], d)>> \o u[ids[1]]) \o Laid(p, SubSeq(ids, 2, Len(ids)), d, u)
  BY <1>1, <1>2, <1>3, LaidBlock
<1>6. u[ids[1]] \in Seq(Elem)
  BY <1>1, <1>3 DEF Levels
<1>7. QED
  BY <1>1, <1>4, <1>5, <1>6 DEF u, l, ids, d

\* Nothing is pending on an empty stack, and of a single call what it owes.
LEMMA PendingFew ==
  ASSUME NEW p \in Pages
  PROVE  /\ Pending(p, <<>>) = <<>>
         /\ \A b \in Legal(p) : Pending(p, <<b>>) = Owes(p, b)
<1>1. Pending(p, <<>>) = <<>>
  BY GatherNone DEF Pending
<1>2. ASSUME NEW b \in Legal(p)
      PROVE  Pending(p, <<b>>) = Owes(p, b)
  <2>1. OwesOf(p) \in [Legal(p) -> Seq(Elem)] /\ OwesOf(p)[b] = Owes(p, b)
    BY OwesType DEF OwesOf
  <2>2. QED
    BY <2>1, GatherOne DEF Pending
<1>3. QED
  BY <1>1, <1>2

\* An end tag adds nothing to what is pending.
LEMMA PendingClosed ==
  ASSUME NEW p \in Pages, NEW P \in Seq(Legal(p)), NEW e \in Elem
  PROVE  /\ P \o <<Close(e)>> \in Seq(Legal(p))
         /\ Pending(p, P \o <<Close(e)>>) = Pending(p, P)
<1> DEFINE b == Close(e)
           C == <<b>>
<1>1. b \in Legal(p) /\ b.do = "close"
  <2>1. b \in Call /\ b.do = "close"
    BY Making DEF Close
  <2>2. QED
    BY <2>1 DEF Legal
<1>2. Owes(p, b) = <<>>
  BY <1>1, OwesNothing
<1> HIDE DEF b
<1>3. C \in Seq(Legal(p)) /\ Pending(p, C) = <<>>
  BY <1>1, <1>2, PendingFew
<1> HIDE DEF C
<1>4. P \o C \in Seq(Legal(p))
  BY <1>3, ConcatProperties
<1> DEFINE f == OwesOf(p)
<1>5. f \in [Legal(p) -> Seq(Elem)]
  BY OwesType
<1> HIDE DEF f
<1>9. Gather(P \o C, f) = Gather(P, f) \o Gather(C, f) /\ Gather(P, f) \in Seq(Elem)
  BY <1>3, <1>5, GatherConcat, GatherType
<1>6. Pending(p, P \o C) = Pending(p, P) \o Pending(p, C)
  BY <1>9 DEF Pending, f
<1>7. Pending(p, P) \in Seq(Elem)
  BY <1>9 DEF Pending, f
<1>8. QED
  BY <1>3, <1>4, <1>6, <1>7, ConcatEmptySeq DEF C, b

\* A call and an end tag.
LEMMA PendingPair ==
  ASSUME NEW p \in Pages, NEW a \in Legal(p), NEW e \in Elem
  PROVE  /\ <<a, Close(e)>> \in Seq(Legal(p))
         /\ Pending(p, <<a, Close(e)>>) = Owes(p, a)
<1> DEFINE b == Close(e)
           A == <<a>>
           C == <<b>>
<1>1. <<a, b>> = A \o C
  OBVIOUS
<1>2. A \in Seq(Legal(p)) /\ Pending(p, A) = Owes(p, a)
  BY PendingFew
<1> HIDE DEF A
<1>3. A \o C \in Seq(Legal(p)) /\ Pending(p, A \o C) = Pending(p, A)
  BY <1>2, PendingClosed
<1> HIDE DEF C
<1>4. QED
  BY <1>1, <1>2, <1>3

\* What is pending on the call that renderBlock makes is what is shown below the block.
LEMMA PendingBelow ==
  ASSUME page \in Pages, NEW id \in DOMAIN page, NEW d \in 0..MaxDepth
  PROVE  /\ Below(id, d) \in Seq(Legal(page))
         /\ Pending(page, Below(id, d)) = Under(page)[d][id]
<1> DEFINE B == Below(id, d)
           v == Under(page)[d + 1]
           s == Under(page)[d][id]
<1>1. d \in Nat /\ d + 1 \in Nat /\ d + 1 <= MaxDepth + 1 /\ d <= MaxDepth
  BY RenderAssumption
<1>2. \A c \in Seq(Id) : Blocks(c, d + 1) \in Legal(page) /\ Panels(c, d) \in Legal(page)
  <2> SUFFICES ASSUME NEW c \in Seq(Id)
               PROVE  Blocks(c, d + 1) \in Legal(page) /\ Panels(c, d) \in Legal(page)
    OBVIOUS
  <2>1. Blocks(c, d + 1) \in Call /\ Panels(c, d) \in Call
    BY <1>1, Making
  <2>2. Blocks(c, d + 1).do = "blocks" /\ Blocks(c, d + 1).depth = d + 1
    BY DEF Blocks
  <2>3. Panels(c, d).do = "panels" /\ Panels(c, d).depth = d
    BY DEF Panels
  <2>4. QED
    BY <1>1, <2>1, <2>2, <2>3 DEF Legal
<1>3. Under(page)[d] = Beneath(page, d, v)
  BY UnderIs
<1>4. page[id].content \in Seq(Id)
  BY RenderAssumption
<1>5. ASSUME NEW b \in Legal(page)
      PROVE  <<b>> \in Seq(Legal(page)) /\ Pending(page, <<b>>) = Owes(page, b)
  <2>1. <<b>> \in Seq(Legal(page))
    OBVIOUS
  <2>2. QED
    BY <2>1, PendingFew
<1>6. <<>> \in Seq(Legal(page)) /\ Pending(page, <<>>) = <<>>
  BY PendingFew
<1>7. \A c : Owes(page, Blocks(c, d + 1)) = Laid(page, c, d + 1, v)
  BY DEF Owes, Blocks
<1> HIDE DEF B, v, s
<1>8. CASE Kind(id) = "leaf"
  <2>1. B = <<>>
    BY <1>8, Zenon DEF Below, B
  <2>2. s = <<>>
    BY <1>3, <1>8, BeneathOf DEF s, Kind
  <2>3. QED
    BY <1>6, <2>1, <2>2 DEF B, s
<1>9. CASE Kind(id) = "reference"
  <2>1. Kind(id) # "leaf" /\ Kind(id) # "tabs"
    BY <1>9
  <2>2. B = IF Exists(page[id].target) THEN <<Blocks(page[page[id].target].content, d + 1)>>
                                       ELSE <<>>
    BY <1>9, <2>1, Zenon DEF Below, B
  <2>3. s = ReferenceShows(page, id, d, v)
    BY <1>3, <1>9, BeneathOf DEF s, Kind
  <2>4. CASE Exists(page[id].target)
    <3> DEFINE c == page[page[id].target].content
               b == Blocks(c, d + 1)
    <3>1. c \in Seq(Id)
      BY <2>4, RenderAssumption DEF Exists
    <3>2. b \in Legal(page) /\ B = <<b>> /\ Owes(page, b) = Laid(page, c, d + 1, v)
      BY <1>2, <1>7, <2>2, <2>4, <3>1
    <3>3. s = Laid(page, c, d + 1, v)
      BY <2>3, <2>4 DEF ReferenceShows, Exists
    <3> HIDE DEF b
    <3>4. QED
      BY <1>5, <3>2, <3>3 DEF B, s
  <2>5. CASE ~Exists(page[id].target)
    <3>1. B = <<>> /\ s = <<>>
      BY <2>2, <2>3, <2>5 DEF ReferenceShows, Exists
    <3>2. QED
      BY <1>6, <3>1 DEF B, s
  <2>6. QED
    BY <2>4, <2>5
<1>10. CASE Kind(id) = "tabs"
  <2> DEFINE c == page[id].content
             b == Panels(c, d)
  <2>1. Kind(id) # "leaf" /\ Kind(id) # "reference"
    BY <1>10
  <2>2. B = <<b>>
    BY <1>10, <2>1, Zenon DEF Below, B
  <2>3. s = TabsShow(page, c, d, v)
    BY <1>3, <1>10, BeneathOf DEF s, Kind
  <2>4. TabsShow(page, c, d, v) = Gather(c, PanelsOf(page, d, v))
    BY <1>1, <1>4, UnderType, TabsGather DEF v
  <2>5. Owes(page, b) = Gather(c, PanelsOf(page, d, v))
    BY DEF Owes, Panels, v
  <2>6. b \in Legal(page)
    BY <1>2, <1>4
  <2> HIDE DEF b
  <2>7. QED
    BY <1>5, <2>2, <2>3, <2>4, <2>5, <2>6 DEF B, s
<1>11. CASE Kind(id) \notin {"leaf", "reference", "tabs"}
  <2> DEFINE c == page[id].content
             b == Blocks(c, d + 1)
  <2>1. Kind(id) # "leaf" /\ Kind(id) # "reference" /\ Kind(id) # "tabs"
    BY <1>11
  <2>2. B = <<b>>
    BY <2>1, Zenon DEF Below, B
  <2>3. s = Laid(page, c, d + 1, v)
    BY <1>3, <1>11, BeneathOf DEF s, Kind
  <2>4. b \in Legal(page) /\ Owes(page, b) = Laid(page, c, d + 1, v)
    BY <1>2, <1>4, <1>7
  <2> HIDE DEF b
  <2>5. QED
    BY <1>5, <2>2, <2>3, <2>4 DEF B, s
<1>12. QED
  BY <1>8, <1>9, <1>10, <1>11

--------------------------------------------------------------------------------
\* The blocks among elements.
BlocksOf(s) == Select(s, IsBlock)

\* The blocks of what is joined.
LEMMA BlocksJoin ==
  ASSUME NEW s \in Seq(Elem), NEW t \in Seq(Elem)
  PROVE  BlocksOf(s \o t) = BlocksOf(s) \o BlocksOf(t)
         /\ BlocksOf(s) \in Seq(Elem) /\ BlocksOf(t) \in Seq(Elem)
<1> DEFINE u == s \o t
           n == Len(s)
           m == Len(t)
           at == {i \in DOMAIN u : IsBlock(u[i])}
           a == {i \in DOMAIN s : IsBlock(s[i])}
           b == {i \in DOMAIN t : IsBlock(t[i])}
           bt == {i \in DOMAIN t : n + i \in at}
<1>1. n \in Nat /\ m \in Nat /\ DOMAIN s = 1..n /\ DOMAIN t = 1..m
  BY LenProperties
<1>2. /\ u \in Seq(Elem) /\ Len(u) = n + m
      /\ \A i \in 1..n + m : u[i] = IF i <= n THEN s[i] ELSE t[i - n]
  BY ConcatProperties
<1> HIDE DEF n, m, u
<1>3. DOMAIN u = 1..n + m
  BY <1>2, LenProperties
<1>4. at \cap DOMAIN s = a \cap DOMAIN s
  <2>1. \A i \in 1..n : i \in 1..n + m /\ u[i] = s[i]
    BY <1>1, <1>2
  <2>2. QED
    BY <1>1, <1>3, <2>1
<1>5. bt \cap DOMAIN t = b \cap DOMAIN t
  <2>1. ASSUME NEW i \in 1..m
        PROVE  n + i \in 1..n + m /\ u[n + i] = t[i]
    <3> DEFINE k == n + i
    <3>1. k \in 1..n + m /\ ~(k <= n) /\ k - n = i
      BY <1>1
    <3> HIDE DEF k
    <3>2. u[k] = t[k - n]
      BY <1>2, <3>1
    <3>3. QED
      BY <3>1, <3>2 DEF k
  <2>2. QED
    BY <1>1, <1>3, <2>1
<1>6. BlocksOf(u) = Pick(u, at) /\ BlocksOf(s) = Pick(s, a) /\ BlocksOf(t) = Pick(t, b)
  BY DEF BlocksOf, Select
<1> HIDE DEF at, a, b
<1>7. Pick(s \o t, at) = Pick(s, at) \o Pick(t, bt)
  <2>1. \A i \in DOMAIN t : i \in bt <=> Len(s) + i \in at
    BY DEF n
  <2> HIDE DEF bt
  <2>2. QED
    BY <2>1, PickConcat
<1> HIDE DEF bt
<1>8. Pick(s, at) = Pick(s, a) /\ Pick(t, bt) = Pick(t, b)
  BY <1>4, <1>5, PickInside
<1>9. Pick(s, a) \in Seq(Elem) /\ Pick(t, b) \in Seq(Elem)
  BY PickClimbs
<1>10. QED
  BY <1>6, <1>7, <1>8, <1>9 DEF u

\* What is written without a block adds no blocks.
LEMMA BlocksSame ==
  ASSUME NEW s \in Seq(Elem), NEW e \in Elem, ~IsBlock(e)
  PROVE  BlocksOf(s \o <<e>>) = BlocksOf(s)
<1> DEFINE t == <<e>>
           b == {i \in DOMAIN t : IsBlock(t[i])}
<1>1. t \in Seq(Elem) /\ b \cap DOMAIN t = {}
  OBVIOUS
<1>2. BlocksOf(t) = Pick(t, b)
  BY DEF BlocksOf, Select
<1> HIDE DEF t, b
<1>3. BlocksOf(t) = <<>>
  BY <1>1, <1>2, PickNone
<1>4. BlocksOf(s \o t) = BlocksOf(s) \o BlocksOf(t) /\ BlocksOf(s) \in Seq(Elem)
  BY <1>1, BlocksJoin
<1>5. QED
  BY <1>3, <1>4, ConcatEmptySeq DEF t

\* What is written and what is pending after the top of the stack has written x, has
\* made the calls P and has dealt with n of its ids.
LEMMA Keeps ==
  ASSUME NEW p \in Pages, NEW o \in Seq(Elem), NEW w \in Seq(Legal(p)), w # <<>>,
         NEW x \in Seq(Elem), NEW P \in Seq(Legal(p)), NEW t \in Legal(p),
         Owes(p, w[1]) = (x \o Pending(p, P)) \o Owes(p, t)
  PROVE  (o \o x) \o Pending(p, P \o (<<t>> \o Tail(w))) = o \o Pending(p, w)
<1> DEFINE r == Tail(w)
           a == Pending(p, P)
           b == Owes(p, t)
           c == Pending(p, r)
<1>1. r \in Seq(Legal(p)) /\ Pending(p, w) = Owes(p, w[1]) \o c
  BY PendingTop
<1> HIDE DEF r, a, b, c
<1>2. /\ Pending(p, P \o (<<t>> \o r)) = a \o (b \o c)
      /\ a \in Seq(Elem) /\ b \in Seq(Elem) /\ c \in Seq(Elem)
  BY <1>1, PendingAfter DEF a, b, c
<1>3. Owes(p, w[1]) = (x \o a) \o b
  BY DEF a, b
<1>4. \A i, j \in Seq(Elem) : i \o j \in Seq(Elem)
  BY ElemJoins, Zenon
<1>5. \A i, j, k \in Seq(Elem) : (i \o j) \o k = i \o (j \o k)
  BY ElemJoins, Zenon
<1>6. (o \o x) \o (a \o (b \o c)) = o \o (((x \o a) \o b) \o c)
  <2>1. b \o c \in Seq(Elem) /\ x \o a \in Seq(Elem) /\ a \o (b \o c) \in Seq(Elem)
    BY <1>2, <1>4
  <2>2. (o \o x) \o (a \o (b \o c)) = o \o (x \o (a \o (b \o c)))
    BY <1>5, <2>1, Zenon
  <2>3. ((x \o a) \o b) \o c = (x \o a) \o (b \o c)
    <3> DEFINE y == x \o a
    <3>1. y \in Seq(Elem)
      BY <2>1
    <3> HIDE DEF y
    <3>2. (y \o b) \o c = y \o (b \o c)
      BY <1>2, <1>5, <3>1
    <3>3. QED
      BY <3>2 DEF y
  <2>4. (x \o a) \o (b \o c) = x \o (a \o (b \o c))
    BY <1>2, <1>5, <2>1, Zenon
  <2>5. QED
    BY <2>2, <2>3, <2>4
<1>7. QED
  BY <1>1, <1>2, <1>3, <1>6 DEF r

--------------------------------------------------------------------------------
\* What is written and what is pending is the document, until a block is refused: then
\* the budget is spent, and no more blocks are written.
TextInv ==
  /\ result = "html" => out # <<>>
  /\ out # <<>> =>
       /\ ~refused => out \o Pending(page, work) = Document(page)
       /\ refused => budget = 0 /\ IsPrefix(BlocksOf(out), BlocksOf(Document(page)))

\* The document is a list of elements.
LEMMA DocumentType ==
  ASSUME NEW p \in Pages, Root \in DOMAIN p
  PROVE  /\ Laid(p, p[Root].content, 0, Under(p)[0]) \in Seq(Elem)
         /\ Document(p) \in Seq(Elem) /\ Body \in Elem
<1>1. p[Root].content \in Seq(Id)
  BY RenderAssumption
<1>2. 0 <= MaxDepth => Under(p)[0] \in Levels(p)
  BY UnderType
<1>3. Laid(p, p[Root].content, 0, Under(p)[0]) \in Seq(Elem)
  BY <1>1, <1>2, LaidType
<1>4. Body \in Elem
  BY RenderAssumption, Making DEF Body
<1>5. <<Body>> \in Seq(Elem)
  BY <1>4
<1>6. QED
  BY <1>3, <1>4, <1>5, ConcatProperties DEF Document

\* A step that refuses a block leaves the beginning of the document.
LEMMA TextRefuses ==
  ASSUME RenderInv, TextInv, result = "rendering", budget = 0, refused' = TRUE,
         UNCHANGED <<page, result, budget, out>>
  PROVE  TextInv'
<1>1. out # <<>> /\ out \in Seq(Elem) /\ page \in Pages /\ refused \in BOOLEAN
  BY DEF RenderInv, TypeOK
<1>2. IsPrefix(BlocksOf(out), BlocksOf(Document(page)))
  <2>1. CASE refused
    BY <1>1, <2>1 DEF TextInv
  <2>2. CASE ~refused
    <3> DEFINE q == Pending(page, work)
    <3>1. out \o q = Document(page)
      BY <1>1, <2>2 DEF TextInv
    <3>2. q \in Seq(Elem)
      <4>1. work \in Seq(Legal(page))
        BY StackLegal DEF RenderInv
      <4>2. OwesOf(page) \in [Legal(page) -> Seq(Elem)]
        BY <1>1, OwesType
      <4>3. QED
        BY <4>1, <4>2, GatherType DEF Pending
    <3> HIDE DEF q
    <3>3. /\ BlocksOf(out \o q) = BlocksOf(out) \o BlocksOf(q)
          /\ BlocksOf(out) \in Seq(Elem) /\ BlocksOf(q) \in Seq(Elem)
      BY <1>1, <3>2, BlocksJoin
    <3>4. QED
      BY <3>1, <3>3, BeginningOf
  <2>3. QED
    BY <1>1, <2>1, <2>2
<1>3. QED
  BY <1>2 DEF TextInv

\* A step that makes calls and writes what the top of the stack owes before them.
LEMMA TextCalls ==
  ASSUME RenderInv, TextInv, result = "rendering", work # <<>>,
         NEW n \in 0..Len(Top.ids), NEW P \in Seq(Legal(page)), NEW x \in Seq(Elem),
         Owes(page, Top) = (x \o Pending(page, P)) \o Owes(page, Left(Top, n)),
         out' = out \o x, work' = P \o Rest(n),
         refused => budget' = budget /\ BlocksOf(out') = BlocksOf(out),
         UNCHANGED <<page, result, refused>>
  PROVE  TextInv'
<1>1. /\ out # <<>> /\ out \in Seq(Elem) /\ page \in Pages
      /\ Top = work[1] /\ work \in Seq(Legal(page))
  BY Walking, StackLegal
<1>2. Top \in Legal(page)
  BY <1>1, PendingTop
<1>3. Left(Top, n) \in Legal(page)
  BY <1>2, LeftLegal
<1>4. Rest(n) = <<Left(Top, n)>> \o Tail(work)
  BY DEF Rest, Left
<1> DEFINE t == Left(Top, n)
<1> HIDE DEF t
<1>5. (out \o x) \o Pending(page, P \o (<<t>> \o Tail(work))) = out \o Pending(page, work)
  BY <1>1, <1>3, Keeps DEF t
<1>6. out' \o Pending(page, work') = out \o Pending(page, work)
  BY <1>4, <1>5 DEF t
<1>7. QED
  BY <1>1, <1>6 DEF TextInv

\* A step that takes a call that owes nothing off the stack.
LEMMA TextPops ==
  ASSUME RenderInv, TextInv, result = "rendering", work # <<>>,
         Owes(page, Top) = <<>>, work' = Tail(work),
         UNCHANGED <<page, result, budget, out, refused>>
  PROVE  TextInv'
<1>1. /\ out # <<>> /\ page \in Pages
      /\ Top = work[1] /\ work \in Seq(Legal(page))
  BY Walking, StackLegal
<1>2. Pending(page, work) = Pending(page, Tail(work))
  <2>1. /\ Pending(page, work) = Owes(page, work[1]) \o Pending(page, Tail(work))
        /\ Pending(page, Tail(work)) \in Seq(Elem)
    BY <1>1, PendingTop
  <2>2. QED
    BY <1>1, <2>1, ConcatEmptySeq
<1>3. QED
  BY <1>1, <1>2 DEF TextInv

\* No step of RenderPage leaves it.
LEMMA TextStep == RenderInv /\ TextInv /\ [Next]_vars => TextInv'
<1> SUFFICES ASSUME RenderInv, TextInv, [Next]_vars
             PROVE  TextInv'
  OBVIOUS
<1> USE DEF Doing
<1>0. ASSUME result = "rendering", work # <<>>
      PROVE  /\ work \in Seq(Legal(page)) /\ Top = work[1] /\ Top \in Legal(page)
             /\ page \in Pages /\ out \in Seq(Elem) /\ out # <<>> /\ Top.depth \in Nat
             /\ refused \in BOOLEAN
  <2>1. /\ work \in Seq(Legal(page)) /\ Top = work[1] /\ page \in Pages
        /\ out \in Seq(Elem) /\ out # <<>> /\ Top.depth \in Nat /\ refused \in BOOLEAN
    BY <1>0, Walking, StackLegal
  <2>2. QED
    BY <1>0, <2>1, PendingTop
<1>1. CASE Reject
  <2>1. result' = "error" /\ out' = <<>>
    BY <1>1 DEF Reject, RenderInv
  <2>2. QED
    BY <2>1 DEF TextInv
<1>2. CASE Start
  <2> DEFINE c == page[Root].content
             a == Blocks(c, 0)
             w == <<a, Close(Body)>>
             q == Laid(page, c, 0, Under(page)[0])
  <2>1. /\ Root \in DOMAIN page /\ page \in Pages /\ ~refused /\ page' = page /\ refused' = refused
        /\ out' = <<Body>> /\ work' = w /\ result' = "rendering"
    BY <1>2 DEF Start, Accepted, Exists, RenderInv
  <2>2. c \in Seq(Id) /\ Body \in Elem /\ q \in Seq(Elem)
    BY <2>1, RenderAssumption, DocumentType
  <2>3. a \in Legal(page) /\ Owes(page, a) = q
    <3>1. a \in Call /\ a.do = "blocks" /\ a.depth = 0 /\ a.ids = c
      BY <2>2, Making DEF Blocks
    <3> HIDE DEF a
    <3>2. QED
      BY <3>1, RenderAssumption DEF Legal, Owes
  <2> HIDE DEF a
  <2>4. Pending(page, w) = q
    BY <2>1, <2>2, <2>3, PendingPair
  <2> HIDE DEF w
  <2>5. out' \o Pending(page', work') = Document(page')
    BY <2>1, <2>4 DEF Document
  <2>6. QED
    BY <2>1, <2>5 DEF TextInv
<1>3. CASE Return
  <2>1. /\ result = "rendering" /\ work # <<>> /\ work' = Tail(work)
        /\ UNCHANGED <<page, result, budget, out, refused>>
        /\ Top.ids = <<>> \/ (Top.do = "blocks" /\ Top.depth > MaxDepth)
    BY <1>3 DEF Return
  <2>2. Owes(page, Top) = <<>>
    BY <1>0, <2>1, OwesNothing
  <2>3. QED
    BY <2>1, <2>2, TextPops
<1>4. CASE SkipMissing
  <2> DEFINE x == <<>>
             l == Left(Top, 1)
  <2>1. /\ result = "rendering" /\ work # <<>> /\ Top.ids # <<>> /\ work' = Rest(1)
        /\ Top.do = "panels" \/ (Top.do = "blocks" /\ Top.depth <= MaxDepth)
        /\ Head(Top.ids) \notin DOMAIN page
        /\ UNCHANGED <<page, result, budget, out, refused>>
    BY <1>4 DEF SkipMissing, NextId, Exists
  <2>2. Top.ids[1] \notin DOMAIN page /\ 1 \in 0..Len(Top.ids)
    BY <2>1, Walking
  <2>3. Owes(page, Top) = Owes(page, l)
    BY <1>0, <2>1, <2>2, OwesMissing
  <2>4. l \in Legal(page)
    BY <1>0, <2>1, LeftTail
  <2>5. Owes(page, l) \in Seq(Elem)
    BY <1>0, <2>1, <2>4, PendingAfter, PendingTop
  <2>6. x \in Seq(Elem) /\ x \in Seq(Legal(page)) /\ Pending(page, x) = x
    BY <1>0, <2>1, PendingFew
  <2>7. work' = x \o Rest(1)
    <3>1. Rest(1) \in Seq(Call)
      BY <2>1, <2>2, RestOwes
    <3>2. QED
      BY <2>1, <3>1, ConcatEmptySeq
  <2>8. out' = out \o x
    BY <1>0, <2>1, ConcatEmptySeq
  <2>9. x \o x = x
    BY <2>6, ConcatEmptySeq
  <2> HIDE DEF x, l
  <2>10. Owes(page, Top) = (x \o Pending(page, x)) \o Owes(page, l)
    <3>1. x \o Owes(page, l) = Owes(page, l)
      BY <2>5, ConcatEmptySeq DEF x
    <3>2. QED
      BY <2>3, <2>6, <2>9, <3>1
  <2>11. QED
    BY <2>1, <2>2, <2>6, <2>7, <2>8, <2>10, TextCalls DEF l
<1>5. CASE OpenList
  <2> DEFINE e == Element("list", Head(Top.ids), Top.depth)
  <2>1. /\ result = "rendering" /\ work # <<>> /\ Top.do = "blocks" /\ Top.ids # <<>>
        /\ Top.depth <= MaxDepth /\ Kind(Head(Top.ids)) \in Lists
        /\ out' = Append(out, e)
        /\ UNCHANGED <<page, result, budget, refused>>
    BY <1>5 DEF OpenList, NextId, Begin, Write
  <2>2. PICK n \in 1..Len(Top.ids) :
          /\ IsGroup(Top.ids, n)
          /\ work' = <<Items(SubSeq(Top.ids, 1, n), Top.depth), Close(e)>> \o Rest(n)
    BY <1>5 DEF OpenList
  <2>3. e \in Elem /\ e.is = "list" /\ Head(Top.ids) = Top.ids[1] /\ n \in 0..Len(Top.ids)
    BY <2>1, Walking, Making
  <2>4. /\ page[Top.ids[1]].kind \in Lists
        /\ \A i \in 1..n : Top.ids[i] \in DOMAIN page /\ page[Top.ids[i]].kind = page[Top.ids[1]].kind
        /\ n < Len(Top.ids) =>
             ~(Top.ids[n + 1] \in DOMAIN page /\ page[Top.ids[n + 1]].kind = page[Top.ids[1]].kind)
    BY <2>1, <2>2, <2>3 DEF IsGroup, Exists, Kind
  <2> DEFINE ids == SubSeq(Top.ids, 1, n)
             a == Items(ids, Top.depth)
             P == <<a, Close(e)>>
             x == <<e>>
  <2>5. Owes(page, Top) = (x \o Owes(page, a)) \o Owes(page, Left(Top, n))
    BY <1>0, <2>1, <2>3, <2>4, OwesList
  <2>6. ids \in Seq(Id) /\ DOMAIN ids = 1..n /\ \A k \in 1..n : ids[k] = Top.ids[k]
    <3>1. Top.ids \in Seq(Id) /\ DOMAIN Top.ids = 1..Len(Top.ids) /\ Len(Top.ids) \in Nat
      BY <2>1, Walking
    <3>2. \A k \in 1..n : Top.ids[k] \in Id
      BY <3>1, ElementOfSeq
    <3>3. /\ ids \in Seq(Id) /\ Len(ids) = n
          /\ \A k \in 1..n : ids[k] = Top.ids[1 + k - 1]
      BY <3>1, <3>2, SubSeqProperties
    <3>4. DOMAIN ids = 1..n
      BY <3>3, LenProperties
    <3>5. QED
      BY <3>1, <3>3, <3>4
  <2>7. a \in Legal(page)
    <3>1. a \in Call /\ a.do = "items" /\ a.depth = Top.depth /\ a.ids = ids
      BY <1>0, <2>1, <2>6, Making DEF Items
    <3>2. \A k \in DOMAIN ids : ids[k] \in DOMAIN page /\ page[ids[k]].kind \in Lists
      BY <2>4, <2>6
    <3> HIDE DEF a, ids
    <3>3. QED
      BY <2>1, <3>1, <3>2 DEF Legal
  <2> HIDE DEF a, e
  <2>8. P \in Seq(Legal(page)) /\ Pending(page, P) = Owes(page, a)
    BY <1>0, <2>1, <2>3, <2>7, PendingPair
  <2>9. x \in Seq(Elem)
    BY <2>3
  <2>10. out' = out \o x
    BY <1>0, <2>1, <2>3, AppendIsConcat DEF e
  <2>11. BlocksOf(out') = BlocksOf(out)
    BY <1>0, <2>1, <2>3, <2>10, BlocksSame DEF IsBlock
  <2>12. work' = P \o Rest(n)
    BY <2>2 DEF a, e
  <2> HIDE DEF P, x
  <2>13. QED
    BY <2>1, <2>3, <2>5, <2>8, <2>9, <2>10, <2>11, <2>12, TextCalls
<1>6. CASE RenderItem
  <2> DEFINE id == Head(Top.ids)
             e  == Element("block", id, Top.depth)
             a  == Blocks(page[id].content, Top.depth + 1)
             P  == <<a, Close(e)>>
             x  == <<e>>
  <2>1. /\ result = "rendering" /\ work # <<>> /\ Top.do = "items" /\ Top.ids # <<>>
        /\ budget # 0 /\ out' = Append(out, e) /\ work' = P \o Rest(1)
        /\ UNCHANGED <<page, result, refused>>
    BY <1>6, Walking DEF RenderItem, Begin, Write, Spend
  <2>2. ~refused
    BY <1>0, <2>1 DEF TextInv
  <2>3. id = Top.ids[1] /\ id \in DOMAIN page /\ id \in Id /\ 1 \in 0..Len(Top.ids)
        /\ Top.depth \in Nat /\ Top.depth + 1 \in Nat /\ Top.depth <= MaxDepth
    BY <2>1, Walking
  <2>4. Owes(page, Top) = (x \o Owes(page, a)) \o Owes(page, Left(Top, 1))
    BY <1>0, <2>1, <2>3, OwesItem
  <2>5. e \in Elem /\ a \in Legal(page)
    <3>1. page[id].content \in Seq(Id) /\ e \in Elem
      BY <1>0, <2>1, <2>3, RenderAssumption, Making
    <3>2. a \in Call /\ a.do = "blocks" /\ a.depth = Top.depth + 1
      BY <2>3, <3>1, Making DEF Blocks
    <3>3. a.depth <= MaxDepth + 1
      BY <2>3, <3>2, RenderAssumption
    <3> HIDE DEF a
    <3>4. QED
      BY <3>1, <3>2, <3>3 DEF Legal
  <2> HIDE DEF a, e
  <2>6. P \in Seq(Legal(page)) /\ Pending(page, P) = Owes(page, a)
    BY <1>0, <2>1, <2>5, PendingPair
  <2>7. x \in Seq(Elem) /\ out' = out \o x
    BY <1>0, <2>1, <2>5, AppendIsConcat
  <2>8. work' = P \o Rest(1)
    BY <2>1
  <2> HIDE DEF P, x
  <2>9. QED
    BY <2>1, <2>2, <2>3, <2>4, <2>6, <2>7, <2>8, TextCalls
<1>7. CASE RefuseItem \/ RefuseBlock
  <2>1. /\ result = "rendering" /\ budget = 0 /\ refused' = TRUE
        /\ UNCHANGED <<page, result, budget, out>>
    BY <1>7 DEF RefuseItem, RefuseBlock, NextBlock, NextId
  <2>2. QED
    BY <2>1, TextRefuses
<1>8. CASE RenderBlock
  <2> DEFINE id == Head(Top.ids)
             e  == Element("block", id, Top.depth)
             B  == Below(id, Top.depth)
             P  == IF Kind(id) \in Wraps THEN B \o <<Close(e)>> ELSE B
             x  == <<e>>
  <2>1. /\ result = "rendering" /\ work # <<>> /\ Top.do = "blocks" /\ Top.ids # <<>>
        /\ id \in DOMAIN page /\ Top.depth <= MaxDepth /\ Kind(id) \notin Lists
        /\ budget # 0 /\ UNCHANGED <<page, result, refused>>
    BY <1>8, Walking DEF RenderBlock, NextBlock, NextId, Exists, Spend
  <2>2. out' = Append(out, e) /\ work' = P \o Rest(1)
    BY <1>8 DEF RenderBlock, Begin, Write
  <2>3. ~refused
    BY <1>0, <2>1 DEF TextInv
  <2>4. id = Top.ids[1] /\ id \in Id /\ 1 \in 0..Len(Top.ids) /\ Top.depth \in 0..MaxDepth
    BY <2>1, Walking, RenderAssumption
  <2>5. /\ Owes(page, Top) = (x \o Under(page)[Top.depth][id]) \o Owes(page, Left(Top, 1))
    BY <1>0, <2>1, <2>4, OwesBlock DEF Kind
  <2>6. B \in Seq(Legal(page)) /\ Pending(page, B) = Under(page)[Top.depth][id]
    BY <1>0, <2>1, <2>4, PendingBelow
  <2>7. e \in Elem
    BY <1>0, <2>1, <2>4, Making
  <2> HIDE DEF B, e
  <2>8. P \in Seq(Legal(page)) /\ Pending(page, P) = Pending(page, B)
    BY <1>0, <2>1, <2>6, <2>7, PendingClosed
  <2>9. x \in Seq(Elem) /\ out' = out \o x
    BY <1>0, <2>1, <2>2, <2>7, AppendIsConcat
  <2>10. work' = P \o Rest(1)
    BY <2>2
  <2> HIDE DEF P, x
  <2>11. QED
    BY <2>1, <2>3, <2>4, <2>5, <2>6, <2>8, <2>9, <2>10, TextCalls
<1>9. CASE OpenPanel
  <2> DEFINE id == Head(Top.ids)
             e  == Element("panel", id, Top.depth)
             a  == Blocks(page[id].content, Top.depth + 1)
             P  == <<a, Close(e)>>
             x  == <<e>>
  <2>1. /\ result = "rendering" /\ work # <<>> /\ Top.do = "panels" /\ Top.ids # <<>>
        /\ id \in DOMAIN page
        /\ out' = Append(out, e) /\ work' = P \o Rest(1)
        /\ UNCHANGED <<page, result, budget, refused>>
    BY <1>9 DEF OpenPanel, Begin, Write, Exists
  <2>2. id = Top.ids[1] /\ id \in Id /\ 1 \in 0..Len(Top.ids)
        /\ Top.depth \in Nat /\ Top.depth + 1 \in Nat /\ Top.depth <= MaxDepth
    BY <2>1, Walking
  <2>3. Owes(page, Top) = (x \o Owes(page, a)) \o Owes(page, Left(Top, 1))
    BY <1>0, <2>1, <2>2, OwesPanel
  <2>4. e \in Elem /\ e.is = "panel" /\ a \in Legal(page)
    <3>1. page[id].content \in Seq(Id) /\ e \in Elem /\ e.is = "panel"
      BY <1>0, <2>1, <2>2, RenderAssumption, Making
    <3>2. a \in Call /\ a.do = "blocks" /\ a.depth = Top.depth + 1
      BY <2>2, <3>1, Making DEF Blocks
    <3>3. a.depth <= MaxDepth + 1
      BY <2>2, <3>2, RenderAssumption
    <3> HIDE DEF a, e
    <3>4. QED
      BY <3>1, <3>2, <3>3 DEF Legal
  <2> HIDE DEF a, e
  <2>5. P \in Seq(Legal(page)) /\ Pending(page, P) = Owes(page, a)
    BY <1>0, <2>1, <2>4, PendingPair
  <2>6. x \in Seq(Elem) /\ out' = out \o x
    BY <1>0, <2>1, <2>4, AppendIsConcat
  <2>7. BlocksOf(out') = BlocksOf(out)
    BY <1>0, <2>1, <2>4, <2>6, BlocksSame DEF IsBlock
  <2>8. work' = P \o Rest(1)
    BY <2>1
  <2> HIDE DEF P, x
  <2>9. QED
    BY <2>1, <2>2, <2>3, <2>5, <2>6, <2>7, <2>8, TextCalls
<1>10. CASE EndElement
  <2>1. /\ result = "rendering" /\ work # <<>> /\ work' = Tail(work) /\ Top.do = "close"
        /\ UNCHANGED <<page, result, budget, out, refused>>
    BY <1>10 DEF EndElement
  <2>2. Owes(page, Top) = <<>>
    BY <1>0, <2>1, OwesNothing
  <2>3. QED
    BY <2>1, <2>2, TextPops
<1>11. CASE Finish
  <2>1. result = "rendering" /\ UNCHANGED <<page, budget, work, out, refused>>
    BY <1>11 DEF Finish
  <2>2. QED
    BY <2>1 DEF TextInv, RenderInv
<1>12. CASE UNCHANGED vars
  BY <1>12 DEF vars, TextInv
<1>13. QED
  BY <1>1, <1>2, <1>3, <1>4, <1>5, <1>6, <1>7, <1>8, <1>9, <1>10, <1>11, <1>12 DEF Next, Walk

\* Whatever the content of a page is, and wherever its budget ends: what is returned is
\* the whole document, or the blocks of it up to one that is left out (render.go:223-377,
\* blockRenderBudget render.go:146-170).
THEOREM PageWholeOrCut == Spec => []WholeOrCut
<1>1. Init => TextInv
  BY DEF Init, TextInv
<1>2. RenderInv /\ ShapeInv /\ TextInv => WholeOrCut
  <2> SUFFICES ASSUME RenderInv, ShapeInv, TextInv, result = "html"
               PROVE  IF refused
                      THEN IsPrefix(BlocksOf(out), BlocksOf(Document(page)))
                      ELSE out = Document(page)
    BY DEF WholeOrCut, BlocksOf
  <2>1. work = <<>> /\ out # <<>> /\ page \in Pages /\ out \in Seq(Elem)
    BY DEF ShapeInv, TextInv, RenderInv
  <2>2. Pending(page, work) = <<>>
    BY <2>1, PendingFew
  <2>3. out \o Pending(page, work) = out
    BY <2>1, <2>2, ConcatEmptySeq
  <2>4. QED
    BY <2>1, <2>3 DEF TextInv
<1>3. Init => ShapeInv
  BY InitShape
<1>4. QED
  BY <1>1, <1>2, <1>3, InitInv, StepInv, ShapeStep, TextStep, PTL DEF Spec
================================================================================
