------------------------------ MODULE DataTheorems -----------------------------
(***************************************************************************)
(* Facts about the data the modules are built from, proved once and cited  *)
(* by name: SumFunctionOnSet and SumFunction of the community modules,     *)
(* which the caches and stores account their bytes with, the lists of      *)
(* module Lists, and FlattenSeq.  They hold for every finite set, every    *)
(* list and every function; the recursion behind them is treated here and  *)
(* nowhere else.                                                           *)
(***************************************************************************)
EXTENDS Lists, Walks, SequencesExt, FiniteSetTheorems, SequenceTheorems, TLAPS


\* The recursion of the sum: SumsOf(g, f, S) says that g has at each subset of S
\* the sum of f over it.
Chosen(T) == CHOOSE x \in T : TRUE
SumsOf(g, f, S) ==
  g = [T \in SUBSET S |-> IF T = {} THEN 0 ELSE f[Chosen(T)] + g[T \ {Chosen(T)}]]

\* The same equation on a family of sets; a family to do induction with; and the
\* small subsets of S.
Unfolds(g, f, family) ==
  \A T \in family : g[T] = IF T = {} THEN 0 ELSE f[Chosen(T)] + g[T \ {Chosen(T)}]
Inductive(family, S) ==
  /\ {} \in family
  /\ \A U \in SUBSET S : U # {} /\ (\A x \in U : U \ {x} \in family) => U \in family
UpTo(S, n) == {T \in SUBSET S : Cardinality(T) <= n}

--------------------------------------------------------------------------------
\* A set of natural numbers has a least member.
LEMMA LeastNumber ==
  ASSUME NEW S \in SUBSET Nat, S # {}
  PROVE  \E n \in S : \A m \in S : n <= m
<1> DEFINE R == OpToRel(<, Nat)
<1>1. PICK n \in S : \A m \in S : <<m, n>> \notin R
  <2> HIDE DEF R
  <2>1. IsWellFoundedOn(R, Nat)
    BY NatLessThanWellFounded DEF R
  <2>2. QED
    BY <2>1, WFMin
<1>2. \A m \in S : ~(m < n)
  BY <1>1 DEF OpToRel
<1>3. QED
  BY <1>2

\* Of a family of finite sets that is not empty one has the fewest elements.
LEMMA SmallestSet ==
  ASSUME NEW F, F # {}, \A T \in F : IsFiniteSet(T)
  PROVE  \E T \in F : \A U \in F : Cardinality(T) <= Cardinality(U)
<1> DEFINE sizes == {Cardinality(T) : T \in F}
<1>1. sizes \in SUBSET Nat /\ sizes # {}
  BY FS_CardinalityType
<1>2. PICK n \in sizes : \A m \in sizes : n <= m
  <2> HIDE DEF sizes
  <2>1. QED
    BY <1>1, LeastNumber
<1>3. QED
  BY <1>2

\* Taking an element out makes a finite set smaller.
LEMMA OneLess ==
  ASSUME NEW T, IsFiniteSet(T), NEW x \in T
  PROVE  /\ IsFiniteSet(T \ {x})
         /\ Cardinality(T \ {x}) \in Nat /\ Cardinality(T) \in Nat
         /\ Cardinality(T \ {x}) < Cardinality(T)
<1>1. /\ IsFiniteSet(T \ {x})
      /\ Cardinality(T \ {x}) = Cardinality(T) - 1
  BY FS_RemoveElement
<1>2. Cardinality(T \ {x}) \in Nat /\ Cardinality(T) \in Nat
  BY <1>1, FS_CardinalityType
<1>3. QED
  BY <1>1, <1>2

\* The element that is chosen is one.
LEMMA ChosenIsMember ==
  ASSUME NEW T, T # {}
  PROVE  Chosen(T) \in T
  BY DEF Chosen

\* A recursion that is defined on the sets of fewer than n elements is defined on
\* those of n.
LEMMA SumsOfSmallSets ==
  ASSUME NEW f, NEW S, IsFiniteSet(S), NEW n \in Nat
  PROVE  \E g : Unfolds(g, f, UpTo(S, n))
<1> DEFINE bad == {i \in Nat : ~(\E g : Unfolds(g, f, UpTo(S, i)))}
<1>0. \A T \in SUBSET S : IsFiniteSet(T) /\ Cardinality(T) \in Nat
  BY FS_Subset, FS_CardinalityType
<1>2. SUFFICES ASSUME bad # {}
               PROVE  FALSE
  OBVIOUS
<1>3. PICK i \in bad : \A j \in bad : i <= j
  <2>1. bad \in SUBSET Nat
    OBVIOUS
  <2> HIDE DEF bad
  <2>2. QED
    BY <1>2, <2>1, LeastNumber
<1>i. i \in Nat /\ ~(\E g : Unfolds(g, f, UpTo(S, i)))
  BY <1>3
<1>4. \E g : \A T \in SUBSET S : Cardinality(T) < i => Unfolds(g, f, {T})
  <2>1. CASE i = 0
    <3>1. \A T \in SUBSET S : ~(Cardinality(T) < i)
      BY <1>0, <2>1
    <3>2. QED
      BY <3>1
  <2>2. CASE i # 0
    <3>1. i - 1 \in Nat /\ ~(i <= i - 1)
      BY <1>i, <2>2
    <3>2. i - 1 \notin bad
      BY <1>3, <3>1
    <3>3. PICK g : Unfolds(g, f, UpTo(S, i - 1))
      BY <3>1, <3>2
    <3>4. \A T \in SUBSET S : Cardinality(T) < i => T \in UpTo(S, i - 1)
      BY <1>0, <1>i DEF UpTo
    <3>5. \A T \in SUBSET S : Cardinality(T) < i => Unfolds(g, f, {T})
      BY <3>3, <3>4 DEF Unfolds
    <3>6. QED
      BY <3>5
  <2>3. QED
    BY <2>1, <2>2
<1>5. PICK g : \A T \in SUBSET S : Cardinality(T) < i => Unfolds(g, f, {T})
  BY <1>4
<1> DEFINE h == [T \in SUBSET S |-> IF T = {} THEN 0 ELSE f[Chosen(T)] + g[T \ {Chosen(T)}]]
<1>6. ASSUME NEW T \in UpTo(S, i)
      PROVE  h[T] = IF T = {} THEN 0 ELSE f[Chosen(T)] + h[T \ {Chosen(T)}]
  <2>0. T \in SUBSET S /\ Cardinality(T) <= i
    BY DEF UpTo
  <2>1. CASE T = {}
    BY <2>0, <2>1
  <2>2. CASE T # {}
    <3> DEFINE U == T \ {Chosen(T)}
    <3>1. Chosen(T) \in T
      BY <2>2, ChosenIsMember
    <3>2. U \in SUBSET S /\ Cardinality(U) < Cardinality(T)
      BY <1>0, <2>0, <3>1, OneLess
    <3>3. Cardinality(U) < i
      BY <1>0, <1>i, <2>0, <3>2
    <3>4. g[U] = IF U = {} THEN 0 ELSE f[Chosen(U)] + g[U \ {Chosen(U)}]
      BY <1>5, <3>2, <3>3 DEF Unfolds
    <3>5. h[U] = g[U]
      BY <3>2, <3>4
    <3>6. QED
      BY <2>0, <2>2, <3>5
  <2>3. QED
    BY <2>1, <2>2
<1>7. Unfolds(h, f, UpTo(S, i))
  <2> HIDE DEF h
  <2>1. QED
    BY <1>6 DEF Unfolds
<1>8. QED
  BY <1>i, <1>7

\* On a finite set the recursion is defined.
LEMMA SumsExist ==
  ASSUME NEW f, NEW S, IsFiniteSet(S)
  PROVE  \E g : SumsOf(g, f, S)
<1>1. Cardinality(S) \in Nat
  BY FS_CardinalityType
<1>2. PICK g : Unfolds(g, f, UpTo(S, Cardinality(S)))
  BY <1>1, SumsOfSmallSets
<1>3. \A T \in SUBSET S : T \in UpTo(S, Cardinality(S))
  BY FS_Subset DEF UpTo
<1> DEFINE h == [T \in SUBSET S |-> g[T]]
<1>4. \A T \in SUBSET S : T \ {Chosen(T)} \in SUBSET S
  OBVIOUS
<1>5. \A T \in SUBSET S : h[T] = IF T = {} THEN 0 ELSE f[Chosen(T)] + h[T \ {Chosen(T)}]
  BY <1>2, <1>3, <1>4 DEF Unfolds
<1>6. h = [T \in SUBSET S |-> IF T = {} THEN 0 ELSE f[Chosen(T)] + h[T \ {Chosen(T)}]]
  BY <1>5
<1>7. QED
  BY <1>6 DEF SumsOf

\* The sum is what the recursion gives.
LEMMA SumUnfolds ==
  ASSUME NEW f, NEW S, IsFiniteSet(S)
  PROVE  \E g : SumsOf(g, f, S) /\ SumFunctionOnSet(f, S) = g[S]
<1> DEFINE g == CHOOSE g : SumsOf(g, f, S)
<1>1. SumsOf(g, f, S)
  BY SumsExist
<1>2. SumFunctionOnSet(f, S) = g[S]
  BY DEF SumFunctionOnSet, FoldFunctionOnSet, MapThenFoldSet, SumsOf, Chosen
<1>3. QED
  BY <1>1, <1>2

\* Induction over the subsets of a finite set, with the property as a set: a family
\* that has the empty set, and every subset with all its one-element-smaller ones,
\* has them all.
LEMMA SubsetInduction ==
  ASSUME NEW S, IsFiniteSet(S), NEW family, Inductive(family, S)
  PROVE  \A U \in SUBSET S : U \in family
<1> DEFINE bad == {U \in SUBSET S : U \notin family}
<1>1. SUFFICES ASSUME bad # {}
               PROVE  FALSE
  OBVIOUS
<1>2. \A U \in SUBSET S : IsFiniteSet(U)
  BY FS_Subset
<1>3. PICK U \in bad : \A V \in bad : Cardinality(U) <= Cardinality(V)
  <2>1. \A V \in bad : IsFiniteSet(V)
    BY <1>2
  <2> HIDE DEF bad
  <2>2. QED
    BY <1>1, <2>1, SmallestSet
<1>4. ASSUME NEW x \in U
      PROVE  U \ {x} \in family
  <2>1. /\ Cardinality(U \ {x}) < Cardinality(U)
        /\ Cardinality(U \ {x}) \in Nat /\ Cardinality(U) \in Nat
    BY <1>2, <1>3, OneLess
  <2>2. U \ {x} \notin bad
    BY <1>3, <2>1
  <2>3. QED
    BY <1>3, <2>2
<1>5. U # {}
  BY <1>3 DEF Inductive
<1>6. QED
  BY <1>3, <1>4, <1>5 DEF Inductive

\* Two functions with the same values on T have the same sum over it, whatever sets
\* their recursions start from.
LEMMA SumsAgree ==
  ASSUME NEW f, NEW e, NEW S, NEW R, IsFiniteSet(S), IsFiniteSet(R),
         NEW g, NEW h, SumsOf(g, f, S), SumsOf(h, e, R),
         NEW T, T \subseteq S, T \subseteq R, \A x \in T : f[x] = e[x]
  PROVE  g[T] = h[T]
<1> DEFINE same == {U \in SUBSET T : g[U] = h[U]}
<1>1. ASSUME NEW U \in SUBSET T
      PROVE  /\ g[U] = IF U = {} THEN 0 ELSE f[Chosen(U)] + g[U \ {Chosen(U)}]
             /\ h[U] = IF U = {} THEN 0 ELSE e[Chosen(U)] + h[U \ {Chosen(U)}]
  BY DEF SumsOf
<1>2. {} \in same
  BY <1>1
<1>3. ASSUME NEW U \in SUBSET T, U # {}, \A x \in U : U \ {x} \in same
      PROVE  U \in same
  <2>1. Chosen(U) \in U /\ U \ {Chosen(U)} \in same
    BY <1>3, ChosenIsMember
  <2>2. QED
    BY <1>1, <1>3, <2>1
<1>4. IsFiniteSet(T)
  BY FS_Subset
<1>i. Inductive(same, T)
  BY <1>2, <1>3 DEF Inductive
<1>5. \A U \in SUBSET T : U \in same
  <2> HIDE DEF same
  <2>1. QED
    BY <1>i, <1>4, SubsetInduction
<1>6. QED
  BY <1>5

--------------------------------------------------------------------------------
\* The sum over a set depends on the values at its members only.
THEOREM SumSame ==
  ASSUME NEW S, IsFiniteSet(S), NEW f, NEW e, \A x \in S : f[x] = e[x]
  PROVE  SumFunctionOnSet(f, S) = SumFunctionOnSet(e, S)
<1>1. PICK g : SumsOf(g, f, S) /\ SumFunctionOnSet(f, S) = g[S]
  BY SumUnfolds
<1>2. PICK h : SumsOf(h, e, S) /\ SumFunctionOnSet(e, S) = h[S]
  BY SumUnfolds
<1>3. QED
  BY <1>1, <1>2, SumsAgree

\* The sum over nothing is zero.
THEOREM SumOfNone ==
  ASSUME NEW f
  PROVE  SumFunctionOnSet(f, {}) = 0
<1>1. IsFiniteSet({})
  BY FS_EmptySet
<1>2. PICK g : SumsOf(g, f, {}) /\ SumFunctionOnSet(f, {}) = g[{}]
  BY <1>1, SumUnfolds
<1>3. QED
  BY <1>2 DEF SumsOf

\* The recursion takes the values one by one.
LEMMA SumStarts ==
  ASSUME NEW S, IsFiniteSet(S), S # {}, NEW f
  PROVE  SumFunctionOnSet(f, S) = f[Chosen(S)] + SumFunctionOnSet(f, S \ {Chosen(S)})
<1> DEFINE R == S \ {Chosen(S)}
<1>1. IsFiniteSet(R)
  BY FS_Subset
<1>2. PICK g : SumsOf(g, f, S) /\ SumFunctionOnSet(f, S) = g[S]
  BY SumUnfolds
<1>3. PICK h : SumsOf(h, f, R) /\ SumFunctionOnSet(f, R) = h[R]
  BY <1>1, SumUnfolds
<1>4. g[S] = f[Chosen(S)] + g[R]
  BY <1>2 DEF SumsOf
<1>5. g[R] = h[R]
  <2> DEFINE e == f
  <2>1. R \subseteq S /\ R \subseteq R /\ \A x \in R : f[x] = e[x]
    OBVIOUS
  <2>2. SumsOf(g, f, S) /\ SumsOf(h, e, R)
    BY <1>2, <1>3
  <2> HIDE DEF R, e
  <2>3. QED
    BY <1>1, <2>1, <2>2, SumsAgree
<1>6. QED
  BY <1>2, <1>3, <1>4, <1>5

\* A sum of integers is one.
THEOREM SumInt ==
  ASSUME NEW S, IsFiniteSet(S), NEW f, \A x \in S : f[x] \in Int
  PROVE  SumFunctionOnSet(f, S) \in Int
<1> DEFINE good == {U \in SUBSET S : SumFunctionOnSet(f, U) \in Int}
<1>1. {} \in good
  BY SumOfNone
<1>2. ASSUME NEW U \in SUBSET S, U # {}, \A x \in U : U \ {x} \in good
      PROVE  U \in good
  <2>1. Chosen(U) \in U /\ U \ {Chosen(U)} \in good
    BY <1>2, ChosenIsMember
  <2>2. SumFunctionOnSet(f, U) = f[Chosen(U)] + SumFunctionOnSet(f, U \ {Chosen(U)})
    BY <1>2, FS_Subset, SumStarts
  <2>3. QED
    BY <2>1, <2>2
<1>i. Inductive(good, S)
  BY <1>1, <1>2 DEF Inductive
<1>3. \A U \in SUBSET S : U \in good
  <2> HIDE DEF good
  <2>1. QED
    BY <1>i, SubsetInduction
<1>4. QED
  BY <1>3

\* Chosen member may be taken out first: the order of the sum does not matter.
THEOREM SumTakesOut ==
  ASSUME NEW S, IsFiniteSet(S), NEW f, \A y \in S : f[y] \in Int, NEW x \in S
  PROVE  SumFunctionOnSet(f, S) = f[x] + SumFunctionOnSet(f, S \ {x})
<1> DEFINE Out(U, y) == SumFunctionOnSet(f, U) = f[y] + SumFunctionOnSet(f, U \ {y})
           good == {U \in SUBSET S : \A y \in U : Out(U, y)}
<1>1. {} \in good
  OBVIOUS
<1>2. ASSUME NEW U \in SUBSET S, U # {}, \A z \in U : U \ {z} \in good, NEW z \in U
      PROVE  Out(U, z)
  <2> DEFINE y == Chosen(U)
  <2>1. y \in U
    BY <1>2, ChosenIsMember
  <2>2. Out(U, y)
    BY <1>2, FS_Subset, SumStarts
  <2> HIDE DEF y
  <2>3. CASE y = z
    BY <2>2, <2>3
  <2>4. CASE y # z
    <3> DEFINE S1 == SumFunctionOnSet(f, U \ {y})
               S2 == SumFunctionOnSet(f, U \ {z})
               S3 == SumFunctionOnSet(f, (U \ {y}) \ {z})
    <3>1. Out(U \ {y}, z) /\ Out(U \ {z}, y)
      BY <1>2, <2>1, <2>4
    <3>2. (U \ {z}) \ {y} = (U \ {y}) \ {z}
      OBVIOUS
    <3>3. /\ SumFunctionOnSet(f, U) = f[y] + S1
          /\ S1 = f[z] + S3
          /\ S2 = f[y] + S3
      BY <2>2, <3>1, <3>2
    <3>4. f[y] \in Int /\ f[z] \in Int /\ S3 \in Int
      <4>1. (U \ {y}) \ {z} \in SUBSET S
        OBVIOUS
      <4>2. QED
        BY <2>1, <4>1, FS_Subset, SumInt
    <3>5. SumFunctionOnSet(f, U) = f[z] + S2
      <4> HIDE DEF S1, S2, S3
      <4>1. QED
        BY <3>3, <3>4
    <3>6. QED
      BY <3>5
  <2>5. QED
    BY <2>3, <2>4
<1>3. \A U \in SUBSET S : U # {} /\ (\A z \in U : U \ {z} \in good) => U \in good
  BY <1>2
<1>i. Inductive(good, S)
  BY <1>1, <1>3 DEF Inductive
<1>4. \A U \in SUBSET S : U \in good
  <2> HIDE DEF good
  <2>1. QED
    BY <1>i, SubsetInduction
<1>5. QED
  BY <1>4

\* A new member adds its value.
THEOREM SumPutsIn ==
  ASSUME NEW S, IsFiniteSet(S), NEW f, NEW x, x \notin S,
         \A y \in S \cup {x} : f[y] \in Int
  PROVE  SumFunctionOnSet(f, S \cup {x}) = f[x] + SumFunctionOnSet(f, S)
<1>1. IsFiniteSet(S \cup {x}) /\ x \in S \cup {x} /\ (S \cup {x}) \ {x} = S
  BY FS_AddElement
<1>2. SumFunctionOnSet(f, S \cup {x}) = f[x] + SumFunctionOnSet(f, (S \cup {x}) \ {x})
  BY <1>1, SumTakesOut
<1>3. QED
  BY <1>1, <1>2

\* Smaller values have a smaller sum.
THEOREM SumAtMost ==
  ASSUME NEW S, IsFiniteSet(S), NEW f, NEW e,
         \A x \in S : f[x] \in Int /\ e[x] \in Int /\ f[x] <= e[x]
  PROVE  SumFunctionOnSet(f, S) <= SumFunctionOnSet(e, S)
<1> DEFINE good == {U \in SUBSET S : SumFunctionOnSet(f, U) <= SumFunctionOnSet(e, U)}
<1>1. {} \in good
  BY SumOfNone
<1>2. ASSUME NEW U \in SUBSET S, U # {}, \A x \in U : U \ {x} \in good
      PROVE  SumFunctionOnSet(f, U) <= SumFunctionOnSet(e, U)
  <2> DEFINE x == Chosen(U)
             W == U \ {x}
  <2>1. x \in U /\ IsFiniteSet(U) /\ IsFiniteSet(W)
    BY <1>2, ChosenIsMember, FS_Subset
  <2>2. SumFunctionOnSet(f, W) <= SumFunctionOnSet(e, W)
    BY <1>2, <2>1
  <2>3. /\ SumFunctionOnSet(f, U) = f[x] + SumFunctionOnSet(f, W)
        /\ SumFunctionOnSet(e, U) = e[x] + SumFunctionOnSet(e, W)
    BY <1>2, <2>1, SumStarts
  <2>4. /\ SumFunctionOnSet(f, W) \in Int /\ SumFunctionOnSet(e, W) \in Int
        /\ f[x] \in Int /\ e[x] \in Int /\ f[x] <= e[x]
    BY <2>1, SumInt
  <2> HIDE DEF x, W
  <2>5. QED
    BY <2>2, <2>3, <2>4
<1>3. \A U \in SUBSET S : U # {} /\ (\A z \in U : U \ {z} \in good) => U \in good
  BY <1>2
<1>i. Inductive(good, S)
  BY <1>1, <1>3 DEF Inductive
<1>4. \A U \in SUBSET S : U \in good
  <2> HIDE DEF good
  <2>1. QED
    BY <1>i, SubsetInduction
<1>5. QED
  BY <1>4

\* The sums over two sets with nothing in common add up to that over both.
THEOREM SumOfBoth ==
  ASSUME NEW S, NEW R, IsFiniteSet(S), IsFiniteSet(R), S \cap R = {},
         NEW f, \A x \in S \cup R : f[x] \in Int
  PROVE  SumFunctionOnSet(f, S \cup R) = SumFunctionOnSet(f, S) + SumFunctionOnSet(f, R)
<1> DEFINE Adds(U) == SumFunctionOnSet(f, S \cup U) = SumFunctionOnSet(f, S) + SumFunctionOnSet(f, U)
           good == {U \in SUBSET R : Adds(U)}
<1>1. SumFunctionOnSet(f, S) \in Int
  BY SumInt
<1>2. {} \in good
  <2>1. S \cup {} = S
    OBVIOUS
  <2>2. QED
    BY <1>1, <2>1, SumOfNone
<1>3. ASSUME NEW U \in SUBSET R, U # {}, \A x \in U : U \ {x} \in good
      PROVE  Adds(U)
  <2> DEFINE x == Chosen(U)
             W == U \ {x}
  <2>1. x \in U
    BY <1>3, ChosenIsMember
  <2>2. Adds(W)
    BY <1>3, <2>1
  <2>3. IsFiniteSet(U) /\ IsFiniteSet(W)
    BY FS_Subset
  <2>4. SumFunctionOnSet(f, U) = f[x] + SumFunctionOnSet(f, W)
    BY <1>3, <2>3, SumStarts
  <2>5. SumFunctionOnSet(f, S \cup U) = f[x] + SumFunctionOnSet(f, S \cup W)
    <3>1. x \in S \cup U /\ (S \cup U) \ {x} = S \cup W
      BY <2>1
    <3>2. IsFiniteSet(S \cup U)
      BY <2>3, FS_Union
    <3>3. \A y \in S \cup U : f[y] \in Int
      OBVIOUS
    <3> HIDE DEF x, W
    <3>4. SumFunctionOnSet(f, S \cup U) = f[x] + SumFunctionOnSet(f, (S \cup U) \ {x})
      BY <3>1, <3>2, <3>3, SumTakesOut
    <3>5. QED
      BY <3>1, <3>4
  <2>6. f[x] \in Int /\ SumFunctionOnSet(f, W) \in Int
    BY <2>1, <2>3, SumInt
  <2> HIDE DEF x, W
  <2>7. QED
    BY <1>1, <2>2, <2>4, <2>5, <2>6
<1>4. \A U \in SUBSET R : U # {} /\ (\A z \in U : U \ {z} \in good) => U \in good
  BY <1>3
<1>i. Inductive(good, R)
  BY <1>2, <1>4 DEF Inductive
<1>5. \A U \in SUBSET R : U \in good
  <2> HIDE DEF good
  <2>1. QED
    BY <1>i, SubsetInduction
<1>6. QED
  BY <1>5

\* A sum of natural numbers is one, and no less than that over a part of the set.
THEOREM SumNat ==
  ASSUME NEW S, IsFiniteSet(S), NEW f, \A x \in S : f[x] \in Nat
  PROVE  /\ SumFunctionOnSet(f, S) \in Nat
         /\ \A T \in SUBSET S : SumFunctionOnSet(f, T) <= SumFunctionOnSet(f, S)
<1> DEFINE good == {U \in SUBSET S : SumFunctionOnSet(f, U) \in Nat}
<1>1. {} \in good
  BY SumOfNone
<1>2. ASSUME NEW U \in SUBSET S, U # {}, \A x \in U : U \ {x} \in good
      PROVE  U \in good
  <2>1. Chosen(U) \in U /\ U \ {Chosen(U)} \in good
    BY <1>2, ChosenIsMember
  <2>2. SumFunctionOnSet(f, U) = f[Chosen(U)] + SumFunctionOnSet(f, U \ {Chosen(U)})
    BY <1>2, FS_Subset, SumStarts
  <2>3. QED
    BY <2>1, <2>2
<1>i. Inductive(good, S)
  BY <1>1, <1>2 DEF Inductive
<1>3. \A U \in SUBSET S : U \in good
  <2> HIDE DEF good
  <2>1. QED
    BY <1>i, SubsetInduction
<1>4. ASSUME NEW T \in SUBSET S
      PROVE  SumFunctionOnSet(f, T) <= SumFunctionOnSet(f, S)
  <2> DEFINE R == S \ T
  <2>1. T \cup R = S /\ T \cap R = {}
    OBVIOUS
  <2>2. IsFiniteSet(T) /\ IsFiniteSet(R)
    BY FS_Subset
  <2>3. \A x \in T \cup R : f[x] \in Int
    OBVIOUS
  <2>4. SumFunctionOnSet(f, T) \in Nat /\ SumFunctionOnSet(f, R) \in Nat
    BY <1>3
  <2> HIDE DEF R
  <2>5. SumFunctionOnSet(f, T \cup R) = SumFunctionOnSet(f, T) + SumFunctionOnSet(f, R)
    BY <2>1, <2>2, <2>3, SumOfBoth
  <2>6. SumFunctionOnSet(f, S) = SumFunctionOnSet(f, T) + SumFunctionOnSet(f, R)
    BY <2>1, <2>5
  <2>7. QED
    BY <2>4, <2>6
<1>5. SumFunctionOnSet(f, S) \in Nat
  BY <1>3
<1>6. QED
  BY <1>4, <1>5

\* A sum may be taken over other names of the indices.
THEOREM SumRenames ==
  ASSUME NEW S, IsFiniteSet(S), NEW p, \A i, j \in S : p[i] = p[j] => i = j,
         NEW f, NEW e, \A i \in S : f[i] \in Int /\ e[p[i]] = f[i]
  PROVE  SumFunctionOnSet(f, S) = SumFunctionOnSet(e, {p[i] : i \in S})
<1> DEFINE Names(U) == {p[i] : i \in U}
           good == {U \in SUBSET S : SumFunctionOnSet(f, U) = SumFunctionOnSet(e, Names(U))}
<1>1. {} \in good
  <2>1. Names({}) = {}
    OBVIOUS
  <2>2. QED
    BY <2>1, SumOfNone
<1>2. ASSUME NEW U \in SUBSET S, U # {}, \A i \in U : U \ {i} \in good
      PROVE  SumFunctionOnSet(f, U) = SumFunctionOnSet(e, Names(U))
  <2> DEFINE i == Chosen(U)
             W == U \ {i}
  <2>1. i \in U
    BY <1>2, ChosenIsMember
  <2>2. SumFunctionOnSet(f, W) = SumFunctionOnSet(e, Names(W))
    BY <1>2, <2>1
  <2>3. IsFiniteSet(U) /\ IsFiniteSet(W)
    BY FS_Subset
  <2>4. SumFunctionOnSet(f, U) = f[i] + SumFunctionOnSet(f, W)
    BY <1>2, <2>3, SumStarts
  <2>5. p[i] \notin Names(W) /\ Names(U) = Names(W) \cup {p[i]}
    BY <2>1
  <2>6. IsFiniteSet(Names(W))
    <3> HIDE DEF W
    <3> DEFINE q == [j \in W |-> p[j]]
    <3>1. q \in Surjection(W, Names(W))
      BY DEF Surjection
    <3>2. QED
      BY <2>3, <3>1, FS_Surjection
  <2>7. \A y \in Names(W) \cup {p[i]} : e[y] \in Int
    BY <2>1
  <2>8. e[p[i]] = f[i]
    BY <2>1
  <2>9. SumFunctionOnSet(e, Names(U)) = e[p[i]] + SumFunctionOnSet(e, Names(W))
    <3> HIDE DEF Names, W, i
    <3>1. QED
      BY <2>5, <2>6, <2>7, SumPutsIn
  <2>10. QED
    BY <2>2, <2>4, <2>8, <2>9
<1>3. \A U \in SUBSET S : U # {} /\ (\A z \in U : U \ {z} \in good) => U \in good
  BY <1>2
<1>4. Inductive(good, S)
  BY <1>1, <1>3 DEF Inductive
<1>5. \A U \in SUBSET S : U \in good
  <2> HIDE DEF good
  <2>1. QED
    BY <1>4, SubsetInduction
<1>6. QED
  BY <1>5

\* Zeros add up to nothing.
THEOREM SumOfZeros ==
  ASSUME NEW S, IsFiniteSet(S), NEW f, \A x \in S : f[x] = 0
  PROVE  SumFunctionOnSet(f, S) = 0
<1> DEFINE good == {U \in SUBSET S : SumFunctionOnSet(f, U) = 0}
<1>1. {} \in good
  BY SumOfNone
<1>2. ASSUME NEW U \in SUBSET S, U # {}, \A x \in U : U \ {x} \in good
      PROVE  U \in good
  <2>1. Chosen(U) \in U /\ U \ {Chosen(U)} \in good
    BY <1>2, ChosenIsMember
  <2>2. SumFunctionOnSet(f, U) = f[Chosen(U)] + SumFunctionOnSet(f, U \ {Chosen(U)})
    BY <1>2, FS_Subset, SumStarts
  <2>3. QED
    BY <2>1, <2>2
<1>3. Inductive(good, S)
  BY <1>1, <1>2 DEF Inductive
<1>4. \A U \in SUBSET S : U \in good
  <2> HIDE DEF good
  <2>1. QED
    BY <1>3, SubsetInduction
<1>5. QED
  BY <1>4

\* Where one value changes, the sum changes by as much.
THEOREM SumChangesOne ==
  ASSUME NEW S, IsFiniteSet(S), NEW x \in S, NEW f, NEW e,
         \A y \in S : f[y] \in Int /\ e[y] \in Int,
         \A y \in S \ {x} : f[y] = e[y]
  PROVE  SumFunctionOnSet(e, S) = SumFunctionOnSet(f, S) - f[x] + e[x]
<1> DEFINE R == S \ {x}
<1>1. IsFiniteSet(R) /\ R \subseteq S
  BY FS_Subset
<1>2. SumFunctionOnSet(f, R) = SumFunctionOnSet(e, R)
  <2>1. \A y \in R : f[y] = e[y]
    OBVIOUS
  <2> HIDE DEF R
  <2>2. QED
    BY <1>1, <2>1, SumSame
<1>3. SumFunctionOnSet(f, S) = f[x] + SumFunctionOnSet(f, R)
  BY SumTakesOut
<1>4. SumFunctionOnSet(e, S) = e[x] + SumFunctionOnSet(e, R)
  BY SumTakesOut
<1>5. SumFunctionOnSet(f, R) \in Int
  <2>1. \A y \in R : f[y] \in Int
    OBVIOUS
  <2> HIDE DEF R
  <2>2. QED
    BY <1>1, <2>1, SumInt
<1>6. f[x] \in Int /\ e[x] \in Int
  OBVIOUS
<1> HIDE DEF R
<1>7. QED
  BY <1>2, <1>3, <1>4, <1>5, <1>6

\* The sum over one index.
THEOREM SumOfOne ==
  ASSUME NEW x, NEW f, f[x] \in Int
  PROVE  SumFunctionOnSet(f, {x}) = f[x]
<1>1. IsFiniteSet({}) /\ x \notin {} /\ {} \cup {x} = {x}
  BY FS_EmptySet
<1>2. SumFunctionOnSet(f, {} \cup {x}) = f[x] + SumFunctionOnSet(f, {})
  BY <1>1, SumPutsIn
<1>3. QED
  BY <1>1, <1>2, SumOfNone

\* The sum along a sequence is that along its beginning and that along its end.
THEOREM SumOfParts ==
  ASSUME NEW n \in Nat, NEW m \in Nat, NEW f, NEW e, NEW h,
         \A i \in 1..n : h[i] = f[i] /\ f[i] \in Int,
         \A i \in 1..m : h[n + i] = e[i] /\ e[i] \in Int
  PROVE  SumFunctionOnSet(h, 1..(n + m)) = SumFunctionOnSet(f, 1..n) + SumFunctionOnSet(e, 1..m)
<1> DEFINE S == 1..n
           M == 1..m
           p == [i \in 1..m |-> n + i]
           R == {p[i] : i \in 1..m}
<1>1. 1..(n + m) = S \cup R /\ S \cap R = {}
  <2>1. R = (n + 1)..(n + m)
    <3>1. ASSUME NEW j \in (n + 1)..(n + m)
          PROVE  j \in R
      <4>1. j - n \in 1..m /\ p[j - n] = j
        OBVIOUS
      <4>2. QED
        BY <4>1
    <3>2. \A i \in 1..m : p[i] \in (n + 1)..(n + m)
      OBVIOUS
    <3>3. QED
      BY <3>1, <3>2
  <2> HIDE DEF R
  <2>2. QED
    BY <2>1
<1>2. IsFiniteSet(S) /\ IsFiniteSet(1..m) /\ IsFiniteSet(R)
  <2>1. IsFiniteSet(1..n) /\ IsFiniteSet(1..m) /\ IsFiniteSet(1..(n + m))
    BY FS_Interval
  <2>2. R \subseteq 1..(n + m)
    BY <1>1
  <2> HIDE DEF R
  <2>3. QED
    BY <2>1, <2>2, FS_Subset
<1>3. \A i, j \in 1..m : p[i] = p[j] => i = j
  OBVIOUS
<1>4. \A i \in 1..m : e[i] \in Int /\ h[p[i]] = e[i]
  OBVIOUS
<1>5. \A x \in S \cup R : h[x] \in Int
  BY <1>4
<1>6. \A x \in S : h[x] = f[x]
  OBVIOUS
<1>a. /\ IsFiniteSet(M) /\ \A i, j \in M : p[i] = p[j] => i = j
      /\ \A i \in M : e[i] \in Int /\ h[p[i]] = e[i]
      /\ R = {p[i] : i \in M}
  BY <1>2, <1>3, <1>4
<1> HIDE DEF S, p, R, M
<1>7. SumFunctionOnSet(e, M) = SumFunctionOnSet(h, R)
  BY <1>a, SumRenames
<1>8. SumFunctionOnSet(h, S \cup R) = SumFunctionOnSet(h, S) + SumFunctionOnSet(h, R)
  BY <1>1, <1>2, <1>5, SumOfBoth
<1>9. SumFunctionOnSet(h, S) = SumFunctionOnSet(f, S)
  BY <1>2, <1>6, SumSame
<1>10. QED
  BY <1>1, <1>7, <1>8, <1>9 DEF S, M
--------------------------------------------------------------------------------
\* S is finite and before[x] are the members before x in a total order.
Ordered(S, before) ==
  /\ IsFiniteSet(S)
  /\ before \in [S -> SUBSET S]
  /\ \A x \in S : x \notin before[x]
  /\ \A x, y \in S : x \in before[y] => before[x] \subseteq before[y]
  /\ \A x, y \in S : x = y \/ x \in before[y] \/ y \in before[x]

\* o goes through S in that order.
Through(o, m, S, before) ==
  /\ m \in Nat /\ o \in [1..m -> S]
  /\ \A x \in S : \E k \in 1..m : o[k] = x
  /\ \A i, j \in 1..m : i < j => o[i] \in before[o[j]]

\* A member is before another one if fewer are before it.
LEMMA OrderedRanks ==
  ASSUME NEW S, NEW before, Ordered(S, before)
  PROVE  /\ Cardinality(S) \in Nat
         /\ \A x \in S : Cardinality(before[x]) \in 0..Cardinality(S) - 1
         /\ \A x, y \in S : x \in before[y] <=> Cardinality(before[x]) < Cardinality(before[y])
         /\ \A x, y \in S : Cardinality(before[x]) = Cardinality(before[y]) => x = y
<1> USE DEF Ordered
<1>1. \A x \in S : IsFiniteSet(before[x]) /\ Cardinality(before[x]) \in Nat
  <2> SUFFICES ASSUME NEW x \in S
               PROVE  IsFiniteSet(before[x]) /\ Cardinality(before[x]) \in Nat
    OBVIOUS
  <2>1. before[x] \in SUBSET S
    OBVIOUS
  <2>2. QED
    BY <2>1, FS_Subset, FS_CardinalityType
<1>2. Cardinality(S) \in Nat
  BY FS_CardinalityType
<1>3. ASSUME NEW x \in S
      PROVE  Cardinality(before[x]) \in 0..Cardinality(S) - 1
  <2>1. before[x] \in SUBSET S /\ before[x] # S
    OBVIOUS
  <2>2. Cardinality(before[x]) <= Cardinality(S) /\ Cardinality(S) # Cardinality(before[x])
    BY <2>1, FS_Subset
  <2>3. QED
    BY <1>1, <1>2, <2>2
<1>4. ASSUME NEW x \in S, NEW y \in S, x \in before[y]
      PROVE  Cardinality(before[x]) < Cardinality(before[y])
  <2>1. before[x] \in SUBSET before[y] /\ before[x] # before[y]
    BY <1>4
  <2>2. /\ Cardinality(before[x]) <= Cardinality(before[y])
        /\ Cardinality(before[y]) # Cardinality(before[x])
    BY <1>1, <2>1, FS_Subset
  <2>3. QED
    BY <1>1, <2>2
<1>5. ASSUME NEW x \in S, NEW y \in S
      PROVE  /\ x \in before[y] <=> Cardinality(before[x]) < Cardinality(before[y])
             /\ Cardinality(before[x]) = Cardinality(before[y]) => x = y
  <2>1. x = y \/ x \in before[y] \/ y \in before[x]
    OBVIOUS
  <2>2. Cardinality(before[x]) \in Nat /\ Cardinality(before[y]) \in Nat
    BY <1>1
  <2>3. /\ x \in before[y] => Cardinality(before[x]) < Cardinality(before[y])
        /\ y \in before[x] => Cardinality(before[y]) < Cardinality(before[x])
    BY <1>4
  <2>4. QED
    BY <2>1, <2>2, <2>3
<1>6. QED
  BY <1>2, <1>3, <1>5

\* A list that goes through S in the order is the arrangement of S.
LEMMA ArrangedIs ==
  ASSUME NEW S, NEW before, Ordered(S, before), NEW m, NEW o, Through(o, m, S, before)
  PROVE  Arranged(S, before) = o /\ m = Cardinality(S)
<1>0. /\ m \in Nat /\ o \in [1..m -> S]
      /\ \A x \in S : \E k \in 1..m : o[k] = x
      /\ \A i, j \in 1..m : i < j => o[i] \in before[o[j]]
  BY DEF Through
<1>1. \A i, j \in 1..m : o[i] = o[j] => i = j
  <2> SUFFICES ASSUME NEW i \in 1..m, NEW j \in 1..m, o[i] = o[j], i # j
               PROVE  FALSE
    OBVIOUS
  <2>1. i < j \/ j < i
    BY <1>0
  <2>2. QED
    BY <1>0, <2>1 DEF Ordered
<1>2. m = Cardinality(S)
  <2>1. o \in Bijection(1..m, S)
    BY <1>0, <1>1 DEF Bijection, Injection, Surjection, IsInjective
  <2>2. IsFiniteSet(1..m) /\ Cardinality(1..m) = m
    <3>1. IsFiniteSet(1..m) /\ Cardinality(1..m) = IF 1 > m THEN 0 ELSE m - 1 + 1
      BY <1>0, FS_Interval
    <3>2. QED
      BY <1>0, <3>1
  <2>3. QED
    BY <2>1, <2>2, FS_Bijection DEF ExistsBijection
<1>3. ASSUME NEW k \in 1..m
      PROVE  Cardinality(before[o[k]]) = k - 1
  <2> DEFINE l == k - 1
             f == [i \in 1..l |-> o[i]]
  <2>1. l \in Nat /\ \A i \in 1..l : i \in 1..m /\ i < k
    BY <1>0
  <2>2. IsFiniteSet(1..l) /\ Cardinality(1..l) = l
    <3>1. IsFiniteSet(1..l) /\ Cardinality(1..l) = IF 1 > l THEN 0 ELSE l - 1 + 1
      BY <2>1, FS_Interval
    <3>2. QED
      BY <2>1, <3>1
  <2>3. \A i \in 1..l : o[i] \in before[o[k]]
    BY <1>0, <2>1
  <2>4. \A x \in before[o[k]] : \E i \in 1..l : o[i] = x
    <3> SUFFICES ASSUME NEW x \in before[o[k]]
                 PROVE  \E i \in 1..l : o[i] = x
      OBVIOUS
    <3>1. x \in S /\ o[k] \in S
      BY <1>0 DEF Ordered
    <3>2. PICK i \in 1..m : o[i] = x
      BY <1>0, <3>1
    <3>3. ~(k < i)
      <4> SUFFICES ASSUME k < i
                   PROVE  FALSE
        OBVIOUS
      <4>1. o[k] \in before[x]
        BY <1>0, <3>2
      <4>2. QED
        BY <3>1, <4>1 DEF Ordered
    <3>4. i # k
      BY <3>1, <3>2 DEF Ordered
    <3>5. i \in 1..l
      BY <1>0, <3>3, <3>4
    <3>6. QED
      BY <3>2, <3>5
  <2>5. f \in Bijection(1..l, before[o[k]])
    BY <1>0, <1>1, <2>1, <2>3, <2>4 DEF Bijection, Injection, Surjection, IsInjective
  <2>6. Cardinality(before[o[k]]) = l
    <3> HIDE DEF f, l
    <3>1. QED
      BY <2>2, <2>5, FS_Bijection DEF ExistsBijection
  <2>7. QED
    BY <2>6
<1>4. ASSUME NEW k \in 1..m
      PROVE  (CHOOSE x \in S : Cardinality(before[x]) = k - 1) = o[k]
  <2>1. o[k] \in S /\ Cardinality(before[o[k]]) = k - 1
    BY <1>0, <1>3
  <2>2. \A x \in S : Cardinality(before[x]) = k - 1 => x = o[k]
    BY <2>1, OrderedRanks
  <2>3. QED
    BY <2>1, <2>2
<1>5. Arranged(S, before) = o
  BY <1>0, <1>2, <1>4 DEF Arranged
<1>6. QED
  BY <1>2, <1>5

\* Every set has its arrangement.
LEMMA ArrangedGoesThrough ==
  ASSUME NEW S, NEW before, Ordered(S, before)
  PROVE  LET o == Arranged(S, before) IN
         Through(o, Cardinality(S), S, before) /\ o \in Seq(S) /\ Len(o) = Cardinality(S)
<1> DEFINE n == Cardinality(S)
           rank == [x \in S |-> Cardinality(before[x]) + 1]
           o == Arranged(S, before)
<1>1. n \in Nat /\ \A x \in S : Cardinality(before[x]) \in 0..n - 1
  BY OrderedRanks
<1>2. \A x \in S : rank[x] \in 1..n /\ rank[x] - 1 = Cardinality(before[x])
  BY <1>1
<1>3. rank \in Injection(S, 1..n)
  <2>1. \A x, y \in S : rank[x] = rank[y] => x = y
    <3> SUFFICES ASSUME NEW x \in S, NEW y \in S, rank[x] = rank[y]
                 PROVE  x = y
      OBVIOUS
    <3>1. Cardinality(before[x]) = Cardinality(before[y])
      BY <1>2
    <3>2. QED
      BY <3>1, OrderedRanks
  <2>2. rank \in [S -> 1..n]
    BY <1>2
  <2>3. QED
    BY <2>1, <2>2 DEF Injection, IsInjective
<1>4. \A k \in 1..n : \E x \in S : rank[x] = k
  <2>1. IsFiniteSet(1..n) /\ Cardinality(1..n) = n
    <3>1. IsFiniteSet(1..n) /\ Cardinality(1..n) = IF 1 > n THEN 0 ELSE n - 1 + 1
      BY <1>1, FS_Interval
    <3>2. QED
      BY <1>1, <3>1
  <2> HIDE DEF rank
  <2>2. rank \in Surjection(S, 1..n)
    BY <1>3, <2>1, FS_Injection
  <2>3. QED
    BY <2>2 DEF Surjection
<1>5. \A k \in 1..n : o[k] \in S /\ rank[o[k]] = k
  <2> SUFFICES ASSUME NEW k \in 1..n
               PROVE  o[k] \in S /\ rank[o[k]] = k
    OBVIOUS
  <2>1. \E x \in S : Cardinality(before[x]) = k - 1
    BY <1>2, <1>4
  <2>2. o[k] = CHOOSE x \in S : Cardinality(before[x]) = k - 1
    BY DEF Arranged
  <2>3. o[k] \in S /\ Cardinality(before[o[k]]) = k - 1
    BY <2>1, <2>2
  <2>4. QED
    BY <2>3
<1>6. o \in [1..n -> S]
  BY <1>5 DEF Arranged
<1>7. \A x \in S : \E k \in 1..n : o[k] = x
  <2> SUFFICES ASSUME NEW x \in S
               PROVE  o[rank[x]] = x /\ rank[x] \in 1..n
    OBVIOUS
  <2>1. rank[x] \in 1..n /\ o[rank[x]] \in S /\ rank[o[rank[x]]] = rank[x]
    BY <1>2, <1>5
  <2> HIDE DEF rank, o
  <2>2. QED
    BY <1>3, <2>1 DEF Injection, IsInjective
<1>8. ASSUME NEW i \in 1..n, NEW j \in 1..n, i < j
      PROVE  o[i] \in before[o[j]]
  <2>1. Cardinality(before[o[i]]) = i - 1 /\ Cardinality(before[o[j]]) = j - 1
    BY <1>2, <1>5
  <2>2. Cardinality(before[o[i]]) < Cardinality(before[o[j]])
    BY <1>8, <2>1
  <2>3. o[i] \in S /\ o[j] \in S
    BY <1>5
  <2> HIDE DEF o
  <2>4. QED
    BY <2>2, <2>3, OrderedRanks
<1>9. o \in Seq(S) /\ Len(o) = n
  <2> HIDE DEF o
  <2>1. QED
    BY <1>1, <1>6
<1>10. QED
  BY <1>1, <1>6, <1>7, <1>8, <1>9 DEF Through
--------------------------------------------------------------------------------
\* Numbers in ascending order.
Ascends(o, m, S) ==
  /\ m \in Nat /\ o \in [1..m -> S]
  /\ \A x \in S : \E k \in 1..m : o[k] = x
  /\ \A i, j \in 1..m : i < j => o[i] < o[j]

\* The numbers below each number order a finite set of numbers.
LEMMA AscendingOrdered ==
  ASSUME NEW S \in SUBSET Int, IsFiniteSet(S)
  PROVE  Ordered(S, [x \in S |-> {y \in S : y < x}])
<1> DEFINE before == [x \in S |-> {y \in S : y < x}]
<1>1. before \in [S -> SUBSET S] /\ \A x \in S : before[x] = {y \in S : y < x}
  OBVIOUS
<1> HIDE DEF before
<1>2. \A x, y \in S : x \in before[y] <=> x < y
  BY <1>1
<1>0. /\ \A x \in S : x \in Int
      /\ \A x, y, z \in Int : x < y /\ y < z => x < z
      /\ \A x \in Int : ~(x < x)
      /\ \A x, y \in Int : x = y \/ x < y \/ y < x
  OBVIOUS
<1>3. \A x, y \in S : x \in before[y] => before[x] \subseteq before[y]
  <2> SUFFICES ASSUME NEW x \in S, NEW y \in S, x \in before[y], NEW z \in before[x]
               PROVE  z \in before[y]
    OBVIOUS
  <2>1. z \in S /\ z < x /\ x < y
    BY <1>1
  <2>2. QED
    BY <1>0, <1>2, <2>1, Zenon
<1>4. \A x \in S : x \notin before[x]
  BY <1>0, <1>2, Zenon
<1>5. \A x, y \in S : x = y \/ x \in before[y] \/ y \in before[x]
  BY <1>0, <1>2, Zenon
<1>6. QED
  BY <1>1, <1>3, <1>4, <1>5 DEF Ordered, before

\* A list that ascends through a set of numbers is the set in ascending order.
LEMMA AscendingIs ==
  ASSUME NEW S \in SUBSET Int, IsFiniteSet(S), NEW m, NEW o, Ascends(o, m, S)
  PROVE  Ascending(S) = o /\ m = Cardinality(S)
<1> DEFINE before == [x \in S |-> {y \in S : y < x}]
<1>1. Through(o, m, S, before)
  BY DEF Ascends, Through
<1>2. Ordered(S, before)
  BY AscendingOrdered
<1> HIDE DEF before
<1>3. Arranged(S, before) = o /\ m = Cardinality(S)
  BY <1>1, <1>2, ArrangedIs
<1>4. QED
  BY <1>3 DEF Ascending, before

\* Every finite set of numbers can be listed in ascending order.
LEMMA AscendingGoesThrough ==
  ASSUME NEW S \in SUBSET Int, IsFiniteSet(S)
  PROVE  /\ Ascends(Ascending(S), Cardinality(S), S)
         /\ Ascending(S) \in Seq(S) /\ Len(Ascending(S)) = Cardinality(S)
<1> DEFINE before == [x \in S |-> {y \in S : y < x}]
           o == Arranged(S, before)
<1>1. \A x, y \in S : x \in before[y] => x < y
  OBVIOUS
<1>2. Ordered(S, before)
  BY AscendingOrdered
<1> HIDE DEF before
<1>3. Through(o, Cardinality(S), S, before) /\ o \in Seq(S) /\ Len(o) = Cardinality(S)
  BY <1>2, ArrangedGoesThrough
<1> HIDE DEF o
<1>4. Ascends(o, Cardinality(S), S)
  BY <1>1, <1>3 DEF Through, Ascends
<1>5. Ascending(S) = o
  BY DEF Ascending, o, before
<1>6. QED
  BY <1>3, <1>4, <1>5
--------------------------------------------------------------------------------
\* f goes up through the positions of s that are in spots.
Climbs(f, m, s, spots) == Ascends(f, m, spots \cap DOMAIN s)

\* The positions of a list are a finite set of numbers.
LEMMA PositionsFinite ==
  ASSUME NEW T, NEW s \in Seq(T), NEW spots
  PROVE  spots \cap DOMAIN s \in SUBSET Int /\ IsFiniteSet(spots \cap DOMAIN s)
<1>1. DOMAIN s = 1..Len(s) /\ Len(s) \in Nat
  BY LenProperties
<1>2. IsFiniteSet(1..Len(s))
  BY <1>1, FS_Interval
<1>3. spots \cap DOMAIN s \in SUBSET (1..Len(s))
  BY <1>1
<1>4. QED
  BY <1>1, <1>2, <1>3, FS_Subset

\* What is picked is found by going up through the positions.
LEMMA PickIs ==
  ASSUME NEW T, NEW s \in Seq(T), NEW spots, NEW m, NEW f, Climbs(f, m, s, spots)
  PROVE  Pick(s, spots) = [k \in 1..m |-> s[f[k]]]
<1> DEFINE S == spots \cap DOMAIN s
<1>1. S \in SUBSET Int /\ IsFiniteSet(S)
  BY PositionsFinite
<1>2. Ascends(f, m, S)
  BY DEF Climbs
<1>3. Ascending(S) = f
  <2> HIDE DEF S
  <2>1. QED
    BY <1>1, <1>2, AscendingIs
<1>4. Pick(s, spots) = [k \in DOMAIN f |-> s[f[k]]]
  BY <1>3 DEF Pick
<1>5. DOMAIN f = 1..m
  BY <1>2 DEF Ascends
<1>6. QED
  BY <1>4, <1>5

\* The entries that are picked, with their positions.
LEMMA PickClimbs ==
  ASSUME NEW T, NEW s \in Seq(T), NEW spots
  PROVE  /\ Pick(s, spots) \in Seq(T)
         /\ \E f : /\ Climbs(f, Len(Pick(s, spots)), s, spots)
                   /\ \A k \in 1..Len(Pick(s, spots)) : Pick(s, spots)[k] = s[f[k]]
<1> DEFINE S == spots \cap DOMAIN s
           f == Ascending(S)
           m == Cardinality(S)
           r == [k \in 1..m |-> s[f[k]]]
<1>1. S \in SUBSET Int /\ IsFiniteSet(S)
  BY PositionsFinite
<1>2. Ascends(f, m, S)
  BY <1>1, AscendingGoesThrough
<1> HIDE DEF f, m
<1>3. Climbs(f, m, s, spots)
  BY <1>2 DEF Climbs
<1>4. Pick(s, spots) = r
  BY <1>3, PickIs
<1>5. m \in Nat /\ \A k \in 1..m : s[f[k]] \in T
  BY <1>2, ElementOfSeq DEF Ascends
<1>6. r \in Seq(T) /\ Len(r) = m
  BY <1>5
<1>7. \A k \in 1..m : r[k] = s[f[k]]
  OBVIOUS
<1> HIDE DEF r
<1>8. QED
  BY <1>3, <1>4, <1>6, <1>7

\* The members of what is picked.
LEMMA PickMembers ==
  ASSUME NEW T, NEW s \in Seq(T), NEW spots
  PROVE  ToSet(Pick(s, spots)) = {s[i] : i \in spots \cap DOMAIN s}
<1> DEFINE r == Pick(s, spots)
<1>1. PICK f : /\ Climbs(f, Len(r), s, spots)
               /\ \A k \in 1..Len(r) : r[k] = s[f[k]]
  BY PickClimbs
<1>2. r \in Seq(T) /\ DOMAIN r = 1..Len(r)
  BY PickClimbs, LenProperties
<1> HIDE DEF r
<1>3. ToSet(r) = {s[i] : i \in spots \cap DOMAIN s}
  BY <1>1, <1>2, SMTT(30) DEF ToSet, Climbs, Ascends
<1>4. QED
  BY <1>3 DEF r

\* Only the positions of the list count.
LEMMA PickInside ==
  ASSUME NEW s, NEW spots, NEW bt, spots \cap DOMAIN s = bt \cap DOMAIN s
  PROVE  Pick(s, spots) = Pick(s, bt)
BY DEF Pick

\* A finite set of numbers has a least and a greatest member.
LEMMA Extremes ==
  ASSUME NEW S \in SUBSET Int, IsFiniteSet(S), S # {}
  PROVE  /\ Min(S) \in S /\ \A x \in S : Min(S) <= x
         /\ Max(S) \in S /\ \A x \in S : Max(S) >= x
<1> DEFINE o == Ascending(S)
           m == Cardinality(S)
<1>1. Ascends(o, m, S)
  BY AscendingGoesThrough
<1> HIDE DEF o, m
<1>2. m \in Nat /\ 1 \in 1..m /\ m \in 1..m
  <2>1. PICK x \in S : TRUE
    OBVIOUS
  <2>2. PICK k \in 1..m : o[k] = x
    BY <1>1, <2>1 DEF Ascends
  <2>3. m \in Nat
    BY <1>1 DEF Ascends
  <2>4. QED
    BY <2>2, <2>3
<1>3. \A x \in S : o[1] <= x /\ x <= o[m]
  <2> SUFFICES ASSUME NEW x \in S
               PROVE  o[1] <= x /\ x <= o[m]
    OBVIOUS
  <2>1. PICK k \in 1..m : o[k] = x
    BY <1>1 DEF Ascends
  <2>2. \A i, j \in 1..m : i < j => o[i] < o[j]
    BY <1>1 DEF Ascends
  <2>3. \A i \in 1..m : o[i] \in Int
    BY <1>1 DEF Ascends
  <2>4. o[1] <= o[k]
    <3>1. k = 1 \/ 1 < k
      BY <1>2
    <3>2. QED
      BY <1>2, <2>2, <2>3, <3>1
  <2>5. o[k] <= o[m]
    <3>1. k = m \/ k < m
      BY <1>2
    <3>2. QED
      BY <1>2, <2>2, <2>3, <3>1
  <2>6. QED
    BY <2>1, <2>4, <2>5
<1>4. o[1] \in S /\ o[m] \in S
  BY <1>1, <1>2 DEF Ascends
<1>5. Min(S) \in S /\ \A x \in S : Min(S) <= x
  BY <1>3, <1>4 DEF Min
<1>6. Max(S) \in S /\ \A x \in S : Max(S) >= x
  BY <1>3, <1>4 DEF Max
<1>7. QED
  BY <1>5, <1>6

\* The larger of two numbers.
LEMMA AtLeast ==
  ASSUME NEW x \in Int
  PROVE  Max({1, x}) = IF x >= 1 THEN x ELSE 1
<1>1. IsFiniteSet({1, x})
  <2>1. IsFiniteSet({1}) /\ {1, x} = {1} \cup {x}
    BY FS_Singleton
  <2>2. QED
    BY <2>1, FS_AddElement
<1>2. Max({1, x}) \in {1, x} /\ \A y \in {1, x} : Max({1, x}) >= y
  BY <1>1, Extremes
<1>3. QED
  BY <1>2

\* The first entry of each value is kept.
LEMMA UniqueFacts ==
  ASSUME NEW T, NEW s \in Seq(T)
  PROVE  Unique(s) \in Seq(T) /\ ToSet(Unique(s)) = ToSet(s)
<1> DEFINE spots == {i \in DOMAIN s : \A j \in DOMAIN s : j < i => s[j] # s[i]}
<1>1. /\ Pick(s, spots) \in Seq(T) /\ Unique(s) = Pick(s, spots)
      /\ ToSet(Pick(s, spots)) = {s[i] : i \in spots \cap DOMAIN s}
  BY PickClimbs, PickMembers DEF Unique
<1>2. ASSUME NEW i \in DOMAIN s
      PROVE  \E j \in spots : s[j] = s[i]
  <2> DEFINE P == {j \in DOMAIN s : s[j] = s[i]}
  <2>1. P \in SUBSET Nat /\ P # {}
    BY LenProperties
  <2>2. PICK j \in P : \A l \in P : j <= l
    BY <2>1, LeastNumber
  <2>3. DOMAIN s \in SUBSET Nat
    BY LenProperties
  <2>4. QED
    BY <2>2, <2>3
<1>3. ToSet(Pick(s, spots)) = ToSet(s)
  BY <1>1, <1>2 DEF ToSet
<1>4. QED
  BY <1>1, <1>3

\* A list without repetitions has none.
LEMMA UniqueOnce ==
  ASSUME NEW T, NEW s \in Seq(T)
  PROVE  IsInjective(Unique(s))
<1> DEFINE spots == {i \in DOMAIN s : \A j \in DOMAIN s : j < i => s[j] # s[i]}
           r == Unique(s)
<1>1. r = Pick(s, spots)
  BY DEF Unique
<1>2. \A i, j \in DOMAIN s : i \in spots /\ j \in spots /\ i < j => s[i] # s[j]
  OBVIOUS
<1> HIDE DEF spots
<1>3. r \in Seq(T) /\ DOMAIN r = 1..Len(r) /\ Len(r) \in Nat
  BY <1>1, PickClimbs, LenProperties
<1>4. PICK f : Climbs(f, Len(r), s, spots) /\ \A k \in 1..Len(r) : r[k] = s[f[k]]
  BY <1>1, PickClimbs
<1> HIDE DEF r
<1>5. ASSUME NEW a \in 1..Len(r), NEW b \in 1..Len(r), a < b
      PROVE  r[a] # r[b]
  <2>1. f[a] \in spots \cap DOMAIN s /\ f[b] \in spots \cap DOMAIN s /\ f[a] < f[b]
    BY <1>4, <1>5 DEF Climbs, Ascends
  <2>2. QED
    BY <1>2, <1>4, <2>1
<1>6. ASSUME NEW a \in 1..Len(r), NEW b \in 1..Len(r), r[a] = r[b]
      PROVE  a = b
  BY <1>3, <1>5, <1>6
<1>7. QED
  BY <1>3, <1>6 DEF IsInjective, r

\* Nothing is picked from nowhere.
LEMMA PickNone ==
  ASSUME NEW T, NEW s \in Seq(T), NEW spots, spots \cap DOMAIN s = {}
  PROVE  Pick(s, spots) = <<>>
<1>1. ToSet(Pick(s, spots)) = {} /\ Pick(s, spots) \in Seq(T)
  BY PickMembers, PickClimbs
<1> DEFINE r == Pick(s, spots)
<1>2. DOMAIN r = {} /\ r \in Seq(T)
  BY <1>1 DEF ToSet
<1> HIDE DEF r
<1>3. Len(r) = 0
  BY <1>2, LenProperties
<1>4. QED
  BY <1>2, <1>3, EmptySeq DEF r

\* What is picked from a list and another one after it.
LEMMA PickConcat ==
  ASSUME NEW T, NEW s \in Seq(T), NEW t \in Seq(T), NEW spots, NEW bt,
         \A i \in DOMAIN t : i \in bt <=> Len(s) + i \in spots
  PROVE  Pick(s \o t, spots) = Pick(s, spots) \o Pick(t, bt)
<1> DEFINE n == Len(s)
           a == Pick(s, spots)
           b == Pick(t, bt)
           k == Len(a)
           l == Len(b)
           u == s \o t
<1>0. \A i \in DOMAIN t : i \in bt <=> n + i \in spots
  OBVIOUS
<1>1. /\ n \in Nat /\ DOMAIN s = 1..n /\ Len(t) \in Nat /\ DOMAIN t = 1..Len(t)
      /\ u \in Seq(T) /\ Len(u) = n + Len(t) /\ DOMAIN u = 1..n + Len(t)
      /\ \A i \in 1..n : u[i] = s[i]
      /\ \A i \in 1..Len(t) : u[n + i] = t[i]
  <2>1. n \in Nat /\ DOMAIN s = 1..n /\ Len(t) \in Nat /\ DOMAIN t = 1..Len(t)
    BY LenProperties
  <2>2. /\ u \in Seq(T) /\ Len(u) = n + Len(t)
        /\ \A i \in 1..n + Len(t) : u[i] = IF i <= n THEN s[i] ELSE t[i - n]
    BY ConcatProperties
  <2>3. DOMAIN u = 1..n + Len(t)
    BY <2>2, LenProperties
  <2> HIDE DEF u
  <2>4. \A i \in 1..n : u[i] = s[i]
    BY <2>1, <2>2
  <2>5. \A i \in 1..Len(t) : u[n + i] = t[i]
    <3> SUFFICES ASSUME NEW i \in 1..Len(t)
                 PROVE  u[n + i] = t[i]
      OBVIOUS
    <3> DEFINE j == n + i
    <3>1. j \in 1..n + Len(t) /\ ~(j <= n) /\ j - n = i
      BY <2>1
    <3> HIDE DEF j, n
    <3>2. u[j] = t[i]
      BY <2>2, <3>1
    <3>3. QED
      BY <3>2 DEF j
  <2>6. QED
    BY <2>1, <2>2, <2>3, <2>4, <2>5
<1>2. PICK f : Climbs(f, k, s, spots) /\ \A i \in 1..k : a[i] = s[f[i]]
  BY PickClimbs
<1>3. PICK g : Climbs(g, l, t, bt) /\ \A i \in 1..l : b[i] = t[g[i]]
  BY PickClimbs
<1>4. a \in Seq(T) /\ b \in Seq(T)
  BY PickClimbs
<1> DEFINE m == k + l
           h == [i \in 1..m |-> IF i <= k THEN f[i] ELSE n + g[i - k]]
<1> HIDE DEF n, a, b, u
<1>5. k \in Nat /\ l \in Nat /\ m \in Nat
  BY <1>2, <1>3 DEF Climbs, Ascends
<1> HIDE DEF k, l
<1>6. \A i \in 1..k : h[i] = f[i] /\ f[i] \in 1..n /\ f[i] \in spots /\ i \in 1..m
  BY <1>1, <1>2, <1>5 DEF Climbs, Ascends
<1>7. ASSUME NEW i \in 1..m, ~(i <= k)
      PROVE  /\ i - k \in 1..l /\ h[i] = n + g[i - k] /\ g[i - k] \in 1..Len(t)
             /\ n + g[i - k] \in spots
  <2>1. i - k \in 1..l /\ h[i] = n + g[i - k]
    BY <1>5, <1>7
  <2>2. g[i - k] \in bt \cap DOMAIN t
    BY <1>3, <2>1 DEF Climbs, Ascends
  <2>3. QED
    BY <1>0, <1>1, <2>1, <2>2
<1>8. h \in [1..m -> spots \cap DOMAIN u]
  <2>1. ASSUME NEW i \in 1..m
        PROVE  h[i] \in spots \cap DOMAIN u
    <3>1. CASE i <= k
      <4>1. i \in 1..k
        BY <1>5, <3>1
      <4>2. h[i] = f[i] /\ f[i] \in 1..n /\ f[i] \in spots
        BY <1>6, <4>1
      <4>3. f[i] \in DOMAIN u
        BY <1>1, <4>2
      <4> HIDE DEF h
      <4>4. QED
        BY <4>2, <4>3
    <3>2. CASE ~(i <= k)
      <4>1. \A x \in 1..Len(t) : n + x \in 1..n + Len(t)
        BY <1>1
      <4>2. h[i] = n + g[i - k] /\ g[i - k] \in 1..Len(t) /\ n + g[i - k] \in spots
        BY <1>7, <3>2
      <4> HIDE DEF h
      <4>3. QED
        BY <1>1, <4>1, <4>2
    <3>3. QED
      BY <3>1, <3>2
  <2>2. QED
    BY <2>1
<1>9. ASSUME NEW x \in spots \cap DOMAIN u
      PROVE  \E i \in 1..m : h[i] = x
  <2>1. CASE x <= n
    <3>1. x \in spots \cap DOMAIN s
      BY <1>1, <2>1
    <3>2. PICK i \in 1..k : f[i] = x
      BY <1>2, <3>1 DEF Climbs, Ascends
    <3>3. QED
      BY <1>6, <3>2
  <2>2. CASE ~(x <= n)
    <3> DEFINE y == x - n
    <3>1. y \in 1..Len(t) /\ n + y = x
      BY <1>1, <2>2
    <3> HIDE DEF y
    <3>2. y \in bt \cap DOMAIN t
      BY <1>0, <1>1, <3>1
    <3>3. PICK i \in 1..l : g[i] = y
      BY <1>3, <3>2 DEF Climbs, Ascends
    <3>4. k + i \in 1..m /\ ~(k + i <= k) /\ k + i - k = i
      BY <1>5
    <3> DEFINE j == k + i
    <3> HIDE DEF h
    <3>5. j \in 1..m /\ ~(j <= k) /\ j - k = i
      BY <1>5, <3>4
    <3> HIDE DEF j
    <3>6. h[j] = n + g[i]
      BY <1>7, <3>5
    <3>7. QED
      BY <3>1, <3>3, <3>5, <3>6
  <2>3. QED
    BY <2>1, <2>2
<1>10. ASSUME NEW i \in 1..m, NEW j \in 1..m, i < j
       PROVE  h[i] < h[j]
  <2>1. CASE j <= k
    <3>1. i \in 1..k /\ j \in 1..k
      BY <1>5, <1>10, <2>1
    <3>2. f[i] < f[j]
      BY <1>2, <1>10, <3>1 DEF Climbs, Ascends
    <3>3. QED
      BY <1>6, <3>1, <3>2
  <2>2. CASE ~(j <= k) /\ i <= k
    <3>1. i \in 1..k
      BY <1>5, <2>2
    <3>2. h[i] \in 1..n
      BY <1>6, <3>1
    <3>3. h[j] = n + g[j - k] /\ g[j - k] \in 1..Len(t)
      BY <1>7, <2>2
    <3> HIDE DEF h
    <3>4. QED
      BY <1>1, <3>2, <3>3
  <2>3. CASE ~(j <= k) /\ ~(i <= k)
    <3>1. i - k \in 1..l /\ j - k \in 1..l /\ i - k < j - k
      BY <1>5, <1>7, <1>10, <2>3
    <3>2. g[i - k] < g[j - k]
      BY <1>3, <3>1 DEF Climbs, Ascends
    <3>3. h[i] = n + g[i - k] /\ h[j] = n + g[j - k] /\ g[i - k] \in 1..Len(t) /\ g[j - k] \in 1..Len(t)
      BY <1>7, <2>3
    <3> HIDE DEF h
    <3>4. QED
      BY <1>1, <3>2, <3>3
  <2>4. QED
    BY <2>1, <2>2, <2>3
<1>11. Pick(u, spots) = [i \in 1..m |-> u[h[i]]]
  <2>1. Climbs(h, m, u, spots)
    <3> HIDE DEF h, m
    <3>1. QED
      BY <1>5, <1>8, <1>9, <1>10 DEF Climbs, Ascends
  <2> HIDE DEF h, m
  <2>2. QED
    BY <1>1, <2>1, PickIs
<1>12. a \o b = [i \in 1..m |-> u[h[i]]]
  <2>1. /\ a \o b \in Seq(T) /\ Len(a \o b) = m
        /\ \A i \in 1..m : (a \o b)[i] = IF i <= k THEN a[i] ELSE b[i - k]
    BY <1>4, ConcatProperties DEF m, k, l
  <2> DEFINE c == a \o b
  <2> HIDE DEF c, h, m
  <2>2. ASSUME NEW i \in 1..m
        PROVE  c[i] = u[h[i]]
    <3>1. CASE i <= k
      <4>1. i \in 1..k
        BY <1>5, <3>1
      <4>2. c[i] = a[i] /\ a[i] = s[f[i]] /\ u[f[i]] = s[f[i]]
        BY <1>1, <1>2, <1>6, <2>1, <3>1, <4>1 DEF c
      <4>3. QED
        BY <1>6, <4>1, <4>2
    <3>2. CASE ~(i <= k)
      <4>1. /\ i - k \in 1..l /\ h[i] = n + g[i - k] /\ g[i - k] \in 1..Len(t)
        BY <1>7, <3>2
      <4>2. c[i] = b[i - k] /\ b[i - k] = t[g[i - k]]
        BY <1>3, <2>1, <3>2, <4>1 DEF c
      <4>3. u[n + g[i - k]] = t[g[i - k]]
        BY <1>1, <4>1
      <4>4. QED
        BY <4>1, <4>2, <4>3
    <3>3. QED
      BY <3>1, <3>2
  <2>3. DOMAIN c = 1..m /\ c = [i \in DOMAIN c |-> c[i]]
    BY <2>1, LenProperties DEF c
  <2>4. c = [i \in 1..m |-> u[h[i]]]
    BY <2>2, <2>3
  <2>5. QED
    BY <2>4 DEF c
<1>13. QED
  BY <1>11, <1>12 DEF a, b, u, n
--------------------------------------------------------------------------------
\* Counting up from 0 to n, with the property as a set.
LEMMA CountUp ==
  ASSUME NEW n \in Nat, NEW good, 0 \in good,
         \A k \in 0..n : k # n /\ k \in good => k + 1 \in good
  PROVE  \A k \in 0..n : k \in good
<1> DEFINE bad == {k \in 0..n : k \notin good}
<1>1. SUFFICES ASSUME bad # {}
               PROVE  FALSE
  OBVIOUS
<1>2. PICK k \in bad : \A j \in bad : k <= j
  <2>1. bad \in SUBSET Nat
    OBVIOUS
  <2> HIDE DEF bad
  <2>2. QED
    BY <1>1, <2>1, LeastNumber
<1>3. k \in 0..n /\ k \notin good /\ k # 0
  BY <1>2
<1> DEFINE j == k - 1
<1>4. j \in 0..n /\ j # n /\ j + 1 = k /\ ~(k <= j)
  BY <1>3
<1>5. j \in good
  BY <1>2, <1>4
<1>6. QED
  BY <1>3, <1>4, <1>5

\* f starts with base and goes on by step.
Recursion(f, n, V, base, step) ==
  /\ f \in [0..n -> V] /\ f[0] = base
  /\ \A k \in 1..n : f[k] = step[k][f[k - 1]]

\* A recursion along the numbers up to n has a solution.
LEMMA RecursionExists ==
  ASSUME NEW n \in Nat, NEW V, NEW base \in V, NEW step \in [1..n -> [V -> V]]
  PROVE  \E f : Recursion(f, n, V, base, step)
<1> DEFINE good == {k \in 0..n : \E f : Recursion(f, k, V, base, step)}
<1>1. 0 \in good
  <2> DEFINE f == [j \in 0..0 |-> base]
  <2>1. f \in [0..0 -> V] /\ f[0] = base
    OBVIOUS
  <2>0. \A j \in 1..0 : FALSE
    OBVIOUS
  <2>2. Recursion(f, 0, V, base, step)
    <3> HIDE DEF f
    <3>1. QED
      BY <2>0, <2>1 DEF Recursion
  <2>3. 0 \in 0..n
    OBVIOUS
  <2> HIDE DEF f
  <2>4. QED
    BY <2>2, <2>3
<1>2. ASSUME NEW k \in 0..n, k # n, k \in good
      PROVE  k + 1 \in good
  <2>1. PICK f : Recursion(f, k, V, base, step)
    BY <1>2
  <2> DEFINE m == k + 1
             g == [j \in 0..m |-> IF j = m THEN step[m][f[k]] ELSE f[j]]
  <2>2. m \in 1..n /\ m \in 0..n /\ m # 0 /\ m - 1 = k /\ k \in 0..m /\ k \in 0..k
    BY <1>2
  <2>3. \A j \in 0..m : j # m => j \in 0..k
    BY <2>2
  <2>4. f[k] \in V /\ step[m][f[k]] \in V
    BY <2>1, <2>2 DEF Recursion
  <2>5. g \in [0..m -> V]
    BY <2>1, <2>3, <2>4 DEF Recursion
  <2>6. g[0] = base
    BY <2>1, <2>2 DEF Recursion
  <2>7. ASSUME NEW j \in 1..m
        PROVE  g[j] = step[j][g[j - 1]]
    <3>1. CASE j = m
      <4>1. g[j] = step[m][f[k]] /\ g[k] = f[k]
        BY <2>2, <3>1
      <4>2. QED
        BY <2>2, <3>1, <4>1
    <3>2. CASE j # m
      <4>1. j \in 1..k /\ j \in 0..m /\ j - 1 \in 0..m /\ j - 1 # m
        BY <2>2, <3>2
      <4>2. g[j] = f[j] /\ g[j - 1] = f[j - 1]
        BY <3>2, <4>1
      <4>3. QED
        BY <2>1, <4>1, <4>2 DEF Recursion
    <3>3. QED
      BY <3>1, <3>2
  <2>8. Recursion(g, m, V, base, step)
    <3> HIDE DEF g, m
    <3>1. QED
      BY <2>5, <2>6, <2>7 DEF Recursion
  <2> HIDE DEF g
  <2>9. QED
    BY <2>2, <2>8
<1>3. n \in good
  <2>1. n \in 0..n
    OBVIOUS
  <2> HIDE DEF good
  <2>2. QED
    BY <1>1, <1>2, <2>1, CountUp
<1>4. QED
  BY <1>3
--------------------------------------------------------------------------------
\* The members of a list and another one after it.
LEMMA ToSetConcat ==
  ASSUME NEW T, NEW s \in Seq(T), NEW t \in Seq(T)
  PROVE  ToSet(s \o t) = ToSet(s) \cup ToSet(t)
<1> DEFINE u == s \o t
           n == Len(s)
           m == Len(t)
<1>1. /\ n \in Nat /\ m \in Nat /\ DOMAIN s = 1..n /\ DOMAIN t = 1..m
      /\ u \in Seq(T) /\ Len(u) = n + m
      /\ \A i \in 1..n + m : u[i] = IF i <= n THEN s[i] ELSE t[i - n]
  BY LenProperties, ConcatProperties
<1>2. DOMAIN u = 1..n + m
  BY <1>1, LenProperties
<1> HIDE DEF u, n, m
<1>3. \A i \in DOMAIN u : u[i] \in ToSet(s) \cup ToSet(t)
  <2> SUFFICES ASSUME NEW i \in 1..n + m
               PROVE  u[i] \in ToSet(s) \cup ToSet(t)
    BY <1>2
  <2>1. i <= n => i \in DOMAIN s /\ u[i] = s[i]
    BY <1>1
  <2>2. ~(i <= n) => i - n \in DOMAIN t /\ u[i] = t[i - n]
    BY <1>1
  <2>3. QED
    BY <2>1, <2>2 DEF ToSet
<1>4. \A i \in DOMAIN s : s[i] \in ToSet(u)
  <2> SUFFICES ASSUME NEW i \in DOMAIN s
               PROVE  s[i] \in ToSet(u)
    OBVIOUS
  <2>1. i \in DOMAIN u /\ u[i] = s[i]
    BY <1>1, <1>2
  <2>2. QED
    BY <2>1 DEF ToSet
<1>5. \A i \in DOMAIN t : t[i] \in ToSet(u)
  <2> SUFFICES ASSUME NEW i \in DOMAIN t
               PROVE  t[i] \in ToSet(u)
    OBVIOUS
  <2> DEFINE j == n + i
  <2>1. j \in 1..n + m /\ ~(j <= n) /\ j - n = i
    BY <1>1
  <2> HIDE DEF j
  <2>2. u[j] = t[i]
    BY <1>1, <2>1
  <2>3. QED
    BY <1>2, <2>1, <2>2 DEF ToSet
<1>6. QED
  BY <1>3, <1>4, <1>5 DEF ToSet, u

\* F joins the lists of s one by one.
Joins(F, s, T) ==
  /\ F \in [0..Len(s) -> Seq(T)] /\ F[0] = <<>>
  /\ \A k \in 1..Len(s) : F[k] = F[k - 1] \o s[k]

\* FlattenSeq joins the lists.
LEMMA FlatIs ==
  ASSUME NEW T, NEW s \in Seq(Seq(T)), NEW F, Joins(F, s, T)
  PROVE  FlattenSeq(s) = F[Len(s)]
<1> DEFINE n == Len(s)
           Rec(f) == f = [i \in 1..n |-> IF i = 1 THEN s[i] ELSE f[i - 1] \o s[i]]
           g == CHOOSE flatten : Rec(flatten)
           f == [i \in 1..n |-> F[i]]
<1>1. n \in Nat /\ \A k \in 1..n : s[k] \in Seq(T)
  BY LenProperties, ElementOfSeq
<1>2. F \in [0..n -> Seq(T)] /\ F[0] = <<>> /\ \A k \in 1..n : F[k] = F[k - 1] \o s[k]
  BY DEF Joins
<1>3. CASE n = 0
  <2>1. s = <<>>
    BY <1>3, EmptySeq
  <2>2. FlattenSeq(s) = s
    BY <1>3 DEF FlattenSeq
  <2>3. QED
    BY <1>2, <1>3, <2>1, <2>2
<1>4. CASE n # 0
  <2>1. FlattenSeq(s) = g[n]
    BY <1>4 DEF FlattenSeq
  <2> HIDE DEF n
  <2>0. 1 \in 1..n /\ F[1] = s[1]
    <3>1. 1 \in 1..n /\ 1 - 1 = 0
      BY <1>1, <1>4
    <3>2. F[1] = F[0] \o s[1] /\ s[1] \in Seq(T)
      BY <1>1, <1>2, <3>1
    <3>3. QED
      BY <1>2, <3>1, <3>2, ConcatEmptySeq
  <2>2. Rec(f)
    <3>1. ASSUME NEW i \in 1..n
          PROVE  F[i] = IF i = 1 THEN s[i] ELSE f[i - 1] \o s[i]
      <4>1. CASE i = 1
        BY <2>0, <4>1
      <4>2. CASE i # 1
        <5>1. i - 1 \in 1..n
          BY <1>1, <4>2
        <5>2. f[i - 1] = F[i - 1]
          BY <5>1
        <5>3. QED
          BY <1>2, <4>2, <5>2
      <4>3. QED
        BY <4>1, <4>2
    <3>2. QED
      BY <3>1
  <2>3. Rec(g)
    <3> HIDE DEF Rec
    <3>1. QED
      BY <2>2
  <2>4. \A i \in 1..n : g[i] = IF i = 1 THEN s[i] ELSE g[i - 1] \o s[i]
    <3> HIDE DEF g
    <3>1. QED
      BY <2>3
  <2> HIDE DEF g, Rec
  <2> DEFINE good == {k \in 0..n : k # 0 => g[k] = F[k]}
  <2>5. 0 \in good
    BY <1>1
  <2>6. ASSUME NEW k \in 0..n, k # n, k \in good
        PROVE  k + 1 \in good
    <3> DEFINE m == k + 1
    <3>1. m \in 0..n /\ m \in 1..n /\ m - 1 = k
      BY <1>1, <2>6
    <3> HIDE DEF m
    <3>2. g[m] = F[m]
      <4>1. CASE m = 1
        BY <2>0, <2>4, <4>1
      <4>2. CASE m # 1
        <5>1. k # 0
          BY <3>1, <4>2
        <5>2. g[k] = F[k]
          BY <2>6, <5>1
        <5>3. QED
          BY <1>2, <2>4, <3>1, <4>2, <5>2
      <4>3. QED
        BY <4>1, <4>2
    <3>3. QED
      BY <3>1, <3>2 DEF m
  <2>7. \A k \in 0..n : k \in good
    <3> HIDE DEF good
    <3>1. QED
      BY <1>1, <2>5, <2>6, CountUp
  <2>8. n \in 0..n
    BY <1>1
  <2>9. QED
    BY <1>4, <2>1, <2>7, <2>8 DEF n
<1>5. QED
  BY <1>3, <1>4

\* The lists can be joined.
LEMMA FlatJoins ==
  ASSUME NEW T, NEW s \in Seq(Seq(T))
  PROVE  \E F : Joins(F, s, T)
<1> DEFINE n == Len(s)
           V == Seq(T)
           e == <<>>
           step == [k \in 1..n |-> [t \in V |-> t \o s[k]]]
<1>1. n \in Nat /\ \A k \in 1..n : s[k] \in V
  BY LenProperties, ElementOfSeq
<1>2. \A k \in 1..n, t \in V : t \o s[k] \in V
  BY <1>1, ConcatProperties
<1>3. step \in [1..n -> [V -> V]] /\ \A k \in 1..n, t \in V : step[k][t] = t \o s[k]
  BY <1>2
<1>4. e \in V
  BY EmptySeq
<1> HIDE DEF step, V, e
<1>5. PICK F : Recursion(F, n, V, e, step)
  BY <1>1, <1>3, <1>4, RecursionExists
<1>6. \A k \in 1..n : F[k] = F[k - 1] \o s[k]
  <2> SUFFICES ASSUME NEW k \in 1..n
               PROVE  F[k] = F[k - 1] \o s[k]
    OBVIOUS
  <2>1. k - 1 \in 0..n
    BY <1>1
  <2>2. F[k - 1] \in V /\ F[k] = step[k][F[k - 1]]
    BY <1>5, <2>1 DEF Recursion
  <2>3. QED
    BY <1>3, <2>2
<1>7. Joins(F, s, T)
  BY <1>5, <1>6 DEF Joins, Recursion, V, e
<1>8. QED
  BY <1>7

\* The type of what is joined.
LEMMA FlatType ==
  ASSUME NEW T, NEW s \in Seq(Seq(T))
  PROVE  FlattenSeq(s) \in Seq(T)
<1>1. PICK F : Joins(F, s, T)
  BY FlatJoins
<1>2. Len(s) \in 0..Len(s)
  BY LenProperties
<1>3. FlattenSeq(s) = F[Len(s)]
  BY <1>1, FlatIs
<1>4. QED
  BY <1>1, <1>2, <1>3 DEF Joins

\* Of no lists nothing is joined.
LEMMA FlatNone == FlattenSeq(<<>>) = <<>>
BY DEF FlattenSeq

\* One list is joined to itself.
LEMMA FlatOne ==
  ASSUME NEW T, NEW t \in Seq(T)
  PROVE  FlattenSeq(<<t>>) = t
<1> DEFINE s == <<t>>
           F == [k \in 0..1 |-> IF k = 0 THEN <<>> ELSE t]
<1>1. s \in Seq(Seq(T)) /\ Len(s) = 1 /\ s[1] = t
  OBVIOUS
<1>2. F \in [0..1 -> Seq(T)] /\ F[0] = <<>> /\ F[1] = t
  BY EmptySeq
<1> HIDE DEF s, F
<1>3. \A k \in 1..1 : F[k] = F[k - 1] \o s[k]
  <2>1. <<>> \o t = t
    BY ConcatEmptySeq
  <2>2. \A k \in 1..1 : k = 1 /\ k - 1 = 0
    OBVIOUS
  <2>3. QED
    BY <1>1, <1>2, <2>1, <2>2
<1>4. Joins(F, s, T)
  BY <1>1, <1>2, <1>3 DEF Joins
<1>5. FlattenSeq(s) = F[1]
  BY <1>1, <1>4, FlatIs
<1>6. QED
  BY <1>2, <1>5 DEF s

\* How lists are joined does not depend on the order it is done in.
LEMMA JoinAnyOrder ==
  ASSUME NEW T
  PROVE  /\ \A x, y, z \in Seq(T) : (x \o y) \o z = x \o (y \o z)
         /\ \A x, y \in Seq(T) : x \o y \in Seq(T)
<1>1. \A x, y, z \in Seq(T) : (x \o y) \o z = x \o (y \o z)
  BY ConcatAssociative
<1>2. \A x, y \in Seq(T) : x \o y \in Seq(T)
  BY ConcatProperties
<1>3. QED
  BY <1>1, <1>2

\* What is joined from a list of lists and another one after it.
LEMMA FlatConcat ==
  ASSUME NEW T, NEW s \in Seq(Seq(T)), NEW t \in Seq(Seq(T))
  PROVE  FlattenSeq(s \o t) = FlattenSeq(s) \o FlattenSeq(t)
<1> DEFINE n == Len(s)
           m == Len(t)
           u == s \o t
           x == n + m
<1>1. /\ n \in Nat /\ m \in Nat /\ x \in Nat /\ u \in Seq(Seq(T)) /\ Len(u) = x
      /\ \A i \in 1..x : u[i] = IF i <= n THEN s[i] ELSE t[i - n]
  BY LenProperties, ConcatProperties
<1>2. /\ \A i \in 1..n : s[i] \in Seq(T)
      /\ \A i \in 1..m : t[i] \in Seq(T)
  BY ElementOfSeq
<1>3. PICK F : Joins(F, s, T)
  BY FlatJoins
<1>4. PICK G : Joins(G, t, T)
  BY FlatJoins
<1>5. FlattenSeq(s) = F[n] /\ FlattenSeq(t) = G[m]
  BY <1>3, <1>4, FlatIs
<1>6. /\ F \in [0..n -> Seq(T)] /\ F[0] = <<>> /\ \A k \in 1..n : F[k] = F[k - 1] \o s[k]
      /\ G \in [0..m -> Seq(T)] /\ G[0] = <<>> /\ \A k \in 1..m : G[k] = G[k - 1] \o t[k]
  BY <1>3, <1>4 DEF Joins
<1> DEFINE H == [k \in 0..x |-> IF k <= n THEN F[k] ELSE F[n] \o G[k - n]]
<1> HIDE DEF u
<1>7. F[n] \in Seq(T) /\ F[n] \o G[0] = F[n]
  <2>1. n \in 0..n
    BY <1>1
  <2>2. QED
    BY <1>6, <2>1, ConcatEmptySeq
<1>8. ASSUME NEW k \in 0..x
      PROVE  H[k] = (IF k <= n THEN F[k] ELSE F[n] \o G[k - n]) /\ H[k] \in Seq(T)
  <2>1. CASE k <= n
    BY <1>1, <1>6, <2>1
  <2>2. CASE ~(k <= n)
    <3>1. k - n \in 0..m
      BY <1>1, <2>2
    <3>2. F[n] \o G[k - n] \in Seq(T)
      BY <1>6, <1>7, <3>1, ConcatProperties
    <3>3. QED
      BY <2>2, <3>2
  <2>3. QED
    BY <2>1, <2>2
<1>9. H \in [0..x -> Seq(T)]
  BY <1>8
<1> HIDE DEF H
<1>10. ASSUME NEW k \in 1..x
       PROVE  H[k] = H[k - 1] \o u[k]
  <2> DEFINE l == k - 1
  <2>1. l \in 0..x /\ k \in 0..x
    BY <1>1
  <2>2. CASE k <= n
    <3>1. k \in 1..n /\ l <= n
      BY <1>1, <2>2
    <3>2. H[k] = F[k] /\ H[l] = F[l] /\ u[k] = s[k]
      BY <1>1, <1>8, <2>1, <2>2, <3>1
    <3>3. QED
      BY <1>6, <3>1, <3>2
  <2>3. CASE ~(k <= n)
    <3> DEFINE j == k - n
               i == j - 1
    <3>1. j \in 1..m /\ i \in 0..m /\ j \in 0..m /\ i = l - n
      BY <1>1, <2>3
    <3>2. H[k] = F[n] \o G[j] /\ u[k] = t[j]
      BY <1>1, <1>8, <2>1, <2>3
    <3>3. H[l] = F[n] \o G[i]
      <4>1. CASE l <= n
        <5>1. l = n /\ i = 0
          <6>1. \A a, b \in Nat : ~(a <= b) /\ a - 1 <= b => a - 1 = b /\ a - b - 1 = 0
            OBVIOUS
          <6>2. n \in Nat /\ k \in Nat
            BY <1>1
          <6>3. QED
            BY <2>3, <4>1, <6>1, <6>2, Zenon
        <5>2. H[l] = F[n]
          BY <1>8, <2>1, <4>1, <5>1
        <5>3. QED
          BY <1>7, <5>1, <5>2
      <4>2. CASE ~(l <= n)
        <5> HIDE DEF l, i
        <5>1. QED
          BY <1>8, <2>1, <3>1, <4>2
      <4>3. QED
        BY <4>1, <4>2
    <3>4. G[j] = G[i] \o t[j] /\ G[i] \in Seq(T) /\ t[j] \in Seq(T)
      BY <1>2, <1>6, <3>1
    <3> HIDE DEF i, j, l
    <3>5. F[n] \o (G[i] \o t[j]) = (F[n] \o G[i]) \o t[j]
      <4>1. F[n] \in Seq(T) /\ G[i] \in Seq(T) /\ t[j] \in Seq(T)
        BY <1>7, <3>4
      <4>2. \A a, b, c \in Seq(T) : (a \o b) \o c = a \o (b \o c)
        BY JoinAnyOrder
      <4> DEFINE a == F[n]
                 b == G[i]
                 c == t[j]
      <4>3. (a \o b) \o c = a \o (b \o c)
        <5> HIDE DEF a, b, c
        <5>1. a \in Seq(T) /\ b \in Seq(T) /\ c \in Seq(T)
          BY <4>1 DEF a, b, c
        <5>2. QED
          BY <4>2, <5>1, Zenon
      <4>4. QED
        BY <4>3
    <3>6. H[k] = H[l] \o u[k]
      BY <3>2, <3>3, <3>4, <3>5
    <3>7. QED
      BY <3>6 DEF l
  <2>4. QED
    BY <2>2, <2>3
<1>11. H[0] = <<>> /\ H[x] = F[n] \o G[m]
  <2>1. 0 \in 0..x /\ x \in 0..x /\ 0 <= n /\ (x <= n => m = 0 /\ x = n) /\ x - n = m
    BY <1>1
  <2>2. H[0] = <<>>
    BY <1>6, <1>8, <2>1
  <2>3. H[x] = F[n] \o G[m]
    <3>1. CASE x <= n
      <4>1. H[x] = F[n]
        BY <1>8, <2>1, <3>1
      <4>2. QED
        BY <1>7, <2>1, <3>1, <4>1
    <3>2. CASE ~(x <= n)
      <4>1. H[x] = F[n] \o G[x - n]
        BY <1>8, <2>1, <3>2
      <4>2. QED
        BY <2>1, <4>1
    <3>3. QED
      BY <3>1, <3>2
  <2>4. QED
    BY <2>2, <2>3
<1>12. Joins(H, u, T)
  BY <1>1, <1>9, <1>10, <1>11 DEF Joins
<1>13. FlattenSeq(u) = H[x]
  BY <1>1, <1>12, FlatIs
<1>14. QED
  BY <1>5, <1>11, <1>13 DEF u

\* The members of what is joined.
LEMMA FlatMembers ==
  ASSUME NEW T, NEW s \in Seq(Seq(T))
  PROVE  ToSet(FlattenSeq(s)) = UNION {ToSet(s[i]) : i \in DOMAIN s}
<1> DEFINE n == Len(s)
<1>1. n \in Nat /\ DOMAIN s = 1..n /\ \A i \in 1..n : s[i] \in Seq(T)
  BY LenProperties, ElementOfSeq
<1>2. PICK F : Joins(F, s, T)
  BY FlatJoins
<1>3. FlattenSeq(s) = F[n]
  BY <1>2, FlatIs
<1>4. F \in [0..n -> Seq(T)] /\ F[0] = <<>> /\ \A k \in 1..n : F[k] = F[k - 1] \o s[k]
  BY <1>2 DEF Joins
<1> HIDE DEF n
<1> DEFINE Of(k) == UNION {ToSet(s[i]) : i \in 1..k}
           good == {k \in 0..n : ToSet(F[k]) = Of(k)}
<1>5. 0 \in good
  <2>1. ToSet(<<>>) = {} /\ Of(0) = {} /\ 0 \in 0..n
    BY <1>1 DEF ToSet
  <2> HIDE DEF Of
  <2>2. QED
    BY <1>4, <2>1, Zenon
<1>6. ASSUME NEW k \in 0..n, k # n, k \in good
      PROVE  k + 1 \in good
  <2> DEFINE m == k + 1
  <2>1. m \in 0..n /\ m \in 1..n /\ m - 1 = k
    BY <1>1, <1>6
  <2>2. F[m] = F[k] \o s[m] /\ F[k] \in Seq(T) /\ s[m] \in Seq(T)
    BY <1>1, <1>4, <2>1
  <2>3. ToSet(F[k] \o s[m]) = ToSet(F[k]) \cup ToSet(s[m])
    BY <2>2, ToSetConcat
  <2>4. Of(m) = Of(k) \cup ToSet(s[m])
    <3>1. 1..m = (1..k) \cup {m}
      BY <1>1, <1>6
    <3> HIDE DEF m
    <3>2. QED
      BY <3>1
  <2> HIDE DEF Of, m
  <2>5. ToSet(F[m]) = Of(m)
    BY <1>6, <2>2, <2>3, <2>4
  <2>6. m \in good
    BY <2>1, <2>5
  <2>7. QED
    BY <2>6 DEF m
<1>7. n \in 0..n
  BY <1>1
<1>8. n \in good
  <2> HIDE DEF good
  <2>1. QED
    BY <1>1, <1>5, <1>6, <1>7, CountUp
<1>9. QED
  BY <1>1, <1>3, <1>8

\* A first list, and the ones after it.
LEMMA FlatCons ==
  ASSUME NEW T, NEW t \in Seq(T), NEW s \in Seq(Seq(T))
  PROVE  FlattenSeq(<<t>> \o s) = t \o FlattenSeq(s)
<1>1. <<t>> \in Seq(Seq(T))
  OBVIOUS
<1>2. FlattenSeq(<<t>> \o s) = FlattenSeq(<<t>>) \o FlattenSeq(s)
  BY <1>1, FlatConcat
<1>3. QED
  BY <1>2, FlatOne

\* What f makes of the entries of s, joined.
Gather(s, f) == FlattenSeq([i \in DOMAIN s |-> f[s[i]]])

\* What is gathered from a list and another one after it.
LEMMA GatherConcat ==
  ASSUME NEW S, NEW T, NEW s \in Seq(S), NEW t \in Seq(S), NEW f \in [S -> Seq(T)]
  PROVE  Gather(s \o t, f) = Gather(s, f) \o Gather(t, f)
<1> DEFINE u == s \o t
           n == Len(s)
           m == Len(t)
           a == [i \in DOMAIN s |-> f[s[i]]]
           b == [i \in DOMAIN t |-> f[t[i]]]
           c == [i \in DOMAIN u |-> f[u[i]]]
<1>1. /\ n \in Nat /\ m \in Nat /\ DOMAIN s = 1..n /\ DOMAIN t = 1..m
      /\ u \in Seq(S) /\ Len(u) = n + m
      /\ \A i \in 1..n + m : u[i] = IF i <= n THEN s[i] ELSE t[i - n]
  BY LenProperties, ConcatProperties
<1>2. DOMAIN u = 1..n + m
  BY <1>1, LenProperties
<1>3. (\A i \in 1..n : s[i] \in S) /\ (\A i \in 1..m : t[i] \in S)
  BY <1>1, ElementOfSeq
<1> HIDE DEF u, n, m
<1>4. /\ a \in Seq(Seq(T)) /\ Len(a) = n /\ \A i \in 1..n : a[i] = f[s[i]]
      /\ b \in Seq(Seq(T)) /\ Len(b) = m /\ \A i \in 1..m : b[i] = f[t[i]]
      /\ DOMAIN c = 1..n + m /\ \A i \in 1..n + m : c[i] = f[u[i]]
      /\ c = [i \in 1..n + m |-> c[i]]
  BY <1>1, <1>2, <1>3
<1> DEFINE ab == a \o b
<1> HIDE DEF a, b, c
<1>5. /\ ab \in Seq(Seq(T)) /\ Len(ab) = n + m
      /\ \A i \in 1..n + m : ab[i] = IF i <= n THEN a[i] ELSE b[i - n]
  <2>1. a \in Seq(Seq(T)) /\ b \in Seq(Seq(T))
    BY <1>4
  <2>2. /\ ab \in Seq(Seq(T)) /\ Len(ab) = Len(a) + Len(b)
        /\ \A i \in 1..Len(a) + Len(b) : ab[i] = IF i <= Len(a) THEN a[i] ELSE b[i - Len(a)]
    BY <2>1, ConcatProperties
  <2> HIDE DEF ab
  <2>3. QED
    BY <1>4, <2>2
<1> HIDE DEF ab
<1>6. ab = [i \in 1..n + m |-> ab[i]]
  <2>1. DOMAIN ab = 1..n + m
    BY <1>5, LenProperties
  <2>2. QED
    BY <1>5, <2>1
<1>7. \A i \in 1..n + m : c[i] = ab[i]
  <2> SUFFICES ASSUME NEW i \in 1..n + m
               PROVE  c[i] = ab[i]
    OBVIOUS
  <2>1. CASE i <= n
    <3>1. i \in 1..n
      BY <1>1, <2>1
    <3>2. QED
      BY <1>1, <1>4, <1>5, <2>1, <3>1
  <2>2. CASE ~(i <= n)
    <3>1. i - n \in 1..m
      BY <1>1, <2>2
    <3>2. QED
      BY <1>1, <1>4, <1>5, <2>2, <3>1
  <2>3. QED
    BY <2>1, <2>2
<1>8. c = ab
  BY <1>4, <1>6, <1>7
<1>9. FlattenSeq(ab) = FlattenSeq(a) \o FlattenSeq(b)
  BY <1>4, FlatConcat DEF ab
<1>10. QED
  BY <1>8, <1>9 DEF Gather, u, a, b, c

\* What is gathered has the type of what f makes.
LEMMA GatherType ==
  ASSUME NEW S, NEW T, NEW s \in Seq(S), NEW f \in [S -> Seq(T)]
  PROVE  Gather(s, f) \in Seq(T)
<1> DEFINE a == [i \in DOMAIN s |-> f[s[i]]]
<1>1. Len(s) \in Nat /\ DOMAIN s = 1..Len(s) /\ \A i \in 1..Len(s) : s[i] \in S
  BY LenProperties, ElementOfSeq
<1>2. a \in Seq(Seq(T))
  BY <1>1
<1> HIDE DEF a
<1>3. FlattenSeq(a) \in Seq(T)
  BY <1>2, FlatType
<1>4. QED
  BY <1>3 DEF Gather, a

\* From nothing nothing is gathered.
LEMMA GatherNone ==
  ASSUME NEW f
  PROVE  Gather(<<>>, f) = <<>>
<1>1. [i \in DOMAIN <<>> |-> f[<<>>[i]]] = <<>>
  OBVIOUS
<1>2. QED
  BY <1>1, FlatNone DEF Gather

\* From one entry what f makes of it.
LEMMA GatherOne ==
  ASSUME NEW S, NEW T, NEW x \in S, NEW f \in [S -> Seq(T)]
  PROVE  Gather(<<x>>, f) = f[x]
<1>1. [i \in DOMAIN <<x>> |-> f[<<x>>[i]]] = <<f[x]>>
  OBVIOUS
<1>2. f[x] \in Seq(T)
  OBVIOUS
<1>3. QED
  BY <1>1, <1>2, FlatOne DEF Gather

\* A first entry, and the ones after it.
LEMMA GatherCons ==
  ASSUME NEW S, NEW T, NEW s \in Seq(S), s # <<>>, NEW f \in [S -> Seq(T)]
  PROVE  Gather(s, f) = f[s[1]] \o Gather(Tail(s), f)
<1>1. Head(s) = s[1] /\ Len(s) \in Nat \ {0}
  BY EmptySeq, LenProperties
<1>2. s[1] \in S /\ Tail(s) \in Seq(S) /\ <<s[1]>> \in Seq(S)
  <2>1. s[1] \in S
    BY <1>1, ElementOfSeq
  <2>2. Tail(s) \in Seq(S)
    BY HeadTailProperties
  <2>3. QED
    BY <2>1, <2>2
<1>3. s = <<s[1]>> \o Tail(s)
  BY <1>1
<1> DEFINE a == <<s[1]>>
           b == Tail(s)
<1>4. Gather(a, f) = f[s[1]]
  BY <1>2, GatherOne
<1> HIDE DEF a, b
<1>5. a \in Seq(S) /\ b \in Seq(S) /\ s = a \o b
  BY <1>2, <1>3 DEF a, b
<1>6. Gather(a \o b, f) = Gather(a, f) \o Gather(b, f)
  BY <1>5, GatherConcat
<1>7. QED
  BY <1>4, <1>5, <1>6 DEF b

\* The beginning of a list that goes on.
LEMMA BeginningOf ==
  ASSUME NEW T, NEW s \in Seq(T), NEW t \in Seq(T)
  PROVE  IsPrefix(s, s \o t)
<1> DEFINE u == s \o t
           n == Len(s)
           m == Len(t)
<1>1. /\ n \in Nat /\ m \in Nat /\ u \in Seq(T) /\ Len(u) = n + m
      /\ \A i \in 1..n + m : u[i] = IF i <= n THEN s[i] ELSE t[i - n]
  BY LenProperties, ConcatProperties
<1> HIDE DEF u, n, m
<1>2. \A i \in 1..n : u[i] = s[i]
  BY <1>1
<1>3. Len(s) <= Len(u)
  BY <1>1 DEF n
<1>4. SubSeq(s, 1, n) = SubSeq(u, 1, n)
  BY <1>1, <1>2 DEF n
<1>5. IsPrefix(s, u)
  BY <1>3, <1>4 DEF IsPrefix, n
<1>6. QED
  BY <1>5 DEF u

\* A list of some of the members of a set.
LEMMA ListOf ==
  ASSUME NEW T, NEW s \in Seq(T), NEW S, ToSet(s) \subseteq S
  PROVE  s \in Seq(S)
<1>1. Len(s) \in Nat /\ s \in [1..Len(s) -> T] /\ \A i \in 1..Len(s) : s[i] \in ToSet(s)
  BY LenProperties DEF ToSet
<1>2. s \in [1..Len(s) -> S]
  BY <1>1
<1>3. QED
  BY <1>1, <1>2

\* Of two lists one after the other the first one's entries come first.
LEMMA UniqueConcat ==
  ASSUME NEW T, NEW s \in Seq(T), NEW t \in Seq(T)
  PROVE  \E rest \in Seq(T) : Unique(s \o t) = Unique(s) \o rest
<1> DEFINE u == s \o t
           fresh == {i \in DOMAIN u : \A j \in DOMAIN u : j < i => u[j] # u[i]}
           own == {i \in DOMAIN s : \A j \in DOMAIN s : j < i => s[j] # s[i]}
           later == {i \in DOMAIN t : Len(s) + i \in fresh}
<1>1. Unique(u) = Pick(u, fresh) /\ Unique(s) = Pick(s, own)
  BY DEF Unique
<1>2. \A i \in DOMAIN t : i \in later <=> Len(s) + i \in fresh
  OBVIOUS
<1>3. Pick(u, fresh) = Pick(s, fresh) \o Pick(t, later)
  <2> HIDE DEF fresh, later, own, u
  <2>1. \A p, q : (\A i \in DOMAIN t : i \in q <=> Len(s) + i \in p)
                   => Pick(s \o t, p) = Pick(s, p) \o Pick(t, q)
    <3> SUFFICES ASSUME NEW p, NEW q, \A i \in DOMAIN t : i \in q <=> Len(s) + i \in p
                 PROVE  Pick(s \o t, p) = Pick(s, p) \o Pick(t, q)
      OBVIOUS
    <3>1. QED
      BY PickConcat
  <2>2. Pick(s \o t, fresh) = Pick(s, fresh) \o Pick(t, later)
    BY <1>2, <2>1
  <2>3. QED
    BY <2>2 DEF u
<1>4. fresh \cap DOMAIN s = own \cap DOMAIN s
  <2>1. /\ Len(s) \in Nat /\ DOMAIN s = 1..Len(s) /\ Len(t) \in Nat
        /\ DOMAIN u = 1..Len(s) + Len(t) /\ \A i \in DOMAIN s : u[i] = s[i]
    BY ConcatProperties, LenProperties
  <2> HIDE DEF u
  <2>2. \A i \in DOMAIN s : i \in DOMAIN u /\ \A j \in DOMAIN u : j < i => j \in DOMAIN s
    BY <2>1
  <2>3. QED
    BY <2>1, <2>2
<1>5. Pick(s, fresh) = Pick(s, own) /\ Pick(t, later) \in Seq(T)
  <2> HIDE DEF fresh, own, later
  <2>1. QED
    BY <1>4, PickInside, PickClimbs
<1>6. QED
  BY <1>1, <1>3, <1>5

\* A list that is not empty has a last entry.
LEMMA LastOf ==
  ASSUME NEW T, NEW s \in Seq(T), s # <<>>
  PROVE  Last(s) \in ToSet(s)
<1>1. DOMAIN s = 1..Len(s) /\ Len(s) \in Nat \ {0}
  BY LenProperties, EmptySeq
<1>2. Len(s) \in DOMAIN s
  BY <1>1
<1>3. QED
  BY <1>2 DEF Last, ToSet

--------------------------------------------------------------------------------
\* Walks.

\* One more at the end is one more member.
LEMMA ToSetAppend ==
  ASSUME NEW T, NEW s \in Seq(T), NEW x \in T
  PROVE  ToSet(Append(s, x)) = ToSet(s) \cup {x}
<1> DEFINE one == <<x>>
<1>1. one \in Seq(T) /\ DOMAIN one = {1} /\ one[1] = x
  OBVIOUS
<1>2. Append(s, x) = s \o one
  BY AppendIsConcat
<1> HIDE DEF one
<1>3. ToSet(one) = {x}
  BY <1>1 DEF ToSet
<1>4. QED
  BY <1>1, <1>2, <1>3, ToSetConcat

\* The identifier at the head and the others.
LEMMA HeadAndTail ==
  ASSUME NEW T, NEW s \in Seq(T), s # <<>>
  PROVE  /\ Head(s) \in T /\ Tail(s) \in Seq(T) /\ Len(Tail(s)) = Len(s) - 1
         /\ ToSet(s) = {Head(s)} \cup ToSet(Tail(s))
<1>1. Head(s) \in T /\ Tail(s) \in Seq(T) /\ s = <<Head(s)>> \o Tail(s) /\ Len(Tail(s)) = Len(s) - 1
  BY HeadTailProperties
<1>2. <<Head(s)>> \in Seq(T) /\ ToSet(<<Head(s)>>) = {Head(s)}
  <2> DEFINE h == Head(s)
  <2>1. h \in T
    BY <1>1
  <2> HIDE DEF h
  <2>2. <<h>> \in Seq(T) /\ DOMAIN <<h>> = {1} /\ <<h>>[1] = h
    BY <2>1
  <2>3. ToSet(<<h>>) = {h}
    BY <2>2 DEF ToSet
  <2>4. QED
    BY <2>2, <2>3 DEF h
<1> DEFINE one == <<Head(s)>>
           rest == Tail(s)
<1> HIDE DEF one, rest
<1>3. ToSet(one \o rest) = ToSet(one) \cup ToSet(rest)
  BY <1>1, <1>2, ToSetConcat DEF one, rest
<1>4. QED
  BY <1>1, <1>2, <1>3 DEF one, rest

\* The next identifier h is taken: it is passed over, or visited, and what is below it
\* is left.
Takes(w, next, T, B, below) ==
  \E h \in T :
    /\ h \in ToSet(w.left)
    /\ \/ /\ h \notin B \/ h \in ToSet(w.visited)
          /\ Len(next.left) = Len(w.left) - 1
          /\ ToSet(next.visited) = ToSet(w.visited)
          /\ ToSet(w.left) = {h} \cup ToSet(next.left)
       \/ /\ h \in B \ ToSet(w.visited)
          /\ Len(next.left) = Len(below[h]) + Len(w.left) - 1
          /\ ToSet(next.visited) = ToSet(w.visited) \cup {h}
          /\ ToSet(w.left) \cup ToSet(below[h]) = {h} \cup ToSet(next.left)

\* A step takes the next identifier, or there is none.
LEMMA VisitStepFacts ==
  ASSUME NEW T, NEW B, NEW below \in [B -> Seq(T)],
         NEW w \in [left : Seq(T), visited : Seq(B)]
  PROVE  /\ VisitStep(w, below) \in [left : Seq(T), visited : Seq(B)]
         /\ w.left = <<>> => VisitStep(w, below) = w
         /\ w.left # <<>> => Takes(w, VisitStep(w, below), T, B, below)
<1>1. w.left \in Seq(T) /\ w.visited \in Seq(B) /\ DOMAIN below = B
  OBVIOUS
<1>2. CASE w.left = <<>>
  BY <1>2 DEF VisitStep
<1>3. CASE w.left # <<>>
  <2> DEFINE h == Head(w.left)
             rest == Tail(w.left)
             next == VisitStep(w, below)
  <2>1. h \in T /\ rest \in Seq(T) /\ Len(rest) = Len(w.left) - 1 /\ ToSet(w.left) = {h} \cup ToSet(rest)
    BY <1>1, <1>3, HeadAndTail
  <2>2. CASE h \notin B \/ h \in ToSet(w.visited)
    <3>1. next = [left |-> rest, visited |-> w.visited]
      BY <1>1, <1>3, <2>2 DEF VisitStep
    <3> HIDE DEF h, rest, next
    <3>2. next \in [left : Seq(T), visited : Seq(B)] /\ next.left = rest /\ next.visited = w.visited
      BY <1>1, <2>1, <3>1
    <3>3. QED
      BY <1>3, <2>1, <2>2, <3>2 DEF next, Takes
  <2>3. CASE h \in B \ ToSet(w.visited)
    <3>1. next = [left |-> below[h] \o rest, visited |-> Append(w.visited, h)]
      BY <1>1, <1>3, <2>3 DEF VisitStep
    <3> HIDE DEF h, rest, next
    <3>2. below[h] \in Seq(T)
      BY <2>3
    <3>3. /\ below[h] \o rest \in Seq(T) /\ Append(w.visited, h) \in Seq(B)
          /\ Len(below[h] \o rest) = Len(below[h]) + Len(rest)
      <4> DEFINE list == below[h]
      <4>1. list \in Seq(T)
        BY <3>2
      <4> HIDE DEF list
      <4>2. list \o rest \in Seq(T) /\ Len(list \o rest) = Len(list) + Len(rest)
        BY <2>1, <4>1, ConcatProperties
      <4>3. Append(w.visited, h) \in Seq(B)
        BY <1>1, <2>3, AppendProperties
      <4>4. QED
        BY <4>2, <4>3 DEF list
    <3>4. /\ next \in [left : Seq(T), visited : Seq(B)]
          /\ next.left = below[h] \o rest /\ next.visited = Append(w.visited, h)
      BY <3>1, <3>3
    <3>5. ToSet(below[h] \o rest) = ToSet(below[h]) \cup ToSet(rest)
      BY <2>1, <3>2, ToSetConcat
    <3>6. ToSet(Append(w.visited, h)) = ToSet(w.visited) \cup {h}
      BY <1>1, <2>3, ToSetAppend
    <3>7. Len(below[h]) \in Nat /\ Len(w.left) \in Nat /\ Len(rest) \in Nat
      BY <1>1, <2>1, <3>2, LenProperties
    <3>8. Len(next.left) = Len(below[h]) + Len(w.left) - 1
      BY <2>1, <3>3, <3>4, <3>7
    <3>9. ToSet(w.left) \cup ToSet(below[h]) = {h} \cup ToSet(next.left)
      BY <2>1, <3>4, <3>5
    <3>10. QED
      BY <1>3, <2>1, <2>3, <3>4, <3>6, <3>8, <3>9 DEF next, Takes
  <2>4. QED
    BY <2>1, <2>2, <2>3
<1>4. QED
  BY <1>2, <1>3

\* A set that holds, of the members of B, those of start and what is below its own.
Closed(S, B, start, below) ==
  /\ ToSet(start) \cap B \subseteq S
  /\ \A b \in S \cap B : ToSet(below[b]) \cap B \subseteq S

\* The walk visits the smallest of these sets.
THEOREM VisitedFacts ==
  ASSUME NEW T, NEW B, IsFiniteSet(B), NEW below \in [B -> Seq(T)], NEW start \in Seq(T)
  PROVE  /\ Visited(start, below) \in Seq(B)
         /\ Closed(ToSet(Visited(start, below)), B, start, below)
         /\ \A S : Closed(S, B, start, below) => ToSet(Visited(start, below)) \subseteq S
<1> DEFINE size == [b \in DOMAIN below |-> Len(below[b])]
           n == Len(start) + SumFunctionOnSet(size, DOMAIN below)
           V == [left : Seq(T), visited : Seq(B)]
           base == [left |-> start, visited |-> <<>>]
           step == [k \in 1..n |-> [w \in V |-> VisitStep(w, below)]]
           Rec(f) == f = [k \in 0..n |-> IF k = 0 THEN base ELSE VisitStep(f[k - 1], below)]
           g == CHOOSE f : Rec(f)
           Owed(w) == SumFunctionOnSet(size, B \ ToSet(w.visited))
<1>0. Visited(start, below) = g[n].visited
  BY DEF Visited
<1>1. /\ DOMAIN below = B /\ \A b \in B : below[b] \in Seq(T) /\ size[b] = Len(below[b]) /\ size[b] \in Nat
      /\ Len(start) \in Nat /\ DOMAIN size = B
  BY LenProperties
<1> HIDE DEF size
<1>2. /\ n \in Nat /\ n = Len(start) + SumFunctionOnSet(size, B)
      /\ \A U \in SUBSET B : SumFunctionOnSet(size, U) \in Nat
  <2>1. SumFunctionOnSet(size, B) \in Nat
    BY <1>1, SumNat
  <2>2. ASSUME NEW U \in SUBSET B
        PROVE  SumFunctionOnSet(size, U) \in Nat
    BY <1>1, FS_Subset, SumNat
  <2>3. QED
    BY <1>1, <2>1, <2>2
<1>3. base \in V /\ base.left = start /\ base.visited = <<>>
  OBVIOUS
<1>4. \A w \in V : VisitStep(w, below) \in V
  BY VisitStepFacts
<1>b. \A w \in V : w.left = <<>> => VisitStep(w, below) = w
  BY DEF VisitStep
<1>c. \A w \in V : w.left \in Seq(T) /\ Len(w.left) \in Nat /\ w.visited \in Seq(B)
  BY LenProperties
<1>d. \A w \in V : w.left # <<>> => Takes(w, VisitStep(w, below), T, B, below)
  BY VisitStepFacts
<1> HIDE DEF V, base, n
<1>5. step \in [1..n -> [V -> V]]
  BY <1>4
<1>6. PICK f : Recursion(f, n, V, base, step)
  <2> HIDE DEF step
  <2>1. QED
    BY <1>2, <1>3, <1>5, RecursionExists
<1>7. Rec(f)
  <2>1. f \in [0..n -> V] /\ f[0] = base /\ \A k \in 1..n : f[k] = step[k][f[k - 1]]
    BY <1>6 DEF Recursion
  <2>2. ASSUME NEW k \in 1..n
        PROVE  f[k] = VisitStep(f[k - 1], below)
    <3>1. k - 1 \in 0..n
      BY <1>2
    <3>2. f[k - 1] \in V
      BY <2>1, <3>1
    <3>3. QED
      BY <2>1, <3>2
  <2>3. \A k \in 0..n : k = 0 \/ k \in 1..n
    BY <1>2
  <2>4. QED
    BY <2>1, <2>2, <2>3
<1>8. Rec(g)
  <2> HIDE DEF Rec
  <2>1. QED
    BY <1>7
<1>9. g[0] = base /\ \A k \in 0..n : k # n => g[k + 1] = VisitStep(g[k], below)
  <2>1. \A k \in 0..n : g[k] = IF k = 0 THEN base ELSE VisitStep(g[k - 1], below)
    BY <1>8
  <2> HIDE DEF g
  <2>2. 0 \in 0..n
    BY <1>2
  <2>3. ASSUME NEW k \in 0..n, k # n
        PROVE  g[k + 1] = VisitStep(g[k], below)
    <3>1. k + 1 \in 0..n /\ k + 1 # 0 /\ (k + 1) - 1 = k
      BY <1>2, <2>3
    <3>2. QED
      BY <2>1, <3>1
  <2>4. QED
    BY <2>1, <2>2, <2>3
<1> HIDE DEF g, step, Rec
<1> DEFINE In(w) == ToSet(w.visited) \cup ToSet(w.left)
           Fair(w, k) ==
             /\ w \in V
             /\ w.left = <<>> \/ k + Len(w.left) + Owed(w) = n
             /\ ToSet(start) \cap B \subseteq In(w)
             /\ \A b \in ToSet(w.visited) : ToSet(below[b]) \cap B \subseteq In(w)
<1>10. ToSet(<<>>) = {}
  BY DEF ToSet
<1>a. \A w \in V : ToSet(w.visited) \subseteq B
  <2>1. ASSUME NEW s \in Seq(B)
        PROVE  ToSet(s) \subseteq B
    <3>1. \A i \in DOMAIN s : s[i] \in B
      BY LenProperties, ElementOfSeq
    <3>2. QED
      BY <3>1 DEF ToSet
  <2>2. QED
    BY <2>1 DEF V
<1>11. Fair(g[0], 0)
  <2>1. Owed(base) = SumFunctionOnSet(size, B)
    BY <1>3, <1>10
  <2>2. SumFunctionOnSet(size, B) \in Nat
    BY <1>2
  <2> HIDE DEF Owed
  <2>3. 0 + Len(base.left) + Owed(base) = n
    BY <1>1, <1>2, <1>3, <2>1, <2>2
  <2>4. ToSet(base.visited) = {} /\ ToSet(base.left) = ToSet(start)
    BY <1>3, <1>10
  <2>5. QED
    BY <1>3, <1>9, <2>3, <2>4
<1>12. ASSUME NEW k \in 0..n, k # n, Fair(g[k], k)
       PROVE  Fair(g[k + 1], k + 1)
  <2> DEFINE w == g[k]
             next == g[k + 1]
  <2>1. next = VisitStep(w, below) /\ w \in V
    BY <1>9, <1>12
  <2> HIDE DEF w, next
  <2>2. next \in V /\ (w.left = <<>> => next = w)
    BY <2>1, <1>4, <1>b
  <2>3. CASE w.left = <<>>
    <3>1. next = w
      BY <2>2, <2>3
    <3>2. Fair(w, k + 1)
      BY <1>12, <2>3 DEF w
    <3>3. QED
      BY <3>1, <3>2 DEF next
  <2>4. CASE w.left # <<>>
    <3>1. PICK h \in T :
            /\ h \in ToSet(w.left)
            /\ \/ /\ h \notin B \/ h \in ToSet(w.visited)
                  /\ Len(next.left) = Len(w.left) - 1
                  /\ ToSet(next.visited) = ToSet(w.visited)
                  /\ ToSet(w.left) = {h} \cup ToSet(next.left)
               \/ /\ h \in B \ ToSet(w.visited)
                  /\ Len(next.left) = Len(below[h]) + Len(w.left) - 1
                  /\ ToSet(next.visited) = ToSet(w.visited) \cup {h}
                  /\ ToSet(w.left) \cup ToSet(below[h]) = {h} \cup ToSet(next.left)
      BY <2>1, <2>4, <1>d DEF Takes
    <3>2. /\ k + Len(w.left) + Owed(w) = n
          /\ ToSet(start) \cap B \subseteq In(w)
          /\ \A b \in ToSet(w.visited) : ToSet(below[b]) \cap B \subseteq In(w)
      BY <1>12, <2>4 DEF w
    <3>3. Len(w.left) \in Nat /\ k \in Nat /\ Owed(w) \in Nat /\ Owed(next) \in Nat
      BY <1>2, <1>c, <2>1
    <3>4. In(w) \cap B \subseteq In(next)
      BY <3>1
    <3>5. ToSet(start) \cap B \subseteq In(next)
      BY <3>2, <3>4
    <3>6. \A b \in ToSet(next.visited) : ToSet(below[b]) \cap B \subseteq In(next)
      <4>1. \A b \in ToSet(w.visited) : ToSet(below[b]) \cap B \subseteq In(next)
        BY <3>2, <3>4
      <4>2. h \in ToSet(next.visited) \ ToSet(w.visited) => ToSet(below[h]) \subseteq In(next)
        BY <3>1
      <4>3. QED
        BY <3>1, <4>1, <4>2
    <3>7. (k + 1) + Len(next.left) + Owed(next) = n
      <4>1. CASE h \notin B \/ h \in ToSet(w.visited)
        <5>1. ToSet(next.visited) = ToSet(w.visited) /\ Len(next.left) = Len(w.left) - 1
          BY <3>1, <4>1
        <5>2. Owed(next) = Owed(w)
          BY <5>1
        <5> HIDE DEF Owed
        <5>3. QED
          BY <3>2, <3>3, <5>1, <5>2
      <4>2. CASE h \in B \ ToSet(w.visited)
        <5>1. Len(next.left) = Len(below[h]) + Len(w.left) - 1 /\ ToSet(next.visited) = ToSet(w.visited) \cup {h}
          BY <3>1, <4>2
        <5>2. Owed(w) = size[h] + Owed(next)
          <6> DEFINE U == B \ ToSet(w.visited)
          <6>1. B \ ToSet(next.visited) = U \ {h}
            BY <5>1
          <6>2. IsFiniteSet(U) /\ \A b \in U : size[b] \in Int
            BY <1>1, FS_Subset
          <6>3. h \in U
            BY <4>2
          <6> HIDE DEF U
          <6>4. SumFunctionOnSet(size, U) = size[h] + SumFunctionOnSet(size, U \ {h})
            BY <6>2, <6>3, SumTakesOut
          <6>5. QED
            BY <6>1, <6>4 DEF U
        <5>3. size[h] = Len(below[h]) /\ size[h] \in Nat
          BY <1>1, <4>2
        <5> DEFINE more == Len(below[h])
                   after == Len(next.left)
                   before == Len(w.left)
                   owes == Owed(w)
                   rest == Owed(next)
        <5>4. /\ more \in Nat /\ before \in Nat /\ owes \in Nat /\ rest \in Nat
              /\ k \in Nat /\ n \in Nat
              /\ after = more + before - 1 /\ owes = more + rest /\ k + before + owes = n
          BY <1>2, <3>2, <3>3, <5>1, <5>2, <5>3
        <5> HIDE DEF more, after, before, owes, rest
        <5>5. (k + 1) + after + rest = n
          BY <5>4
        <5>6. QED
          BY <5>5 DEF after, rest
      <4>3. QED
        BY <4>1, <4>2
    <3>8. QED
      BY <2>2, <3>5, <3>6, <3>7 DEF next
  <2>5. QED
    BY <2>3, <2>4
<1>13. Fair(g[n], n)
  <2> DEFINE good == {k \in 0..n : Fair(g[k], k)}
  <2>1. 0 \in good
    BY <1>2, <1>11
  <2>2. \A k \in 0..n : k # n /\ k \in good => k + 1 \in good
    <3>1. \A k \in 0..n : k # n => k + 1 \in 0..n
      BY <1>2
    <3> HIDE DEF Fair
    <3>2. QED
      BY <1>12, <3>1
  <2>3. n \in 0..n
    BY <1>2
  <2> HIDE DEF good
  <2>4. n \in good
    BY <1>2, <2>1, <2>2, <2>3, CountUp
  <2>5. QED
    BY <2>4 DEF good
<1>14. g[n].left = <<>>
  <2> DEFINE w == g[n]
  <2>1. w \in V /\ (w.left = <<>> \/ n + Len(w.left) + Owed(w) = n)
    BY <1>13
  <2>2. w.left \in Seq(T) /\ Owed(w) \in Nat
    BY <1>2, <2>1 DEF V
  <2> HIDE DEF w, Owed
  <2>3. Len(w.left) \in Nat /\ (Len(w.left) = 0 => w.left = <<>>)
    BY <2>2, EmptySeq, LenProperties
  <2>4. n + Len(w.left) + Owed(w) = n => Len(w.left) = 0
    BY <1>2, <2>2, <2>3
  <2>5. QED
    BY <2>1, <2>3, <2>4 DEF w
<1>15. ASSUME NEW S, Closed(S, B, start, below)
       PROVE  ToSet(g[n].visited) \subseteq S
  <2> DEFINE Inside(w) == w \in V /\ ToSet(w.visited) \subseteq S /\ ToSet(w.left) \cap B \subseteq S
             good == {k \in 0..n : Inside(g[k])}
  <2>1. 0 \in good
    BY <1>2, <1>3, <1>9, <1>10, <1>15 DEF Closed
  <2>2. ASSUME NEW k \in 0..n, k # n, k \in good
        PROVE  k + 1 \in good
    <3> DEFINE w == g[k]
               next == g[k + 1]
    <3>1. next = VisitStep(w, below) /\ w \in V /\ Inside(w) /\ k + 1 \in 0..n
      BY <1>2, <1>9, <2>2
    <3> HIDE DEF w, next
    <3>2. next \in V /\ (w.left = <<>> => next = w)
      BY <3>1, <1>4, <1>b
    <3>3. CASE w.left # <<>>
      <4>1. PICK h \in T :
              /\ h \in ToSet(w.left)
              /\ \/ /\ h \notin B \/ h \in ToSet(w.visited)
                    /\ ToSet(next.visited) = ToSet(w.visited)
                    /\ ToSet(w.left) = {h} \cup ToSet(next.left)
                 \/ /\ h \in B \ ToSet(w.visited)
                    /\ ToSet(next.visited) = ToSet(w.visited) \cup {h}
                    /\ ToSet(w.left) \cup ToSet(below[h]) = {h} \cup ToSet(next.left)
        BY <3>1, <3>3, <1>d DEF Takes
      <4>2. h \in B => h \in S /\ ToSet(below[h]) \cap B \subseteq S
        BY <1>15, <3>1, <4>1 DEF Closed
      <4>3. ToSet(next.visited) \subseteq S /\ ToSet(next.left) \cap B \subseteq S
        BY <3>1, <4>1, <4>2
      <4>4. QED
        BY <3>1, <3>2, <4>3 DEF next
    <3>4. CASE w.left = <<>>
      BY <3>1, <3>2, <3>4 DEF next
    <3>5. QED
      BY <3>3, <3>4
  <2>3. n \in 0..n
    BY <1>2
  <2> HIDE DEF good
  <2>4. n \in good
    BY <1>2, <2>1, <2>2, <2>3, CountUp
  <2>5. QED
    BY <2>4 DEF good
<1>16. g[n].visited \in Seq(B) /\ Closed(ToSet(g[n].visited), B, start, below)
  <2>1. In(g[n]) = ToSet(g[n].visited)
    BY <1>10, <1>14
  <2>2. g[n] \in V
    BY <1>13
  <2>3. QED
    BY <1>13, <2>1, <2>2 DEF V, Closed
<1>17. QED
  BY <1>0, <1>15, <1>16
================================================================================
