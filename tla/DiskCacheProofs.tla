----------------------------- MODULE DiskCacheProofs ---------------------------
(***************************************************************************)
(* Theorems about DiskRenderCache for any number of keys, goroutines,      *)
(* processes and crashes.                                                  *)
(***************************************************************************)
EXTENDS DiskCache, DataTheorems, TLAPS

Whole == {f \in Files : f.whole}

\* Only whole files are in the directory, in the hands of a worker between its
\* render and its rename, and in those of one that has read.
PagesInv ==
  /\ clock \in 0..MaxClock
  /\ file \in [Keys -> Whole \cup {NoFile}]
  /\ page \in [Workers -> Files \cup {NoPage}]
  /\ key \in [Workers -> Keys \cup {0}]
  /\ DOMAIN at = Workers
  /\ \A w \in Workers :
       /\ at[w] \in {"create", "write", "rename", "touch", "touchagain"} =>
            page[w] \in Whole
       /\ at[w] # "idle" => key[w] \in Keys

\* A temporary file belongs to the worker that will rename or remove it.
TempInv ==
  /\ litter \in BOOLEAN /\ crashes \in Nat
  /\ DOMAIN at = Workers
  /\ temp \subseteq Workers
  /\ NoLitter

--------------------------------------------------------------------------------
\* Touching a whole file leaves it whole.
LEMMA TouchedIsWhole ==
  ASSUME NEW f \in Whole, clock \in 0..MaxClock
  PROVE  [f EXCEPT !.time = clock] \in Whole
  BY DEF Whole, Files

\* The directory holds whole files at first.
LEMMA PagesInit == Init => PagesInv
<1> SUFFICES ASSUME Init
             PROVE  PagesInv
  OBVIOUS
<1>1. 0 \in 0..MaxClock
  BY DiskCacheAssumption
<1>2. \A f \in [size : Sizes, time : {0}, whole : {TRUE}] : f \in Whole
  BY <1>1 DEF Whole, Files
<1>3. file \in [Keys -> Whole \cup {NoFile}]
  <2>1. file \in [Keys -> [size : Sizes, time : {0}, whole : {TRUE}] \cup {NoFile}]
    BY Zenon DEF Init
  <2>2. QED
    BY <1>2, <2>1
<1>4. /\ clock = 0
      /\ at = [w \in Workers |-> "idle"]
      /\ key = [w \in Workers |-> 0]
      /\ page = [w \in Workers |-> NoPage]
  BY Zenon DEF Init
<1>5. QED
  BY <1>1, <1>3, <1>4 DEF PagesInv

\* No step puts a file in the directory that is not whole.
LEMMA PagesStep == PagesInv /\ [Next]_vars => PagesInv'
<1> SUFFICES ASSUME PagesInv, [Next]_vars
             PROVE  PagesInv'
  OBVIOUS
<1> USE DEF PagesInv, Goto, locals
<1>1. ASSUME NEW w \in Workers, NEW k \in Keys, Call(w, k)
      PROVE  PagesInv'
  BY <1>1 DEF Call
<1>2. ASSUME NEW w \in Workers, ReadHit(w)
      PROVE  PagesInv'
  <2>1. file[key[w]] \in Whole
    BY <1>2 DEF ReadHit, Present
  <2>2. file[key[w]] \in Files
    BY <2>1 DEF Whole
  <2>3. QED
    BY <1>2, <2>1, <2>2 DEF ReadHit
<1>3. ASSUME NEW w \in Workers, TouchFile(w)
      PROVE  PagesInv'
  <2>1. file' \in [Keys -> Whole \cup {NoFile}]
    BY <1>3, TouchedIsWhole DEF TouchFile, Present
  <2>2. QED
    BY <1>3, <2>1 DEF TouchFile
<1>4. ASSUME NEW w \in Workers, ReadMiss(w) \/ ReadMissAgain(w)
      PROVE  PagesInv'
  BY <1>4 DEF ReadMiss, ReadMissAgain
<1>5. ASSUME NEW w \in Workers, Render(w)
      PROVE  PagesInv'
  <2>1. ASSUME NEW n \in Sizes
        PROVE  [size |-> n, time |-> clock, whole |-> TRUE] \in Whole
    BY DEF Whole, Files
  <2>2. \A f \in Whole : f \in Files
    BY DEF Whole
  <2>3. QED
    BY <1>5, <2>1, <2>2 DEF Render
<1>6. ASSUME NEW w \in Workers, Create(w)
      PROVE  PagesInv'
  BY <1>6 DEF Create
<1>7. ASSUME NEW w \in Workers, Write(w)
      PROVE  PagesInv'
  <2>1. [page[w] EXCEPT !.time = clock] \in Whole
    BY <1>7, TouchedIsWhole DEF Write
  <2>2. [page[w] EXCEPT !.time = clock] \in Files
    BY <2>1 DEF Whole
  <2>3. page' = [page EXCEPT ![w] = [page[w] EXCEPT !.time = clock]]
    BY <1>7 DEF Write
  <2>4. QED
    BY <1>7, <2>1, <2>2, <2>3 DEF Write
<1>8. ASSUME NEW w \in Workers, Rename(w)
      PROVE  PagesInv'
  BY <1>8 DEF Rename, StartWalk
<1>9. ASSUME NEW w \in Workers, Visit(w) \/ EndWalk(w) \/ EndRemove(w)
      PROVE  PagesInv'
  BY <1>9 DEF Visit, EndWalk, EndRemove
<1>10. ASSUME NEW w \in Workers, RemoveOldest(w)
       PROVE  PagesInv'
  BY <1>10 DEF RemoveOldest
<1>11. ASSUME NEW W, Forget(W), UNCHANGED <<file, clock>>
       PROVE  PagesInv'
  BY <1>11 DEF Forget
<1>12. ASSUME NEW w \in Workers, Return(w) \/ Answer(w) \/ Crash(instance[w])
       PROVE  PagesInv'
  BY <1>11, <1>12 DEF Return, Answer, Crash
<1>13. CASE Tick
  BY <1>13, DiskCacheAssumption DEF Tick
<1>14. CASE UNCHANGED vars
  BY <1>14 DEF vars
<1>15. QED
  BY <1>1, <1>2, <1>3, <1>4, <1>5, <1>6, <1>7, <1>8, <1>9, <1>10, <1>12, <1>13,
     <1>14 DEF Next, Step

\* Nobody is served part of a page, whatever crashes and whoever shares the
\* directory (render_cache.go:248-277).
THEOREM Wholeness == Spec => []OnlyWholePages
<1>1. PagesInv => OnlyWholePages
  BY DEF PagesInv, OnlyWholePages, Whole
<1>2. QED
  BY <1>1, PagesInit, PagesStep, PTL DEF Spec

--------------------------------------------------------------------------------
\* No step leaves a temporary file that nobody will rename or remove.
LEMMA TempStep == TempInv /\ [Next]_vars => TempInv'
<1> SUFFICES ASSUME TempInv, [Next]_vars
             PROVE  TempInv'
  OBVIOUS
<1> USE DEF TempInv, NoLitter, Goto, locals
<1>1. ASSUME NEW w \in Workers, NEW k \in Keys, Call(w, k)
      PROVE  TempInv'
  BY <1>1 DEF Call
<1>2. ASSUME NEW w \in Workers,
             ReadHit(w) \/ TouchFile(w) \/ ReadMiss(w) \/ ReadMissAgain(w) \/ Render(w)
      PROVE  TempInv'
  BY <1>2 DEF ReadHit, TouchFile, ReadMiss, ReadMissAgain, Render
<1>3. ASSUME NEW w \in Workers, Create(w) \/ Write(w)
      PROVE  TempInv'
  BY <1>3 DEF Create, Write
<1>4. ASSUME NEW w \in Workers, Rename(w)
      PROVE  TempInv'
  BY <1>4 DEF Rename, StartWalk
<1>5. ASSUME NEW w \in Workers, Visit(w) \/ EndWalk(w) \/ RemoveOldest(w) \/ EndRemove(w)
      PROVE  TempInv'
  BY <1>5 DEF Visit, EndWalk, RemoveOldest, EndRemove
<1>6. ASSUME NEW w \in Workers, Return(w) \/ Answer(w)
      PROVE  TempInv'
  BY <1>6 DEF Return, Answer, Forget, Sharing
<1>7. ASSUME NEW w \in Workers, Crash(instance[w])
      PROVE  TempInv'
  BY <1>7, DiskCacheAssumption DEF Crash, Forget
<1>8. CASE Tick
  BY <1>8 DEF Tick
<1>9. CASE UNCHANGED vars
  BY <1>9 DEF vars
<1>10. QED
  BY <1>1, <1>2, <1>3, <1>4, <1>5, <1>6, <1>7, <1>8, <1>9 DEF Next, Step

\* put's temporary files do not outlive it unless the process dies.
THEOREM TemporariesAreOwned == Spec => []NoLitter
<1>1. ASSUME Init PROVE TempInv
  <2>1. temp = {} /\ litter = FALSE /\ crashes = 0 /\ at = [w \in Workers |-> "idle"]
    BY <1>1, Zenon DEF Init
  <2>2. NoLitter
    BY <2>1, Zenon DEF NoLitter
  <2>3. litter \in BOOLEAN
    BY <2>1, Zenon
  <2>4. crashes \in Nat /\ DOMAIN at = Workers /\ temp \subseteq Workers
    BY <2>1
  <2>5. QED
    BY <2>2, <2>3, <2>4 DEF TempInv
<1>2. TempInv => NoLitter
  BY DEF TempInv
<1>3. QED
  BY <1>1, <1>2, TempStep, PTL DEF Spec

--------------------------------------------------------------------------------
\* Type correctness.

\* Of the listed files there is an oldest one, and it is listed.
LEMMA OldestIsListed ==
  ASSUME TypeOK, NEW w \in Workers, seen[w] # EmptyList
  PROVE  Oldest(w) \in Keys /\ seen[w][Oldest(w)] # NoFile
<1> DEFINE left == {k \in Keys : seen[w][k] # NoFile}
           times == {seen[w][k].time : k \in left}
<1>1. seen[w] \in [Keys -> Files \cup {NoFile}]
  BY DEF TypeOK
<1>2. left # {}
  BY <1>1 DEF EmptyList
<1>3. \A k \in left : seen[w][k].time \in Nat
  <2>1. \A k \in left : seen[w][k] \in Files
    BY <1>1
  <2>2. QED
    BY <2>1, DiskCacheAssumption DEF Files
<1>4. PICK t \in times : \A u \in times : t <= u
  BY <1>2, <1>3, LeastNumber
<1> DEFINE first == {k \in left : seen[w][k].time = t}
<1>5. PICK k \in first : \A j \in first : k <= j
  <2>1. first # {} /\ first \in SUBSET Nat
    BY <1>4, DiskCacheAssumption
  <2> HIDE DEF first
  <2>2. QED
    BY <2>1, LeastNumber
<1>6. \A j \in left \ {k} :
        \/ seen[w][k].time < seen[w][j].time
        \/ seen[w][k].time = seen[w][j].time /\ k < j
  <2> SUFFICES ASSUME NEW j \in left \ {k}
               PROVE  \/ seen[w][k].time < seen[w][j].time
                      \/ seen[w][k].time = seen[w][j].time /\ k < j
    OBVIOUS
  <2>1. seen[w][k].time = t /\ t <= seen[w][j].time
    BY <1>4, <1>5
  <2>2. CASE seen[w][j].time = t
    <3>1. j \in first
      BY <2>2
    <3>2. k <= j /\ k # j /\ k \in Nat /\ j \in Nat
      BY <1>5, <3>1, DiskCacheAssumption
    <3>3. QED
      BY <2>1, <2>2, <3>2
  <2>3. CASE seen[w][j].time # t
    BY <1>3, <1>5, <2>1, <2>3
  <2>4. QED
    BY <2>2, <2>3
<1>7. \E l \in left : \A j \in left \ {l} :
        \/ seen[w][l].time < seen[w][j].time
        \/ seen[w][l].time = seen[w][j].time /\ l < j
  BY <1>5, <1>6
<1>8. Oldest(w) \in left
  BY <1>7 DEF Oldest
<1>9. QED
  BY <1>8

Places == {"idle", "get", "touch", "return", "share", "getagain", "touchagain", "render",
           "create", "write", "rename", "walk", "remove", "answer"}

\* What PagesInv says nothing about.
RestInv ==
  /\ temp \subseteq Workers
  /\ litter \in BOOLEAN /\ unsettled \in BOOLEAN
  /\ crashes \in 0..MaxCrashes
  /\ at \in [Workers -> Places]
  /\ seen \in [Workers -> [Keys -> Files \cup {NoFile}]]
  /\ todo \in [Workers -> SUBSET Keys]
  /\ listed \in [Workers -> SUBSET Keys]
  /\ used \in [Workers -> Int]

\* The two invariants give the types.
LEMMA TypesTogether == PagesInv /\ RestInv => TypeOK
<1>1. Whole \subseteq Files
  BY DEF Whole
<1>2. QED
  BY <1>1 DEF PagesInv, RestInv, TypeOK, Places

\* Sizes are numbers.
LEMMA SizeIsNumber ==
  ASSUME NEW f \in Files
  PROVE  f.size \in Int
<1>1. f.size \in Sizes
  BY DEF Files
<1>2. \A n \in Sizes : n \in Int
  BY DiskCacheAssumption
<1>3. QED
  BY <1>1, <1>2, Zenon

\* The types of the rest of the state are kept.
LEMMA RestStep == PagesInv /\ RestInv /\ [Next]_vars => RestInv'
<1> SUFFICES ASSUME PagesInv, RestInv, [Next]_vars
             PROVE  RestInv'
  OBVIOUS
<1>0. TypeOK
  BY TypesTogether
<1>f. \A k \in Present : k \in Keys /\ file[k] \in Files /\ file[k].size \in Int
  <2>1. \A k \in Present : k \in Keys /\ file[k] \in Files
    BY <1>0 DEF TypeOK, Present
  <2>2. QED
    BY <2>1, SizeIsNumber
<1> USE DEF RestInv, Goto, locals, Places
<1>1. ASSUME NEW w \in Workers, NEW k \in Keys, Call(w, k)
      PROVE  RestInv'
  BY <1>1 DEF Call
<1>2. ASSUME NEW w \in Workers,
             ReadHit(w) \/ TouchFile(w) \/ ReadMiss(w) \/ ReadMissAgain(w) \/ Render(w)
      PROVE  RestInv'
  BY <1>2 DEF ReadHit, TouchFile, ReadMiss, ReadMissAgain, Render
<1>3. ASSUME NEW w \in Workers, Create(w) \/ Write(w)
      PROVE  RestInv'
  BY <1>3 DEF Create, Write
<1>4. ASSUME NEW w \in Workers, Rename(w)
      PROVE  RestInv'
  <2>1. CASE StartWalk(w)
    <3>1. EmptyList \in [Keys -> Files \cup {NoFile}]
      BY DEF EmptyList
    <3>2. Present' \subseteq Keys
      BY DEF Present
    <3>3. /\ at' \in [Workers -> Places] /\ todo' \in [Workers -> SUBSET Keys]
          /\ seen' \in [Workers -> [Keys -> Files \cup {NoFile}]]
          /\ listed' \in [Workers -> SUBSET Keys] /\ used' \in [Workers -> Int]
          /\ unsettled' = FALSE
      BY <2>1, <3>1, <3>2 DEF StartWalk
    <3>4. temp' \subseteq Workers /\ UNCHANGED <<litter, crashes>>
      BY <1>4 DEF Rename
    <3>5. QED
      BY <3>3, <3>4
  <2>2. CASE ~StartWalk(w)
    BY <1>4, <2>2 DEF Rename
  <2>3. QED
    BY <2>1, <2>2
<1>5. ASSUME NEW w \in Workers, Visit(w)
      PROVE  RestInv'
  <2>1. /\ todo' \in [Workers -> SUBSET Keys]
        /\ UNCHANGED <<temp, litter, unsettled, crashes, at, listed>>
    BY <1>5 DEF Visit
  <2>2. /\ seen' \in [Workers -> [Keys -> Files \cup {NoFile}]]
        /\ used' \in [Workers -> Int]
    <3>1. \/ UNCHANGED <<seen, used>>
          \/ \E k \in Present : /\ seen' = [seen EXCEPT ![w][k] = file[k]]
                                /\ used' = [used EXCEPT ![w] = @ + file[k].size]
      BY <1>5 DEF Visit
    <3>2. ASSUME NEW k \in Present, seen' = [seen EXCEPT ![w][k] = file[k]],
                 used' = [used EXCEPT ![w] = @ + file[k].size]
          PROVE  /\ seen' \in [Workers -> [Keys -> Files \cup {NoFile}]]
                 /\ used' \in [Workers -> Int]
      <4>1. used' \in [Workers -> Int]
        <5>1. used[w] + file[k].size \in Int
          BY <1>f
        <5>2. QED
          BY <3>2, <5>1
      <4>2. seen' \in [Workers -> [Keys -> Files \cup {NoFile}]]
        BY <1>f, <3>2
      <4>3. QED
        BY <4>1, <4>2
    <3>3. QED
      BY <3>1, <3>2
  <2>3. QED
    BY <2>1, <2>2
<1>6. ASSUME NEW w \in Workers, EndWalk(w) \/ EndRemove(w)
      PROVE  RestInv'
  BY <1>6 DEF EndWalk, EndRemove
<1>7. ASSUME NEW w \in Workers, RemoveOldest(w)
      PROVE  RestInv'
  <2> DEFINE k == Oldest(w)
  <2>1. k \in Keys /\ seen[w][k] \in Files
    <3>1. k \in Keys /\ seen[w][k] # NoFile
      BY <1>0, <1>7, OldestIsListed DEF RemoveOldest
    <3>2. QED
      BY <3>1
  <2>2. seen[w][k].size \in Int
    BY <2>1, SizeIsNumber
  <2>3. /\ used' \in {used, [used EXCEPT ![w] = @ - seen[w][k].size]}
        /\ seen' = [seen EXCEPT ![w][k] = NoFile]
        /\ UNCHANGED <<temp, litter, unsettled, crashes, at, todo, listed>>
    BY <1>7 DEF RemoveOldest
  <2> HIDE DEF k
  <2>4. used' \in [Workers -> Int]
    BY <2>2, <2>3
  <2>5. seen' \in [Workers -> [Keys -> Files \cup {NoFile}]]
    BY <2>1, <2>3
  <2>6. QED
    BY <2>3, <2>4, <2>5
<1>8. ASSUME NEW W, Forget(W)
      PROVE  /\ at' \in [Workers -> Places] /\ todo' \in [Workers -> SUBSET Keys]
             /\ seen' \in [Workers -> [Keys -> Files \cup {NoFile}]]
             /\ listed' \in [Workers -> SUBSET Keys] /\ used' \in [Workers -> Int]
  <2>1. EmptyList \in [Keys -> Files \cup {NoFile}]
    BY DEF EmptyList
  <2>2. QED
    BY <1>8, <2>1 DEF Forget
<1>9. ASSUME NEW w \in Workers, Return(w) \/ Answer(w)
      PROVE  RestInv'
  <2>1. UNCHANGED <<temp, litter, crashes, unsettled>> /\ \E W : Forget(W)
    BY <1>9 DEF Return, Answer
  <2>2. QED
    BY <1>8, <2>1
<1>10. ASSUME NEW w \in Workers, Crash(instance[w])
       PROVE  RestInv'
  <2> DEFINE dead == {v \in Workers : instance[v] = instance[w]}
  <2>1. /\ crashes < MaxCrashes /\ crashes' = crashes + 1
        /\ temp' = temp \ dead /\ Forget(dead)
    BY <1>10 DEF Crash
  <2>2. litter' \in BOOLEAN /\ unsettled' \in BOOLEAN
    BY <1>10, Zenon DEF Crash
  <2>3. crashes' \in 0..MaxCrashes
    BY <2>1, DiskCacheAssumption
  <2>4. temp' \subseteq Workers
    BY <2>1
  <2>5. QED
    BY <1>8, <2>1, <2>2, <2>3, <2>4
<1>11. CASE Tick \/ UNCHANGED vars
  BY <1>11 DEF Tick, vars
<1>12. QED
  BY <1>1, <1>2, <1>3, <1>4, <1>5, <1>6, <1>7, <1>9, <1>10, <1>11 DEF Next, Step

\* Type correctness of the directory and of all that a prune keeps, whoever removes
\* files under its hands (render_cache.go:288-329).
THEOREM TypeCorrect == Spec => []TypeOK
<1>1. Init => RestInv
  <2> SUFFICES ASSUME Init
               PROVE  RestInv
    OBVIOUS
  <2>1. /\ temp = {} /\ crashes = 0
        /\ at = [w \in Workers |-> "idle"]
        /\ seen = [w \in Workers |-> EmptyList]
        /\ todo = [w \in Workers |-> {}]
        /\ listed = [w \in Workers |-> {}]
        /\ used = [w \in Workers |-> 0]
    BY Zenon DEF Init
  <2>2. litter \in BOOLEAN /\ unsettled \in BOOLEAN
    <3>1. litter = FALSE /\ unsettled = (Total(file) > MaxBytes)
      BY Zenon DEF Init
    <3>2. (Total(file) > MaxBytes) \in BOOLEAN
      OBVIOUS
    <3>3. QED
      BY <3>1, <3>2, Zenon
  <2>3. seen \in [Workers -> [Keys -> Files \cup {NoFile}]]
    BY <2>1 DEF EmptyList
  <2>4. crashes \in 0..MaxCrashes
    BY <2>1, DiskCacheAssumption
  <2>5. at \in [Workers -> Places]
    BY <2>1 DEF Places
  <2>6. QED
    BY <2>1, <2>2, <2>3, <2>4, <2>5 DEF RestInv
<1>2. QED
  BY <1>1, PagesInit, PagesStep, RestStep, TypesTogether, PTL DEF Spec

--------------------------------------------------------------------------------
\* The budget: what the files and the listings of a prune add up to.

Directories == [Keys -> Files \cup {NoFile}]
Weight(f) == [k \in Keys |-> IF f[k] = NoFile THEN 0 ELSE f[k].size]

\* A file has a size, and no file weighs nothing.
LEMMA WeightIsNat ==
  ASSUME NEW f \in Directories, NEW k \in Keys
  PROVE  Weight(f)[k] \in Nat
<1>1. \A n \in Sizes : n \in Nat
  BY DiskCacheAssumption
<1>2. CASE f[k] = NoFile
  BY <1>2 DEF Weight
<1>3. CASE f[k] # NoFile
  <2>1. f[k].size \in Sizes
    BY <1>3 DEF Directories, Files
  <2>2. QED
    BY <1>1, <1>3, <2>1 DEF Weight
<1>4. QED
  BY <1>2, <1>3

\* The total of a directory or a listing is what all its keys weigh.
LEMMA TotalWeighs ==
  ASSUME NEW f \in Directories
  PROVE  Total(f) = SumFunctionOnSet(Weight(f), Keys) /\ Total(f) \in Int
<1> DEFINE here == {j \in Keys : f[j] # NoFile}
           gone == Keys \ here
           sizes == [k \in here |-> f[k].size]
           e == Weight(f)
<1>1. IsFiniteSet(Keys)
  BY DiskCacheAssumption
<1>2. IsFiniteSet(here) /\ IsFiniteSet(gone)
  <2>1. here \subseteq Keys /\ gone \subseteq Keys
    OBVIOUS
  <2> HIDE DEF here, gone
  <2>2. QED
    BY <1>1, <2>1, FS_Subset
<1>3. \A k \in here : sizes[k] = e[k]
  BY DEF Weight
<1>4. \A k \in gone : e[k] = 0
  BY DEF Weight
<1>5. \A k \in Keys : e[k] \in Int
  BY WeightIsNat
<1>6. here \cup gone = Keys /\ here \cap gone = {}
  OBVIOUS
<1>7. Total(f) = SumFunctionOnSet(sizes, here)
  <2>1. DOMAIN sizes = here
    OBVIOUS
  <2>2. Total(f) = SumFunction(sizes)
    BY DEF Total
  <2> HIDE DEF sizes, here
  <2>3. QED
    BY <2>1, <2>2, Zenon DEF SumFunction
<1> HIDE DEF here, gone, sizes, e
<1>8. SumFunctionOnSet(sizes, here) = SumFunctionOnSet(e, here)
  BY <1>2, <1>3, SumSame
<1>9. SumFunctionOnSet(e, gone) = 0
  BY <1>2, <1>4, SumOfZeros
<1>10. SumFunctionOnSet(e, here) \in Int
  BY <1>2, <1>5, <1>6, SumInt
<1>11. SumFunctionOnSet(e, here \cup gone) = SumFunctionOnSet(e, here) + SumFunctionOnSet(e, gone)
  BY <1>2, <1>5, <1>6, SumOfBoth
<1>12. Total(f) = SumFunctionOnSet(e, Keys) /\ Total(f) \in Int
  <2>1. SumFunctionOnSet(e, Keys) = SumFunctionOnSet(e, here) + SumFunctionOnSet(e, gone)
    BY <1>6, <1>11, Zenon
  <2>2. SumFunctionOnSet(e, Keys) = SumFunctionOnSet(e, here)
    BY <1>9, <1>10, <2>1
  <2>3. QED
    BY <1>7, <1>8, <1>10, <2>2, Zenon
<1>13. QED
  BY <1>12 DEF e

\* A listing that has every file of a directory adds up to as much.
LEMMA TotalAtMost ==
  ASSUME NEW f \in Directories, NEW g \in Directories,
         \A k \in Keys : f[k] # NoFile => g[k] # NoFile /\ f[k].size = g[k].size
  PROVE  Total(f) <= Total(g)
<1> DEFINE d == Weight(f)
           e == Weight(g)
<1>1. \A k \in Keys : d[k] \in Nat /\ e[k] \in Nat
  BY WeightIsNat
<1>2. \A k \in Keys : d[k] = 0 \/ d[k] = e[k]
  BY DEF Weight
<1>3. Total(f) = SumFunctionOnSet(d, Keys) /\ Total(g) = SumFunctionOnSet(e, Keys)
  BY TotalWeighs
<1>4. IsFiniteSet(Keys)
  BY DiskCacheAssumption
<1> HIDE DEF d, e
<1>5. \A k \in Keys : d[k] \in Int /\ e[k] \in Int /\ d[k] <= e[k]
  BY <1>1, <1>2
<1>6. SumFunctionOnSet(d, Keys) <= SumFunctionOnSet(e, Keys)
  BY <1>4, <1>5, SumAtMost
<1>7. QED
  BY <1>3, <1>6

\* One entry that changes changes the total by what it weighs.
LEMMA TotalChanges ==
  ASSUME NEW f \in Directories, NEW k \in Keys, NEW v \in Files \cup {NoFile}
  PROVE  Total([f EXCEPT ![k] = v]) =
           Total(f) - Weight(f)[k] + (IF v = NoFile THEN 0 ELSE v.size)
<1> DEFINE g == [f EXCEPT ![k] = v]
           d == Weight(f)
           e == Weight(g)
<1>1. g \in Directories
  BY DEF Directories
<1>2. \A j \in Keys \ {k} : d[j] = e[j]
  BY DEF Weight, Directories
<1>3. e[k] = IF v = NoFile THEN 0 ELSE v.size
  BY DEF Weight, Directories
<1> HIDE DEF g
<1>4. Total(f) = SumFunctionOnSet(d, Keys)
  BY TotalWeighs
<1>5. Total(g) = SumFunctionOnSet(e, Keys)
  BY <1>1, TotalWeighs
<1>6. IsFiniteSet(Keys)
  BY DiskCacheAssumption
<1>7. \A j \in Keys : d[j] \in Int /\ e[j] \in Int
  BY <1>1, WeightIsNat
<1>8. SumFunctionOnSet(e, Keys) = SumFunctionOnSet(d, Keys) - d[k] + e[k]
  <2> HIDE DEF d, e
  <2>1. QED
    BY <1>2, <1>6, <1>7, SumChangesOne
<1>9. Total(g) = Total(f) - d[k] + e[k]
  BY <1>4, <1>5, <1>8
<1>10. QED
  BY <1>3, <1>9 DEF g

\* An empty listing adds up to nothing.
LEMMA EmptyTotal == EmptyList \in Directories /\ Total(EmptyList) = 0
<1> DEFINE e == Weight(EmptyList)
<1>1. EmptyList \in Directories
  BY DEF EmptyList, Directories
<1>2. \A k \in Keys : e[k] = 0
  BY DEF Weight, EmptyList
<1>3. Total(EmptyList) = SumFunctionOnSet(e, Keys)
  BY <1>1, TotalWeighs
<1>4. IsFiniteSet(Keys)
  BY DiskCacheAssumption
<1> HIDE DEF e
<1>5. SumFunctionOnSet(e, Keys) = 0
  BY <1>2, <1>4, SumOfZeros
<1>6. QED
  BY <1>1, <1>3, <1>5

Pruning(w) == at[w] \in {"walk", "remove"}

\* A prune has counted at least the files that it has listed and not removed, and
\* has not listed what it has still to visit.
Counts(w) ==
  Pruning(w) =>
    /\ Total(seen[w]) <= used[w]
    /\ \A k \in todo[w] : seen[w][k] = NoFile
    /\ at[w] = "remove" => todo[w] = {}

\* Every file there is, this prune has listed at its size or is bound to.
Covers(w) ==
  /\ Pruning(w)
  /\ todo[w] \cap Present \subseteq listed[w]
  /\ \A k \in Present \ todo[w] : seen[w][k] # NoFile /\ seen[w][k].size = file[k].size

Covered == unsettled \/ Total(file) <= MaxBytes \/ \E w \in Workers : Covers(w)

BudgetInv ==
  /\ \A w \in Workers : Counts(w)
  /\ Covered

\* The directory, and the listing of every worker, are what Total is about.
LEMMA TypesForTotal ==
  ASSUME TypeOK
  PROVE  /\ file \in Directories
         /\ \A w \in Workers : seen[w] \in Directories /\ used[w] \in Int
         /\ \A k \in Present : k \in Keys /\ file[k] \in Files /\ file[k] # NoFile
  BY DEF TypeOK, Directories, Present

\* A prune that has listed all there is and stops leaves the budget met.
LEMMA PruneSettles ==
  ASSUME TypeOK, NEW w \in Workers, Counts(w), Covers(w), todo[w] = {},
         used[w] <= MaxBytes \/ seen[w] = EmptyList
  PROVE  Total(file) <= MaxBytes
<1>1. file \in Directories /\ seen[w] \in Directories /\ used[w] \in Int
  BY TypesForTotal
<1>2. \A k \in Keys : file[k] # NoFile => seen[w][k] # NoFile /\ file[k].size = seen[w][k].size
  BY DEF Covers, Present
<1>3. Total(file) <= Total(seen[w])
  BY <1>1, <1>2, TotalAtMost
<1>4. Total(file) \in Int /\ Total(seen[w]) \in Int
  BY <1>1, TotalWeighs
<1>5. MaxBytes \in Nat
  BY DiskCacheAssumption
<1>6. CASE used[w] <= MaxBytes
  <2>1. Total(seen[w]) <= used[w]
    BY DEF Counts, Covers
  <2>2. QED
    BY <1>1, <1>3, <1>4, <1>5, <1>6, <2>1
<1>7. CASE seen[w] = EmptyList
  <2>1. Total(seen[w]) = 0
    BY <1>7, EmptyTotal
  <2>2. QED
    BY <1>3, <1>4, <1>5, <2>1
<1>8. QED
  BY <1>6, <1>7

\* No file is there that was not there before, at the same size.
Shrinks == \A k \in Present' : k \in Present /\ file'[k].size = file[k].size
SamePrune(w) ==
  /\ seen'[w] = seen[w] /\ todo'[w] = todo[w]
  /\ listed'[w] = listed[w] /\ used'[w] = used[w]

\* A prune that is not at work keeps its count and what it covers.
LEMMA CountsStay ==
  ASSUME NEW w \in Workers, Counts(w), SamePrune(w),
         Pruning(w)' => Pruning(w) /\ (at'[w] = at[w] \/ todo[w] = {})
  PROVE  Counts(w)'
  BY DEF Counts, SamePrune, Pruning

\* A pruning that covers the directory covers what is left when files go.
LEMMA CoversStays ==
  ASSUME NEW w \in Workers, Covers(w), SamePrune(w), Pruning(w)', Shrinks
  PROVE  Covers(w)'
  BY DEF Covers, SamePrune, Shrinks

\* A directory that shrinks stays within the budget.
LEMMA TotalShrinks ==
  ASSUME TypeOK, TypeOK', Shrinks, Total(file) <= MaxBytes
  PROVE  Total(file') <= MaxBytes
<1>1. file \in Directories /\ file' \in Directories
  BY DEF TypeOK, Directories
<1>2. \A k \in Keys : file'[k] # NoFile => file[k] # NoFile /\ file'[k].size = file[k].size
  BY DEF Shrinks, Present
<1>3. Total(file') <= Total(file)
  BY <1>1, <1>2, TotalAtMost
<1>4. Total(file) \in Int /\ Total(file') \in Int
  BY <1>1, TotalWeighs
<1>5. MaxBytes \in Nat
  BY DiskCacheAssumption
<1>6. QED
  BY <1>3, <1>4, <1>5

\* A step that works for no prune.
AsideStep ==
  /\ Shrinks
  /\ unsettled => unsettled'
  /\ \A v \in Workers :
       /\ Pruning(v)' => Pruning(v) /\ at'[v] = at[v] /\ SamePrune(v)
       /\ Pruning(v) => Pruning(v)' \/ unsettled'

\* Steps that add no file keep the budget.
LEMMA AsideKeeps == TypeOK /\ TypeOK' /\ BudgetInv /\ AsideStep => BudgetInv'
<1> SUFFICES ASSUME TypeOK, TypeOK', BudgetInv, AsideStep
             PROVE  BudgetInv'
  OBVIOUS
<1>1. ASSUME NEW v \in Workers
      PROVE  Counts(v)'
  <2>1. CASE Pruning(v)'
    BY <2>1, CountsStay DEF BudgetInv, AsideStep
  <2>2. CASE ~Pruning(v)'
    BY <2>2 DEF Counts
  <2>3. QED
    BY <2>1, <2>2
<1>2. Covered'
  <2>1. CASE unsettled
    BY <2>1 DEF AsideStep, Covered
  <2>2. CASE Total(file) <= MaxBytes
    BY <2>2, TotalShrinks DEF AsideStep, Covered
  <2>3. ASSUME NEW v \in Workers, Covers(v)
        PROVE  Covered'
    <3>1. Pruning(v)
      BY <2>3 DEF Covers
    <3>2. CASE Pruning(v)'
      <4>1. Covers(v)'
        BY <2>3, <3>2, CoversStays DEF AsideStep
      <4>2. QED
        BY <4>1 DEF Covered
    <3>3. CASE unsettled'
      BY <3>3 DEF Covered
    <3>4. QED
      BY <3>1, <3>2, <3>3 DEF AsideStep
  <2>4. QED
    BY <2>1, <2>2, <2>3 DEF BudgetInv, Covered
<1>3. QED
  BY <1>1, <1>2 DEF BudgetInv

\* The first walk after a rename is bound to cover all there is.
LEMMA StartKeeps ==
  ASSUME TypeOK, BudgetInv, NEW w \in Workers, at[w] = "rename", StartWalk(w)
  PROVE  BudgetInv'
<1>1. /\ at' = [at EXCEPT ![w] = "walk"] /\ seen' = [seen EXCEPT ![w] = EmptyList]
      /\ todo' = [todo EXCEPT ![w] = Keys] /\ listed' = [listed EXCEPT ![w] = Present']
      /\ used' = [used EXCEPT ![w] = 0]
  BY DEF StartWalk, Goto
<1>2. /\ at'[w] = "walk" /\ seen'[w] = EmptyList /\ todo'[w] = Keys
      /\ listed'[w] = Present' /\ used'[w] = 0
  BY <1>1 DEF TypeOK
<1>3. Counts(w)'
  <2>1. Total(EmptyList) <= 0
    BY EmptyTotal
  <2>2. \A k \in todo'[w] : seen'[w][k] = NoFile
    BY <1>2 DEF EmptyList
  <2>3. QED
    BY <1>2, <2>1, <2>2 DEF Counts
<1>4. Covers(w)'
  BY <1>2 DEF Covers, Pruning, Present
<1>5. ASSUME NEW v \in Workers \ {w}
      PROVE  Counts(v)'
  <2>1. at'[v] = at[v] /\ SamePrune(v)
    BY <1>1 DEF TypeOK, SamePrune
  <2>2. QED
    BY <2>1, CountsStay DEF BudgetInv, Pruning
<1>6. QED
  BY <1>3, <1>4, <1>5 DEF BudgetInv, Covered

\* The steps of one prune leave those of the others as they were.
Others(w) ==
  \A v \in Workers \ {w} : at'[v] = at[v] /\ SamePrune(v)

\* A prune's own step, by what becomes of its count and of what it covers.
LEMMA PruneKeeps ==
  ASSUME TypeOK, TypeOK', BudgetInv, NEW w \in Workers, Others(w), Shrinks,
         unsettled' = unsettled, Counts(w)',
         Covers(w) => Covers(w)' \/ Total(file') <= MaxBytes
  PROVE  BudgetInv'
<1>1. ASSUME NEW v \in Workers \ {w}
      PROVE  Counts(v)' /\ (Covers(v) => Covers(v)')
  <2>1. at'[v] = at[v] /\ SamePrune(v)
    BY DEF Others
  <2>2. Counts(v)'
    BY <2>1, CountsStay DEF BudgetInv, Pruning
  <2>3. Covers(v) => Pruning(v)'
    BY <2>1 DEF Covers, Pruning
  <2>4. Covers(v) => Covers(v)'
    BY <2>1, <2>3, CoversStays
  <2>5. QED
    BY <2>2, <2>4
<1>2. Covered'
  <2>1. CASE unsettled
    BY <2>1 DEF Covered
  <2>2. CASE Total(file) <= MaxBytes
    BY <2>2, TotalShrinks DEF Covered
  <2>3. ASSUME NEW v \in Workers, Covers(v)
        PROVE  Covered'
    BY <1>1, <2>3 DEF Covered
  <2>4. QED
    BY <2>1, <2>2, <2>3 DEF BudgetInv, Covered
<1>3. QED
  BY <1>1, <1>2 DEF BudgetInv

\* The walk counts a file as it lists it.
LEMMA VisitKeeps ==
  ASSUME TypeOK, TypeOK', BudgetInv, NEW w \in Workers, Visit(w)
  PROVE  BudgetInv'
<1> DEFINE k == Min(todo[w])
           s == seen[w]
<1>1. /\ at[w] = "walk" /\ todo[w] # {}
      /\ todo' = [todo EXCEPT ![w] = @ \ {k}]
      /\ UNCHANGED <<file, unsettled, at, listed>>
      /\ \/ /\ k \in Present
            /\ seen' = [seen EXCEPT ![w][k] = file[k]]
            /\ used' = [used EXCEPT ![w] = @ + file[k].size]
         \/ /\ k \notin Present \cap listed[w]
            /\ UNCHANGED <<seen, used>>
  BY DEF Visit
<1>2. k \in todo[w]
  <2>1. todo[w] \in SUBSET Nat /\ todo[w] # {}
    BY <1>1, DiskCacheAssumption DEF TypeOK
  <2>2. \E n \in todo[w] : \A m \in todo[w] : n <= m
    BY <2>1, LeastNumber
  <2>3. QED
    BY <2>2 DEF Min
<1> HIDE DEF k
<1>3. k \in Keys /\ todo'[w] = todo[w] \ {k} /\ at'[w] = "walk" /\ listed'[w] = listed[w]
  BY <1>1, <1>2 DEF TypeOK
<1>4. Others(w) /\ Shrinks
  BY <1>1 DEF Others, SamePrune, Shrinks, Present, TypeOK
<1>5. s \in Directories /\ used[w] \in Int /\ s[k] = NoFile /\ Total(s) <= used[w]
  BY <1>1, <1>2, TypesForTotal DEF BudgetInv, Counts, Pruning
<1>6. \A j \in todo[w] : s[j] = NoFile
  BY <1>1 DEF BudgetInv, Counts, Pruning
<1>7. CASE k \in Present /\ seen' = [seen EXCEPT ![w][k] = file[k]]
           /\ used' = [used EXCEPT ![w] = @ + file[k].size]
  <2>1. file[k] \in Files /\ file[k] # NoFile /\ file[k].size \in Int
    BY <1>7, TypesForTotal, SizeIsNumber
  <2>2. seen'[w] = [s EXCEPT ![k] = file[k]]
    BY <1>7 DEF TypeOK
  <2>3. used'[w] = used[w] + file[k].size
    BY <1>7 DEF TypeOK
  <2>4. Total(seen'[w]) <= used'[w]
    <3>1. Total([s EXCEPT ![k] = file[k]]) = Total(s) - Weight(s)[k] + file[k].size
      BY <1>3, <1>5, <2>1, TotalChanges
    <3>2. Weight(s)[k] = 0
      BY <1>3, <1>5 DEF Weight
    <3>3. Total(s) \in Int
      BY <1>5, TotalWeighs
    <3> HIDE DEF s
    <3>4. QED
      BY <1>5, <2>1, <2>2, <2>3, <3>1, <3>2, <3>3
  <2>5. \A j \in Keys \ {k} : seen'[w][j] = s[j]
    BY <1>5, <2>2 DEF Directories
  <2>6. seen'[w][k] = file[k]
    BY <1>3, <1>5, <2>2 DEF Directories
  <2>7. Counts(w)'
    <3>1. \A j \in todo'[w] : seen'[w][j] = NoFile
      BY <1>3, <1>6, <2>5 DEF TypeOK
    <3>2. QED
      BY <1>3, <2>4, <3>1 DEF Counts
  <2>8. ASSUME Covers(w)
        PROVE  Covers(w)'
    <3>1. Present' = Present /\ file' = file
      BY <1>1 DEF Present
    <3>2. \A j \in Present \ todo'[w] : seen'[w][j] # NoFile /\ seen'[w][j].size = file[j].size
      BY <1>3, <2>1, <2>5, <2>6, <2>8, TypesForTotal DEF Covers
    <3>3. QED
      BY <1>3, <2>8, <3>1, <3>2 DEF Covers, Pruning
  <2>9. QED
    BY <1>1, <1>4, <2>7, <2>8, PruneKeeps
<1>8. CASE k \notin Present \cap listed[w] /\ UNCHANGED <<seen, used>>
  <2>1. Counts(w)'
    BY <1>3, <1>5, <1>6, <1>8 DEF Counts
  <2>2. ASSUME Covers(w)
        PROVE  Covers(w)'
    <3>1. Present' = Present /\ file' = file
      BY <1>1 DEF Present
    <3>2. k \notin Present
      BY <1>2, <1>8, <2>2 DEF Covers
    <3>3. QED
      BY <1>3, <1>8, <2>2, <3>1, <3>2 DEF Covers, Pruning
  <2>3. QED
    BY <1>1, <1>4, <2>1, <2>2, PruneKeeps
<1>9. QED
  BY <1>1, <1>7, <1>8

\* prune takes off its count what it has listed, and only what it has removed.
LEMMA RemoveKeeps ==
  ASSUME TypeOK, TypeOK', BudgetInv, NEW w \in Workers, RemoveOldest(w)
  PROVE  BudgetInv'
<1> DEFINE k == Oldest(w)
           s == seen[w]
<1>1. /\ at[w] = "remove"
      /\ file' = [file EXCEPT ![k] = NoFile]
      /\ used' = IF k \in Present THEN [used EXCEPT ![w] = @ - s[k].size] ELSE used
      /\ seen' = [seen EXCEPT ![w][k] = NoFile]
      /\ UNCHANGED <<unsettled, at, todo, listed>>
  BY DEF RemoveOldest
<1>2. k \in Keys /\ s[k] # NoFile
  BY OldestIsListed DEF RemoveOldest
<1> HIDE DEF k
<1>3. Others(w)
  BY <1>1 DEF Others, SamePrune, TypeOK
<1>4. \A j \in Present' : j \in Present /\ j # k /\ file'[j] = file[j]
  BY <1>1, <1>2 DEF Present, TypeOK
<1>5. Shrinks
  BY <1>4 DEF Shrinks
<1>6. s \in Directories /\ used[w] \in Int /\ Total(s) <= used[w] /\ todo[w] = {}
  BY <1>1, TypesForTotal DEF BudgetInv, Counts, Pruning
<1>7. seen'[w] = [s EXCEPT ![k] = NoFile]
  BY <1>1 DEF TypeOK
<1>8. Total(seen'[w]) <= used'[w]
  <2>1. Total([s EXCEPT ![k] = NoFile]) = Total(s) - Weight(s)[k] + 0
    BY <1>2, <1>6, TotalChanges
  <2>2. Weight(s)[k] = s[k].size
    BY <1>2 DEF Weight
  <2>3. Weight(s)[k] \in Nat
    BY <1>2, <1>6, WeightIsNat
  <2>4. Total(s) \in Int
    BY <1>6, TotalWeighs
  <2>5. used'[w] = used[w] \/ used'[w] = used[w] - s[k].size
    BY <1>1 DEF TypeOK
  <2> HIDE DEF s
  <2>6. QED
    BY <1>6, <1>7, <2>1, <2>2, <2>3, <2>4, <2>5
<1>9. Counts(w)'
  BY <1>1, <1>6, <1>8 DEF Counts
<1>10. ASSUME Covers(w)
       PROVE  Covers(w)'
  <2>1. \A j \in Present' : j \in Keys /\ seen'[w][j] = s[j]
    BY <1>4, <1>6, <1>7 DEF Directories, Present
  <2>2. QED
    BY <1>1, <1>4, <1>6, <1>10, <2>1 DEF Covers, Pruning
<1>11. QED
  BY <1>1, <1>3, <1>5, <1>9, <1>10, PruneKeeps

\* A walk that has met the budget is over, and so is a prune that has met it or has
\* nothing left to try.
LEMMA EndKeeps ==
  ASSUME TypeOK, TypeOK', BudgetInv, NEW w \in Workers, EndWalk(w) \/ EndRemove(w)
  PROVE  BudgetInv'
<1>1. /\ UNCHANGED <<file, unsettled, seen, todo, listed, used>>
      /\ Pruning(w) /\ todo[w] = {}
  BY DEF EndWalk, EndRemove, locals, Pruning, BudgetInv, Counts
<1>2. \/ at' = [at EXCEPT ![w] = "remove"]
      \/ at' = [at EXCEPT ![w] = "answer"] /\ (used[w] <= MaxBytes \/ seen[w] = EmptyList)
  BY DEF EndWalk, EndRemove, Goto
<1>3. Others(w)
  BY <1>1, <1>2 DEF Others, SamePrune, TypeOK
<1>4. Shrinks
  BY <1>1 DEF Shrinks, Present
<1>5. SamePrune(w)
  BY <1>1 DEF SamePrune
<1>6. Counts(w)'
  BY <1>1, <1>5, CountsStay DEF BudgetInv
<1>7. ASSUME Covers(w)
      PROVE  Covers(w)' \/ Total(file') <= MaxBytes
  <2>1. CASE at' = [at EXCEPT ![w] = "remove"]
    <3>1. Pruning(w)'
      BY <2>1 DEF Pruning, TypeOK
    <3>2. QED
      BY <1>4, <1>5, <1>7, <3>1, CoversStays
  <2>2. CASE used[w] <= MaxBytes \/ seen[w] = EmptyList
    <3>1. Total(file) <= MaxBytes
      BY <1>1, <1>7, <2>2, PruneSettles DEF BudgetInv
    <3>2. QED
      BY <1>1, <3>1
  <2>3. QED
    BY <1>2, <2>1, <2>2
<1>8. QED
  BY <1>1, <1>3, <1>4, <1>6, <1>7, PruneKeeps

\* No step leaves the directory over its budget with nobody to prune it.
LEMMA BudgetStep == TypeOK /\ TypeOK' /\ BudgetInv /\ [Next]_vars => BudgetInv'
<1> SUFFICES ASSUME TypeOK, TypeOK', BudgetInv, [Next]_vars
             PROVE  BudgetInv'
  OBVIOUS
<1>a. AsideStep => BudgetInv'
  BY AsideKeeps
<1>b. file' = file => Shrinks
  BY DEF Shrinks, Present
<1>t. DOMAIN at = Workers
  BY DEF TypeOK
<1>1. ASSUME NEW w \in Workers, NEW k \in Keys, Call(w, k)
      PROVE  BudgetInv'
  <2>1. AsideStep
    BY <1>1, <1>b, <1>t DEF Call, AsideStep, Goto, locals, Pruning, SamePrune
  <2>2. QED
    BY <2>1, <1>a
<1>2. ASSUME NEW w \in Workers,
             ReadHit(w) \/ ReadMiss(w) \/ ReadMissAgain(w) \/ Render(w) \/ Create(w) \/ Write(w)
      PROVE  BudgetInv'
  <2>1. AsideStep
    BY <1>2, <1>b, <1>t DEF ReadHit, ReadMiss, ReadMissAgain, Render, Create, Write, AsideStep,
       Goto, locals, Pruning, SamePrune
  <2>2. QED
    BY <2>1, <1>a
<1>3. ASSUME NEW w \in Workers, TouchFile(w)
      PROVE  BudgetInv'
  <2>1. Shrinks
    <3>1. CASE key[w] \in Present
      <4>1. file[key[w]] \in Files /\ key[w] \in Keys
        BY <3>1, TypesForTotal
      <4>2. [file[key[w]] EXCEPT !.time = clock].size = file[key[w]].size
        BY <4>1 DEF Files
      <4>3. file' = [file EXCEPT ![key[w]] = [file[key[w]] EXCEPT !.time = clock]]
        BY <1>3, <3>1 DEF TouchFile
      <4>4. \A k \in Keys \ {key[w]} : file'[k] = file[k]
        BY <4>3 DEF TypeOK
      <4>5. file'[key[w]].size = file[key[w]].size
        BY <4>1, <4>2, <4>3 DEF TypeOK
      <4>6. QED
        BY <3>1, <4>4, <4>5 DEF Shrinks, Present
    <3>2. CASE key[w] \notin Present
      BY <1>3, <3>2, <1>b DEF TouchFile
    <3>3. QED
      BY <3>1, <3>2
  <2>2. AsideStep
    BY <1>3, <1>t, <2>1 DEF TouchFile, AsideStep, Goto, locals, Pruning, SamePrune
  <2>3. QED
    BY <2>2, <1>a
<1>4. ASSUME NEW w \in Workers, Rename(w)
      PROVE  BudgetInv'
  <2>1. CASE StartWalk(w)
    BY <1>4, <2>1, StartKeeps DEF Rename
  <2>2. CASE ~StartWalk(w)
    <3>1. AsideStep
      BY <1>4, <1>b, <1>t, <2>2 DEF Rename, AsideStep, Goto, Pruning, SamePrune
    <3>2. QED
      BY <3>1, <1>a
  <2>3. QED
    BY <2>1, <2>2
<1>5. ASSUME NEW w \in Workers, Visit(w) \/ RemoveOldest(w) \/ EndWalk(w) \/ EndRemove(w)
      PROVE  BudgetInv'
  BY <1>5, VisitKeeps, RemoveKeeps, EndKeeps
<1>6. ASSUME NEW w \in Workers, Return(w) \/ Answer(w)
      PROVE  BudgetInv'
  <2>1. AsideStep
    BY <1>6, <1>b, <1>t DEF Return, Answer, Forget, AsideStep, Pruning, SamePrune
  <2>2. QED
    BY <2>1, <1>a
<1>7. ASSUME NEW w \in Workers, Crash(instance[w])
      PROVE  BudgetInv'
  <2> DEFINE dead == {v \in Workers : instance[v] = instance[w]}
  <2>1. Forget(dead) /\ file' = file
    BY <1>7 DEF Crash
  <2>2. unsettled' = (unsettled \/ \E v \in dead : Pruning(v))
    BY <1>7 DEF Crash, Pruning
  <2>3. AsideStep
    BY <2>1, <2>2, <1>b, <1>t DEF Forget, AsideStep, Pruning, SamePrune
  <2>4. QED
    BY <2>3, <1>a
<1>8. CASE Tick \/ UNCHANGED vars
  <2>1. AsideStep
    BY <1>8, <1>b, <1>t DEF Tick, vars, AsideStep, locals, Pruning, SamePrune
  <2>2. QED
    BY <2>1, <1>a
<1>9. QED
  BY <1>1, <1>2, <1>3, <1>4, <1>5, <1>6, <1>7, <1>8 DEF Next, Step

\* Whenever no prune runs the directory is within its budget, whichever prunes and
\* writes of whichever processes overlapped (render_cache.go:288-329).
THEOREM BudgetMet == Spec => []QuiescentBudget
<1>1. ASSUME Init, TypeOK
      PROVE  BudgetInv
  <2>1. at = [w \in Workers |-> "idle"] /\ unsettled = (Total(file) > MaxBytes)
    BY <1>1, Zenon DEF Init
  <2>2. \A w \in Workers : Counts(w)
    BY <2>1 DEF Counts, Pruning
  <2>3. unsettled \/ Total(file) <= MaxBytes
    <3>1. Total(file) \in Int /\ MaxBytes \in Nat
      BY <1>1, TypesForTotal, TotalWeighs, DiskCacheAssumption
    <3>2. Total(file) > MaxBytes \/ Total(file) <= MaxBytes
      BY <3>1
    <3>3. QED
      BY <2>1, <3>2, Zenon
  <2>4. QED
    BY <2>2, <2>3 DEF BudgetInv, Covered
<1>2. BudgetInv => QuiescentBudget
  <2> SUFFICES ASSUME BudgetInv, \A w \in Workers : at[w] \notin {"walk", "remove"}, ~unsettled
               PROVE  Total(file) <= MaxBytes
    BY DEF QuiescentBudget
  <2>1. \A w \in Workers : ~Covers(w)
    BY DEF Covers, Pruning
  <2>2. QED
    BY <2>1 DEF BudgetInv, Covered
<1>3. QED
  BY <1>1, <1>2, BudgetStep, TypeCorrect, PTL DEF Spec
================================================================================
