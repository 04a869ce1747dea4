----------------------------------- MODULE LRU ---------------------------------
(***************************************************************************)
(* internal/cache: the byte-budgeted LRU list and map of Cache, as the     *)
(* critical sections under c.mu see them.  items stands for the map and    *)
(* the list elements it points to, order for the list from front (most     *)
(* recently used) to back, used for the running byte count, which the code *)
(* keeps beside the list and never recomputes.                             *)
(***************************************************************************)
EXTENDS SequencesExt, FiniteSetsExt

CONSTANTS
  Keys,      \* cache keys
  Values,    \* cached values
  Absent,    \* sentinel: no entry for the key
  Size,      \* Size[v]: what sizeOf returns for v
  MaxBytes   \* the byte budget; NewBytes with a non-positive one is disabled

ASSUME LRUAssumption ==
  /\ Size \in [Values -> Int]
  /\ MaxBytes \in Nat \ {0}

VARIABLES items, order, used

lvars == <<items, order, used>>

\* An entry costs at least one byte.
Bytes(v) == IF Size[v] <= 0 THEN 1 ELSE Size[v]

Entry(v) == [value |-> v, bytes |-> Bytes(v)]

Cached == {k \in Keys : items[k] # Absent}

BytesOf(k) == IF items[k] = Absent THEN 0 ELSE items[k].bytes

LInit ==
  /\ items = [k \in Keys |-> Absent]
  /\ order = <<>>
  /\ used = 0

\* The list after MoveToFront of the key's element, or PushFront of a new one.
ToFront(k) == <<k>> \o RemoveFirst(order, k)

\* A hit moves the key's element to the front.
Touch(k) ==
  /\ k \in Cached
  /\ order' = ToFront(k)
  /\ UNCHANGED <<items, used>>

\* The list s of entries stored is left, with total bytes accounted.
Keep(stored, s, total) ==
  /\ order' = s
  /\ items' = [j \in Keys |-> IF j \in ToSet(s) THEN stored[j] ELSE Absent]
  /\ used' = total

CostOf(stored, s) == SumFunction([i \in DOMAIN s |-> stored[s[i]].bytes])

\* Fault: elements are taken from the front of the list.
EvictLocked_FromFront(stored, list, total) ==
  LET Freed(n) == CostOf(stored, SubSeq(list, 1, n))
      gone == Min({n \in 0..Len(list) : n = Len(list) \/ total - Freed(n) <= MaxBytes})
  IN Keep(stored, SubSeq(list, gone + 1, Len(list)), total - Freed(gone))

\* Elements leave from the back while the count exceeds the budget; kept is
\* the number of elements when the loop stops, at an empty list at the latest.
EvictLocked(stored, list, total) ==
  LET Freed(n) == CostOf(stored, SubSeq(list, n + 1, Len(list)))
      kept == Max({n \in 0..Len(list) : n = 0 \/ total - Freed(n) <= MaxBytes})
  IN Keep(stored, SubSeq(list, 1, kept), total - Freed(kept))

\* Put stores or replaces the entry, moves it to the front and evicts.
Put(k, v) ==
  EvictLocked([items EXCEPT ![k] = Entry(v)], ToFront(k),
              used - BytesOf(k) + Bytes(v))

--------------------------------------------------------------------------------
\* The list and the map hold the same keys, each once; the running count is what
\* the entries cost together, through replacements and evictions, and outside the
\* critical section it is within the budget.
BudgetKept ==
  /\ ToSet(order) = Cached
  /\ \A i, j \in DOMAIN order : order[i] = order[j] => i = j
  /\ used = SumFunction([k \in Cached |-> BytesOf(k)])
  /\ used <= MaxBytes

Position(k) == CHOOSE i \in DOMAIN order : order[i] = k

\* Least recently used first: whatever a step removes was used less recently
\* than every entry it leaves as it is.
OldestFirst ==
  \A gone \in Cached \ Cached', kept \in Cached \cap Cached' :
    items'[kept] = items[kept] => Position(kept) < Position(gone)

\* Nothing is evicted that would have fitted: the budget would not hold the
\* most recently used of the removed entries beside the survivors.  (A value
\* that exceeds the budget alone flushes the cache, itself included.)
OnlyWhenFull ==
  \A gone \in Cached \ Cached' :
    /\ \A k \in Cached \ Cached' : Position(gone) <= Position(k)
    /\ Len(order') > 0
    => used' + BytesOf(gone) > MaxBytes

\* Whatever is stored, replaced or evicted, the accounts are right afterwards and only
\* the oldest entries have gone, no more of them than had to (cache.go:79-103, 139-151).
EvictsAsItMust == [][BudgetKept' /\ OldestFirst /\ OnlyWhenFull]_lvars
================================================================================
