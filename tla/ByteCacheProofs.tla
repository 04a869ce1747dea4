----------------------------- MODULE ByteCacheProofs ---------------------------
(***************************************************************************)
(* Theorems about Cache.Do for any number of goroutines, keys and values   *)
(* and any budget, and about the stores of the example programs for any    *)
(* requests, pages and budgets.  The flight group is used through its own  *)
(* theorems: the cache's steps are steps of the group or leave it alone,   *)
(* so the group's inductive invariant holds here too.                      *)
(***************************************************************************)
EXTENDS ByteCache, AssetStore, DataTheorems, TLAPS

FP == INSTANCE FlightProofs

\* The types of what the cache adds to the group.
CacheTypeOK ==
  /\ items \in [Keys -> [value : Values, bytes : Nat \ {0}] \cup {Absent}]
  /\ at \in [Procs -> {"out", "missed", "recheck", "loading", "storing", "inflight"}]
  /\ ckey \in [Procs -> Keys \cup {NoKey}]
  /\ loaded \in [Procs -> Values \cup {"none"}]

\* The place in Cache.Do, the place in Group.Do and the locals agree.
PlacesAgree ==
  \A p \in Procs :
    /\ at[p] \in {"out", "missed"} <=> pc[p] = "idle"
    /\ at[p] \in {"recheck", "loading", "storing"} <=> pc[p] = "running"
    /\ at[p] = "out" <=> ckey[p] = NoKey
    /\ pc[p] # "idle" => key[p] = ckey[p]
    /\ at[p] = "storing" => loaded[p] \in Values

\* Goroutines that hold one call asked for one key, also after its release.
OneKeyPerCall ==
  \A p, q \in Procs : cur[p] = cur[q] /\ cur[p] # NoCall => key[p] = key[q]

CacheInv ==
  /\ FP!FlightInv
  /\ CacheTypeOK
  /\ PlacesAgree
  /\ OneKeyPerCall
  /\ ValuesBelongToKeys
  /\ LoadsOnlyMissingKeys

--------------------------------------------------------------------------------
\* What an entry looks like.
LEMMA EntryType ==
  ASSUME NEW v \in Values
  PROVE  Entry(v) \in [value : Values, bytes : Nat \ {0}]
<1>1. Size[v] \in Int
  BY LRUAssumption
<1>2. Bytes(v) \in Nat \ {0}
  BY <1>1 DEF Bytes
<1>3. QED
  BY <1>2 DEF Entry

\* Whatever Put evicts, it leaves entries alone or removes them, and the only
\* entry that may be new is the one that was put.
LEMMA PutChangesOneKey ==
  ASSUME CacheTypeOK, NEW k \in Keys, NEW v \in Values, Put(k, v)
  PROVE  /\ items' \in [Keys -> [value : Values, bytes : Nat \ {0}] \cup {Absent}]
         /\ items'[k] \in {Entry(v), Absent}
         /\ \A j \in Keys \ {k} : items'[j] \in {items[j], Absent}
<1>1. PICK S : items' = [j \in Keys |->
                           IF j \in S THEN [items EXCEPT ![k] = Entry(v)][j] ELSE Absent]
  BY DEF Put, EvictLocked, Keep
<1>2. QED
  BY <1>1, EntryType DEF CacheTypeOK

\* A key is loaded by one goroutine: two running loaders would be two runs of
\* the group's function.
LEMMA LoadersDiffer ==
  ASSUME CacheInv, NEW p \in Procs, NEW q \in Procs,
         at[p] \in {"recheck", "loading", "storing"},
         at[q] \in {"recheck", "loading", "storing"},
         ckey[p] = ckey[q]
  PROVE  p = q
<1>1. pc[p] = "running" /\ pc[q] = "running" /\ key[p] = key[q]
  BY DEF CacheInv, PlacesAgree
<1>2. cur[p] = cur[q]
  BY <1>1 DEF CacheInv, FP!FlightInv, FP!EntryInv
<1>3. QED
  BY <1>1, <1>2 DEF CacheInv, FP!FlightInv, FP!OwnerInv, FP!Executing

\* Every step of the cache is a step of the flight group or does not touch it.
LEMMA StepIsFlightStep ==
  ASSUME CacheInv, [Next]_vars
  PROVE  [FP!Next]_(FP!vars)
<1> USE DEF CacheInv, CacheTypeOK, PlacesAgree
<1>1. CASE UNCHANGED vars
  BY <1>1 DEF vars, FP!vars
<1>2. ASSUME NEW p \in Procs, NEW k \in Keys,
             Hit(p, k) \/ Miss(p, k) \/ DirectPut(p, k)
      PROVE  UNCHANGED FP!vars
  BY <1>2 DEF Hit, Miss, DirectPut, FP!vars, fvars
<1>3. ASSUME NEW p \in Procs, ShareLoad(p)
      PROVE  FP!Next
  <2>1. ckey[p] \in Keys
    BY <1>3 DEF ShareLoad
  <2>2. FP!Join(p, ckey[p])
    BY <1>3 DEF ShareLoad, F!Join, FP!Join
  <2>3. QED
    BY <2>1, <2>2 DEF FP!Next
<1>4. ASSUME NEW p \in Procs, LeadLoad(p)
      PROVE  FP!Next
  <2>1. ckey[p] \in Keys
    BY <1>4 DEF LeadLoad
  <2>2. FP!Lead(p, ckey[p])
    BY <1>4 DEF LeadLoad, F!Lead, FP!Lead, F!Unreferenced, FP!Unreferenced
  <2>3. QED
    BY <2>1, <2>2 DEF FP!Next
<1>5. ASSUME NEW p \in Procs, NEW o \in FP!Outcomes, F!FnEnds(p, o)
      PROVE  FP!Next
  BY <1>5 DEF F!FnEnds, FP!FnEnds, FP!Next, FP!Step
<1>6. ASSUME NEW p \in Procs, RecheckHit(p)
      PROVE  FP!Next
  <2>1. items[ckey[p]].value \in Values
    BY <1>6 DEF RecheckHit, Touch, Cached
  <2>2. QED
    BY <1>5, <1>6, <2>1 DEF RecheckHit, FP!Outcomes
<1>7. ASSUME NEW p \in Procs, RecheckMiss(p) \/ LoadSucceeds(p)
      PROVE  UNCHANGED FP!vars
  BY <1>7 DEF RecheckMiss, LoadSucceeds, FP!vars, fvars
<1>8. ASSUME NEW p \in Procs, LoadFails(p)
      PROVE  FP!Next
  BY <1>5, <1>8 DEF LoadFails, FP!Outcomes
<1>9. ASSUME NEW p \in Procs, StoreLoaded(p)
      PROVE  FP!Next
  BY <1>5, <1>9 DEF StoreLoaded, FP!Outcomes
<1>10. ASSUME NEW p \in Procs, Publish(p) \/ Release(p) \/ Return(p)
       PROVE  FP!Next
  BY <1>10 DEF Publish, Release, Return, F!Publish, F!Release, F!Leave, F!Wake,
     FP!Publish, FP!Release, FP!Leave, FP!Wake, F!Exit, FP!Exit, F!Seen, FP!Seen,
     FP!Next, FP!Step
<1>11. QED
  BY <1>1, <1>2, <1>3, <1>4, <1>6, <1>7, <1>8, <1>9, <1>10 DEF Next, Step

\* The group's inductive invariant is kept.
LEMMA FlightInvKept ==
  ASSUME CacheInv, [Next]_vars
  PROVE  FP!FlightInv'
  BY StepIsFlightStep, FP!InvStep, ByteCacheAssumption DEF CacheInv, Marks

--------------------------------------------------------------------------------
\* The cache starts empty.
LEMMA InitInv == Init => CacheInv
<1> SUFFICES ASSUME Init PROVE CacheInv
  OBVIOUS
<1> USE ByteCacheAssumption DEF Init, LInit
<1>1. FP!Init
  BY DEF F!Init, FP!Init
<1>2. FP!FlightInv
  BY <1>1, FP!InitInv DEF Marks
<1>3. CacheTypeOK /\ PlacesAgree /\ OneKeyPerCall
  BY DEF F!Init, CacheTypeOK, PlacesAgree, OneKeyPerCall
<1>4. ValuesBelongToKeys /\ LoadsOnlyMissingKeys
  BY DEF F!Init, ValuesBelongToKeys, LoadsOnlyMissingKeys, Cached
<1>5. QED
  BY <1>2, <1>3, <1>4 DEF CacheInv

\* Types and places.
LEMMA PlacesKept ==
  ASSUME CacheInv, [Next]_vars
  PROVE  CacheTypeOK' /\ PlacesAgree'
<1> USE ByteCacheAssumption
    DEF CacheInv, CacheTypeOK, PlacesAgree, Goto, fvars, lvars,
        FP!FlightInv, FP!TypeOK
<1>1. CASE UNCHANGED vars
  BY <1>1 DEF vars
<1>2. ASSUME NEW p \in Procs, NEW k \in Keys, Hit(p, k)
      PROVE  CacheTypeOK' /\ PlacesAgree'
  BY <1>2 DEF Hit, Touch
<1>3. ASSUME NEW p \in Procs, NEW k \in Keys, Miss(p, k)
      PROVE  CacheTypeOK' /\ PlacesAgree'
  BY <1>3 DEF Miss
<1>4. ASSUME NEW p \in Procs, NEW k \in Keys, DirectPut(p, k)
      PROVE  CacheTypeOK' /\ PlacesAgree'
  <2>1. PICK v \in Loads[k] : Put(k, v)
    BY <1>4 DEF DirectPut
  <2>2. v \in Values
    BY <2>1
  <2>3. items' \in [Keys -> [value : Values, bytes : Nat \ {0}] \cup {Absent}]
    BY <2>1, <2>2, PutChangesOneKey
  <2>4. QED
    BY <1>4, <2>3 DEF DirectPut
<1>5. ASSUME NEW p \in Procs, ShareLoad(p)
      PROVE  CacheTypeOK' /\ PlacesAgree'
  BY <1>5 DEF ShareLoad, F!Join
<1>6. ASSUME NEW p \in Procs, LeadLoad(p)
      PROVE  CacheTypeOK' /\ PlacesAgree'
  BY <1>6 DEF LeadLoad, F!Lead
<1>7. ASSUME NEW p \in Procs, RecheckHit(p)
      PROVE  CacheTypeOK' /\ PlacesAgree'
  BY <1>7 DEF RecheckHit, Touch, F!FnEnds
<1>8. ASSUME NEW p \in Procs, RecheckMiss(p)
      PROVE  CacheTypeOK' /\ PlacesAgree'
  BY <1>8 DEF RecheckMiss
<1>9. ASSUME NEW p \in Procs, LoadFails(p)
      PROVE  CacheTypeOK' /\ PlacesAgree'
  BY <1>9 DEF LoadFails, F!FnEnds
<1>10. ASSUME NEW p \in Procs, LoadSucceeds(p)
       PROVE  CacheTypeOK' /\ PlacesAgree'
  BY <1>10 DEF LoadSucceeds
<1>11. ASSUME NEW p \in Procs, StoreLoaded(p)
       PROVE  CacheTypeOK' /\ PlacesAgree'
  <2>1. ckey[p] \in Keys /\ loaded[p] \in Values /\ Put(ckey[p], loaded[p])
    BY <1>11 DEF StoreLoaded
  <2>2. items' \in [Keys -> [value : Values, bytes : Nat \ {0}] \cup {Absent}]
    BY <2>1, PutChangesOneKey
  <2>3. QED
    BY <1>11, <2>2 DEF StoreLoaded, F!FnEnds
<1>12. ASSUME NEW p \in Procs, Publish(p) \/ Release(p)
       PROVE  CacheTypeOK' /\ PlacesAgree'
  BY <1>12 DEF Publish, Release, F!Publish, F!Release
<1>13. ASSUME NEW p \in Procs, Return(p)
       PROVE  CacheTypeOK' /\ PlacesAgree'
  BY <1>13 DEF Return, F!Leave, F!Wake, F!Exit
<1>14. QED
  BY <1>1, <1>2, <1>3, <1>4, <1>5, <1>6, <1>7, <1>8, <1>9, <1>10, <1>11, <1>12,
     <1>13 DEF Next, Step

\* A sharer takes over the key of the leader whose call it joins, and a new
\* call is nobody else's.
LEMMA OneKeyKept ==
  ASSUME CacheInv, [Next]_vars
  PROVE  OneKeyPerCall'
<1> USE DEF CacheInv, FP!FlightInv, FP!TypeOK, OneKeyPerCall
<1>1. CASE UNCHANGED <<key, cur>>
  BY <1>1
<1>2. ASSUME NEW p \in Procs, ShareLoad(p)
      PROVE  OneKeyPerCall'
  <2>1. /\ m[ckey[p]] # NoCall /\ ckey[p] \in Keys
        /\ key' = [key EXCEPT ![p] = ckey[p]]
        /\ cur' = [cur EXCEPT ![p] = m[ckey[p]]]
    BY <1>2 DEF ShareLoad, F!Join, CacheTypeOK, PlacesAgree
  <2>2. PICK r \in FP!Leaders : key[r] = ckey[p] /\ cur[r] = m[ckey[p]]
    BY <2>1 DEF FP!LeaderInv
  <2>3. r \in Procs
    BY DEF FP!Leaders
  <2>4. QED
    BY <2>1, <2>2, <2>3
<1>3. ASSUME NEW p \in Procs, LeadLoad(p)
      PROVE  OneKeyPerCall'
  <2>1. PICK c \in Calls : F!Unreferenced(c) /\ cur' = [cur EXCEPT ![p] = c]
    BY <1>3 DEF LeadLoad, F!Lead
  <2>2. key' = [key EXCEPT ![p] = ckey[p]]
    BY <1>3 DEF LeadLoad, F!Lead
  <2>3. QED
    BY <2>1, <2>2 DEF F!Unreferenced
<1>4. ASSUME NEW p \in Procs, Return(p)
      PROVE  OneKeyPerCall'
  BY <1>4 DEF Return, F!Leave, F!Wake, F!Exit
<1>5. QED
  BY <1>1, <1>2, <1>3, <1>4
  DEF Next, Step, vars, fvars, Hit, Miss, DirectPut, RecheckHit, RecheckMiss,
      LoadFails, LoadSucceeds, StoreLoaded, Publish, Release, F!FnEnds,
      F!Publish, F!Release

\* The part of ValuesBelongToKeys about outcomes that are being returned.
OutcomesBelong ==
  \A p \in Procs : at[p] = "inflight" /\ outcome[cur[p]] \in Values =>
    outcome[cur[p]] \in Loads[ckey[p]]

\* It is kept when a function ends with a value of its key, because everybody
\* who holds the call asked for that key.
LEMMA EndKeepsOutcomes ==
  ASSUME CacheInv, NEW p \in Procs, NEW o, F!FnEnds(p, o), Goto(p, "inflight"),
         UNCHANGED ckey, o \in Values => o \in Loads[ckey[p]]
  PROVE  OutcomesBelong'
<1> USE DEF CacheInv, CacheTypeOK, PlacesAgree, FP!FlightInv, FP!TypeOK,
            FP!LocalsInv
<1> SUFFICES ASSUME NEW q \in Procs, at'[q] = "inflight", outcome'[cur'[q]] \in Values
             PROVE  outcome'[cur'[q]] \in Loads[ckey'[q]]
  BY DEF OutcomesBelong
<1>1. /\ cur[p] \in Calls /\ cur[p] # NoCall /\ cur[q] \in Calls /\ cur' = cur
      /\ outcome' = [outcome EXCEPT ![cur[p]] = o]
  BY ByteCacheAssumption DEF F!FnEnds, Goto
<1>2. CASE cur[q] = cur[p]
  <2>1. key[q] = key[p]
    BY <1>1, <1>2 DEF OneKeyPerCall
  <2>2. ckey[q] = ckey[p]
    BY <1>1, <1>2, <2>1 DEF F!FnEnds, Goto
  <2>3. QED
    BY <1>1, <1>2, <2>2
<1>3. CASE cur[q] # cur[p]
  <2>1. outcome'[cur'[q]] = outcome[cur[q]] /\ at[q] = "inflight"
    BY <1>1, <1>3 DEF Goto
  <2>2. QED
    BY <2>1 DEF ValuesBelongToKeys
<1>4. QED
  BY <1>2, <1>3

\* A sharer that comes when the function has ended gets a value of its key.
LEMMA ShareKeepsOutcomes ==
  ASSUME CacheInv, NEW p \in Procs, ShareLoad(p)
  PROVE  OutcomesBelong'
<1> USE DEF CacheInv, CacheTypeOK, PlacesAgree, FP!FlightInv, FP!TypeOK
<1>1. /\ ckey[p] \in Keys /\ m[ckey[p]] # NoCall /\ ckey' = ckey
      /\ cur' = [cur EXCEPT ![p] = m[ckey[p]]] /\ outcome' = outcome
      /\ at' = [at EXCEPT ![p] = "inflight"]
  BY DEF ShareLoad, F!Join, Goto
<1>2. PICK r \in FP!Leaders : key[r] = ckey[p] /\ cur[r] = m[ckey[p]]
  BY <1>1 DEF FP!LeaderInv
<1>3. r \in Procs /\ pc[r] \in {"running", "ended", "published"}
  BY DEF FP!Leaders
<1>4. outcome[cur[r]] \in Values => outcome[cur[r]] \in Loads[ckey[p]]
  <2>1. CASE pc[r] = "running"
    BY <1>3, <2>1, ByteCacheAssumption DEF FP!OrderInv, Marks
  <2>2. CASE pc[r] # "running"
    BY <1>2, <1>3, <2>2 DEF ValuesBelongToKeys
  <2>3. QED
    BY <2>1, <2>2
<1>5. QED
  BY <1>1, <1>2, <1>4 DEF OutcomesBelong, ValuesBelongToKeys

\* A step leaves every value under the key it was loaded for.
LEMMA ValuesKept ==
  ASSUME CacheInv, [Next]_vars
  PROVE  ValuesBelongToKeys'
<1> USE DEF CacheInv, CacheTypeOK
<1>1. CASE UNCHANGED vars
  BY <1>1 DEF vars, ValuesBelongToKeys, Cached
<1>2. ASSUME NEW k \in Keys, NEW v \in Loads[k], Put(k, v)
      PROVE  \A j \in Cached' : items'[j].value \in Loads[j]
  <2>1. v \in Values
    BY ByteCacheAssumption
  <2>2. /\ items'[k] \in {Entry(v), Absent}
        /\ \A j \in Keys \ {k} : items'[j] \in {items[j], Absent}
    BY <1>2, <2>1, PutChangesOneKey
  <2>3. Entry(v).value = v
    BY DEF Entry
  <2>4. QED
    BY <2>2, <2>3 DEF ValuesBelongToKeys, Cached
<1>3. ASSUME NEW p \in Procs, NEW k \in Keys, Hit(p, k) \/ Miss(p, k)
      PROVE  ValuesBelongToKeys'
  BY <1>3 DEF Hit, Miss, Touch, Goto, fvars, lvars, ValuesBelongToKeys, Cached
<1>4. ASSUME NEW p \in Procs, NEW k \in Keys, DirectPut(p, k)
      PROVE  ValuesBelongToKeys'
  <2>1. \A j \in Cached' : items'[j].value \in Loads[j]
    BY <1>2, <1>4 DEF DirectPut
  <2>2. QED
    BY <1>4, <2>1 DEF DirectPut, fvars, ValuesBelongToKeys
<1>5. ASSUME NEW p \in Procs, ShareLoad(p)
      PROVE  ValuesBelongToKeys'
  BY <1>5, ShareKeepsOutcomes
     DEF ShareLoad, Goto, lvars, ValuesBelongToKeys, OutcomesBelong, Cached
<1>6. ASSUME NEW p \in Procs, LeadLoad(p)
      PROVE  ValuesBelongToKeys'
  <2>1. PICK c \in Calls : /\ F!Unreferenced(c)
                           /\ cur' = [cur EXCEPT ![p] = c]
                           /\ outcome' = [outcome EXCEPT ![c] = "unset"]
    BY <1>6 DEF LeadLoad, F!Lead
  <2>2. ASSUME NEW q \in Procs, at'[q] = "inflight", outcome'[cur'[q]] \in Values
        PROVE  outcome'[cur'[q]] \in Loads[ckey'[q]]
    <3>1. q # p /\ at[q] = "inflight" /\ ckey'[q] = ckey[q]
      BY <1>6, <2>2 DEF LeadLoad, Goto
    <3>2. cur'[q] = cur[q] /\ cur[q] # c /\ cur[q] \in Calls
      BY <2>1, <3>1 DEF F!Unreferenced, PlacesAgree, FP!FlightInv, FP!TypeOK,
                        FP!LocalsInv
    <3>3. outcome'[cur'[q]] = outcome[cur[q]]
      BY <2>1, <3>2 DEF FP!FlightInv, FP!TypeOK
    <3>4. QED
      BY <2>2, <3>1, <3>3 DEF ValuesBelongToKeys
  <2>3. QED
    BY <1>6, <2>2 DEF LeadLoad, Goto, lvars, ValuesBelongToKeys, Cached
<1>7. ASSUME NEW p \in Procs, RecheckHit(p)
      PROVE  ValuesBelongToKeys'
  <2>1. OutcomesBelong'
    BY <1>7, EndKeepsOutcomes DEF RecheckHit, Touch, ValuesBelongToKeys
  <2>2. QED
    BY <1>7, <2>1 DEF RecheckHit, Touch, Goto, ValuesBelongToKeys,
                      OutcomesBelong, Cached
<1>8. ASSUME NEW p \in Procs, RecheckMiss(p)
      PROVE  ValuesBelongToKeys'
  BY <1>8 DEF RecheckMiss, Goto, fvars, lvars, ValuesBelongToKeys, Cached
<1>9. ASSUME NEW p \in Procs, LoadFails(p)
      PROVE  ValuesBelongToKeys'
  <2>1. OutcomesBelong'
    <3>1. PICK o \in Failures : F!FnEnds(p, o)
      BY <1>9 DEF LoadFails
    <3>2. o \notin Values
      BY ByteCacheAssumption DEF Marks
    <3>3. QED
      BY <1>9, <3>1, <3>2, EndKeepsOutcomes DEF LoadFails
  <2>2. QED
    BY <1>9, <2>1 DEF LoadFails, Goto, lvars, ValuesBelongToKeys,
                      OutcomesBelong, Cached
<1>10. ASSUME NEW p \in Procs, LoadSucceeds(p)
       PROVE  ValuesBelongToKeys'
  BY <1>10 DEF LoadSucceeds, Goto, fvars, lvars, ValuesBelongToKeys, Cached
<1>11. ASSUME NEW p \in Procs, StoreLoaded(p)
       PROVE  ValuesBelongToKeys'
  <2>1. ckey[p] \in Keys /\ loaded[p] \in Loads[ckey[p]]
    BY <1>11, ByteCacheAssumption DEF StoreLoaded, ValuesBelongToKeys, PlacesAgree
  <2>2. OutcomesBelong'
    BY <1>11, <2>1, EndKeepsOutcomes DEF StoreLoaded
  <2>3. \A j \in Cached' : items'[j].value \in Loads[j]
    BY <1>2, <1>11, <2>1 DEF StoreLoaded
  <2>4. QED
    BY <1>11, <2>2, <2>3 DEF StoreLoaded, Goto, ValuesBelongToKeys, OutcomesBelong
<1>12. ASSUME NEW p \in Procs, Publish(p) \/ Release(p)
       PROVE  ValuesBelongToKeys'
  BY <1>12 DEF Publish, Release, F!Publish, F!Release, lvars,
               ValuesBelongToKeys, Cached
<1>13. ASSUME NEW p \in Procs, Return(p)
       PROVE  ValuesBelongToKeys'
  <2>1. /\ at' = [at EXCEPT ![p] = "out"] /\ ckey' = [ckey EXCEPT ![p] = NoKey]
        /\ cur' = [cur EXCEPT ![p] = NoCall] /\ outcome' = outcome
        /\ items' = items /\ loaded' = loaded
    BY <1>13 DEF Return, F!Leave, F!Wake, F!Exit, Goto, lvars
  <2>2. \A q \in Procs : at'[q] \in {"inflight", "storing"} =>
          /\ at'[q] = at[q] /\ ckey'[q] = ckey[q] /\ cur'[q] = cur[q]
    BY <2>1 DEF FP!FlightInv, FP!TypeOK
  <2>3. QED
    BY <2>1, <2>2 DEF ValuesBelongToKeys, Cached
<1>14. QED
  BY <1>1, <1>3, <1>4, <1>5, <1>6, <1>7, <1>8, <1>9, <1>10, <1>11, <1>12, <1>13
     DEF Next, Step

\* A store for one key leaves the keys of the other loaders missing, and the
\* second lookup admits only loaders of missing keys.
LEMMA MissingKept ==
  ASSUME CacheInv, [Next]_vars
  PROVE  LoadsOnlyMissingKeys'
<1> SUFFICES ASSUME NEW q \in Procs, at'[q] \in {"loading", "storing"},
                    ckey'[q] \notin PutKeys
             PROVE  ckey'[q] \notin Cached'
  BY DEF LoadsOnlyMissingKeys
<1> USE DEF CacheInv, CacheTypeOK
<1>1. ASSUME at[q] \in {"loading", "storing"}, ckey'[q] = ckey[q], items' = items
      PROVE  ckey'[q] \notin Cached'
  BY <1>1 DEF LoadsOnlyMissingKeys, Cached
<1>2. CASE UNCHANGED vars
  BY <1>1, <1>2 DEF vars
<1>3. ASSUME NEW p \in Procs, NEW k \in Keys, Hit(p, k) \/ Miss(p, k)
      PROVE  ckey'[q] \notin Cached'
  <2>1. at[q] \in {"loading", "storing"} /\ ckey'[q] = ckey[q] /\ items' = items
    BY <1>3 DEF Hit, Miss, Touch, Goto, lvars
  <2>2. QED
    BY <1>1, <2>1
<1>4. ASSUME NEW p \in Procs, NEW k \in Keys, DirectPut(p, k)
      PROVE  ckey'[q] \notin Cached'
  <2>1. PICK v \in Loads[k] : Put(k, v)
    BY <1>4 DEF DirectPut
  <2>2. /\ k \in PutKeys /\ v \in Values
        /\ at[q] \in {"loading", "storing"} /\ ckey'[q] = ckey[q]
    BY <1>4, ByteCacheAssumption DEF DirectPut
  <2>3. ckey[q] \in Keys /\ ckey[q] # k
    BY <2>2 DEF PlacesAgree
  <2>4. items'[ckey[q]] \in {items[ckey[q]], Absent}
    BY <2>1, <2>2, <2>3, PutChangesOneKey
  <2>5. QED
    BY <2>2, <2>3, <2>4 DEF LoadsOnlyMissingKeys, Cached
<1>5. ASSUME NEW p \in Procs,
             \/ ShareLoad(p) \/ LeadLoad(p) \/ RecheckHit(p) \/ LoadFails(p)
             \/ LoadSucceeds(p) \/ Publish(p) \/ Release(p)
      PROVE  ckey'[q] \notin Cached'
  <2>1. at[q] \in {"loading", "storing"} /\ ckey'[q] = ckey[q] /\ items' = items
    BY <1>5 DEF ShareLoad, LeadLoad, RecheckHit, LoadFails, LoadSucceeds, Publish,
                Release, Touch, Goto, lvars
  <2>2. QED
    BY <1>1, <2>1
<1>6. ASSUME NEW p \in Procs, RecheckMiss(p)
      PROVE  ckey'[q] \notin Cached'
  BY <1>6 DEF RecheckMiss, Goto, lvars, LoadsOnlyMissingKeys, Cached
<1>7. ASSUME NEW p \in Procs, Return(p)
      PROVE  ckey'[q] \notin Cached'
  <2>1. q # p /\ at[q] \in {"loading", "storing"} /\ ckey'[q] = ckey[q] /\ items' = items
    BY <1>7 DEF Return, Goto, lvars
  <2>2. QED
    BY <1>1, <2>1
<1>8. ASSUME NEW p \in Procs, StoreLoaded(p)
      PROVE  ckey'[q] \notin Cached'
  <2>1. /\ q # p /\ at[q] \in {"loading", "storing"} /\ at[p] = "storing"
        /\ ckey'[q] = ckey[q] /\ Put(ckey[p], loaded[p])
    BY <1>8 DEF StoreLoaded, Goto
  <2>2. /\ ckey[q] \in Keys /\ ckey[p] \in Keys /\ loaded[p] \in Values
        /\ ckey[q] # ckey[p]
    BY <2>1, LoadersDiffer DEF PlacesAgree
  <2>3. items'[ckey[q]] \in {items[ckey[q]], Absent}
    BY <2>1, <2>2, PutChangesOneKey
  <2>4. QED
    BY <2>1, <2>2, <2>3 DEF LoadsOnlyMissingKeys, Cached
<1>9. QED
  BY <1>2, <1>3, <1>4, <1>5, <1>6, <1>7, <1>8 DEF Next, Step

\* The inductive invariant of the cache holds in every reachable state.
THEOREM CacheInvariance == Spec => []CacheInv
<1>1. Init => CacheInv
  BY InitInv
<1>2. CacheInv /\ [Next]_vars => CacheInv'
  BY FlightInvKept, PlacesKept, OneKeyKept, ValuesKept, MissingKept DEF CacheInv
<1>3. QED
  BY <1>1, <1>2, PTL DEF Spec

\* Type correctness of Cache.Do and the group it uses.
THEOREM TypeCorrect == Spec => []TypeOK
<1>1. CacheInv => TypeOK
  BY DEF CacheInv, CacheTypeOK, TypeOK, FP!FlightInv, FP!TypeOK, F!TypeOK,
         FP!Outcomes, F!Outcomes
<1>2. QED
  BY <1>1, CacheInvariance, PTL

\* One goroutine at a time loads a key.
THEOREM SingleLoad == Spec => []OneLoadPerKey
<1>1. CacheInv => OneLoadPerKey
  BY LoadersDiffer DEF OneLoadPerKey
<1>2. QED
  BY <1>1, CacheInvariance, PTL

\* Nobody loads a key that is cached if only Do stores values for it, whatever is
\* evicted meanwhile: the second lookup inside the flight makes it so.
THEOREM DoubleCheckedLoad == Spec => []LoadsOnlyMissingKeys
<1>1. CacheInv => LoadsOnlyMissingKeys
  BY DEF CacheInv
<1>2. QED
  BY <1>1, CacheInvariance, PTL

\* No caller is ever handed a value of another key.
THEOREM KeysDoNotMix == Spec => []ValuesBelongToKeys
<1>1. CacheInv => ValuesBelongToKeys
  BY DEF CacheInv
<1>2. QED
  BY <1>1, CacheInvariance, PTL

--------------------------------------------------------------------------------
\* Each key is on the list once.
Distinct(s) == \A i, j \in DOMAIN s : s[i] = s[j] => i = j

\* The place on the list of a key that is there.
LEMMA PositionIs ==
  ASSUME Distinct(order), NEW i \in DOMAIN order
  PROVE  Position(order[i]) = i
BY DEF Position, Distinct

\* Moving to the front, or pushing there: the other keys keep their order.
LEMMA ToFrontMoves ==
  ASSUME order \in Seq(Keys), Distinct(order), NEW k \in Keys
  PROVE  /\ ToFront(k) \in Seq(Keys)
         /\ Len(ToFront(k)) > 0 /\ ToFront(k)[1] = k
         /\ \E was \in 1..Len(order) + 1 :
              /\ was <= Len(order) => order[was] = k /\ Len(ToFront(k)) = Len(order)
              /\ was > Len(order) => k \notin ToSet(order) /\ Len(ToFront(k)) = Len(order) + 1
              /\ \A i \in 2..Len(ToFront(k)) :
                   ToFront(k)[i] = IF i <= was THEN order[i - 1] ELSE order[i]
<1>1. CASE k \notin ToSet(order)
  <2>1. RemoveFirst(order, k) = order
    BY <1>1 DEF RemoveFirst, ToSet
  <2>2. ToFront(k) = <<k>> \o order
    BY <2>1 DEF ToFront
  <2>3. /\ ToFront(k) \in Seq(Keys) /\ Len(ToFront(k)) = Len(order) + 1
        /\ ToFront(k)[1] = k
        /\ \A i \in 2..Len(ToFront(k)) : ToFront(k)[i] = order[i - 1]
    BY <2>2
  <2> DEFINE was == Len(order) + 1
  <2>4. was \in 1..Len(order) + 1 /\ ~(was <= Len(order)) /\ Len(order) \in Nat
    OBVIOUS
  <2>5. \A i \in 2..Len(ToFront(k)) : i <= was
    BY <2>3
  <2> HIDE DEF was
  <2>6. QED
    BY <1>1, <2>3, <2>4, <2>5
<1>2. CASE k \in ToSet(order)
  <2>1. PICK was \in 1..Len(order) : order[was] = k
    BY <1>2 DEF ToSet
  <2>2. {i \in 1..Len(order) : order[i] = k} = {was}
    BY <2>1 DEF Distinct
  <2>3. Min({was}) = was
    BY <2>1 DEF Min
  <2>4. SelectInSeq(order, LAMBDA v : v = k) = was
    BY <2>2, <2>3 DEF SelectInSeq
  <2>5. RemoveFirst(order, k) = RemoveAt(order, was)
    BY <2>1, <2>4 DEF RemoveFirst
  <2> DEFINE a == SubSeq(order, 1, was - 1)
             b == SubSeq(order, was + 1, Len(order))
  <2>6. /\ a \in Seq(Keys) /\ Len(a) = was - 1
        /\ \A i \in 1..was - 1 : a[i] = order[i]
    BY <2>1
  <2>7. /\ b \in Seq(Keys) /\ Len(b) = Len(order) - was
        /\ \A i \in 1..Len(order) - was : b[i] = order[was + i]
    BY <2>1
  <2> HIDE DEF a, b
  <2>8. RemoveFirst(order, k) = a \o b
    BY <2>5 DEF RemoveAt, a, b
  <2> DEFINE rest == RemoveFirst(order, k)
  <2> HIDE DEF rest
  <2>a. rest = a \o b
    BY <2>8 DEF rest
  <2>b. /\ rest \in Seq(Keys)
        /\ Len(rest) = Len(order) - 1
        /\ \A i \in 1..Len(order) - 1 :
             rest[i] = IF i <= was - 1 THEN order[i] ELSE order[i + 1]
    <3>1. rest \in Seq(Keys) /\ Len(rest) = Len(a) + Len(b)
      <4>1. a \in Seq(Keys) /\ b \in Seq(Keys)
        BY <2>6, <2>7
      <4>2. QED
        BY <2>a, <4>1
    <3>2. ASSUME NEW i \in 1..Len(order) - 1
          PROVE  rest[i] = IF i <= was - 1 THEN order[i] ELSE order[i + 1]
      <4>1. CASE i <= was - 1
        <5>1. i \in 1..Len(a)
          BY <2>1, <2>6, <4>1
        <5>2. rest[i] = a[i]
          BY <2>6, <2>7, <2>a, <5>1
        <5>3. QED
          BY <2>1, <2>6, <4>1, <5>2
      <4>2. CASE ~(i <= was - 1)
        <5>1. i - Len(a) \in 1..Len(b) /\ was + (i - Len(a)) = i + 1
          BY <2>1, <2>6, <2>7, <4>2
        <5>2. rest[i] = b[i - Len(a)]
          BY <2>6, <2>7, <2>a, <5>1
        <5>3. QED
          BY <2>7, <4>2, <5>1, <5>2
      <4>3. QED
        BY <4>1, <4>2
    <3>3. Len(rest) = Len(order) - 1
      BY <2>1, <2>6, <2>7, <3>1
    <3>4. QED
      BY <3>1, <3>2, <3>3
  <2>9. /\ RemoveFirst(order, k) \in Seq(Keys)
        /\ Len(RemoveFirst(order, k)) = Len(order) - 1
        /\ \A i \in 1..Len(order) - 1 :
             RemoveFirst(order, k)[i] = IF i <= was - 1 THEN order[i] ELSE order[i + 1]
    BY <2>b DEF rest
  <2>10. /\ ToFront(k) \in Seq(Keys) /\ Len(ToFront(k)) = Len(order)
         /\ ToFront(k)[1] = k
         /\ \A i \in 2..Len(ToFront(k)) : ToFront(k)[i] = RemoveFirst(order, k)[i - 1]
    BY <2>9 DEF ToFront
  <2>11. \A i \in 2..Len(ToFront(k)) :
           ToFront(k)[i] = IF i <= was THEN order[i - 1] ELSE order[i]
    <3> SUFFICES ASSUME NEW i \in 2..Len(ToFront(k))
                 PROVE  ToFront(k)[i] = IF i <= was THEN order[i - 1] ELSE order[i]
      OBVIOUS
    <3> DEFINE j == i - 1
    <3>1. j \in 1..Len(order) - 1 /\ j + 1 = i /\ (i <= was <=> j <= was - 1)
      BY <2>1, <2>10
    <3>2. RemoveFirst(order, k)[j] = IF j <= was - 1 THEN order[j] ELSE order[j + 1]
      BY <2>9, <3>1
    <3>3. ToFront(k)[i] = RemoveFirst(order, k)[j]
      BY <2>10
    <3> HIDE DEF j
    <3>4. ToFront(k)[i] = IF i <= was THEN order[j] ELSE order[i]
      BY <3>1, <3>2, <3>3
    <3>5. QED
      BY <3>4 DEF j
  <2>12. was \in 1..Len(order) + 1 /\ was <= Len(order)
    BY <2>1
  <2> HIDE DEF a, b
  <2>13. QED
    BY <2>1, <2>10, <2>11, <2>12
<1>3. QED
  BY <1>1, <1>2

\* The keys are the same and the moved one, each once, and all others keep their order.
LEMMA ToFrontKeeps ==
  ASSUME order \in Seq(Keys), Distinct(order), NEW k \in Keys
  PROVE  /\ Distinct(ToFront(k))
         /\ ToSet(ToFront(k)) = ToSet(order) \cup {k}
         /\ \A i, j \in 2..Len(ToFront(k)) : i < j =>
              Position(ToFront(k)[i]) < Position(ToFront(k)[j])
<1> DEFINE list == ToFront(k)
<1>1. PICK was \in 1..Len(order) + 1 :
        /\ was <= Len(order) => order[was] = k /\ Len(list) = Len(order)
        /\ was > Len(order) => k \notin ToSet(order) /\ Len(list) = Len(order) + 1
        /\ \A i \in 2..Len(list) : list[i] = IF i <= was THEN order[i - 1] ELSE order[i]
  BY ToFrontMoves
<1>2. list \in Seq(Keys) /\ Len(list) > 0 /\ list[1] = k
  BY ToFrontMoves
<1> HIDE DEF list
<1> DEFINE old(i) == IF i <= was THEN i - 1 ELSE i
<1>3. ASSUME NEW i \in 2..Len(list)
      PROVE  /\ old(i) \in 1..Len(order) /\ old(i) # was
             /\ list[i] = order[old(i)]
             /\ list[i] # k
  <2>1. old(i) \in 1..Len(order) /\ old(i) # was /\ list[i] = order[old(i)]
    BY <1>1, <1>2
  <2>2. list[i] # k
    <3>1. CASE was <= Len(order)
      BY <1>1, <2>1, <3>1 DEF Distinct
    <3>2. CASE was > Len(order)
      BY <1>1, <2>1, <3>2 DEF ToSet
    <3>3. QED
      BY <1>1, <3>1, <3>2
  <2>3. QED
    BY <2>1, <2>2
<1>4. Distinct(list)
  <2>1. SUFFICES ASSUME NEW i \in 1..Len(list), NEW j \in 1..Len(list), list[i] = list[j]
                 PROVE  i = j
    BY <1>2 DEF Distinct
  <2>2. CASE i = 1 \/ j = 1
    BY <1>2, <1>3, <2>1, <2>2
  <2>3. CASE i # 1 /\ j # 1
    <3>1. i \in 2..Len(list) /\ j \in 2..Len(list)
      BY <1>2, <2>3
    <3>2. order[old(i)] = order[old(j)] /\ old(i) \in DOMAIN order /\ old(j) \in DOMAIN order
      BY <1>3, <2>1, <3>1
    <3>3. old(i) = old(j) /\ old(i) # was /\ old(j) # was
      BY <1>3, <3>1, <3>2 DEF Distinct
    <3>4. QED
      BY <1>1, <3>1, <3>3
  <2>4. QED
    BY <2>2, <2>3
<1>5. ToSet(list) = ToSet(order) \cup {k}
  <2>1. ASSUME NEW j \in ToSet(list)
        PROVE  j \in ToSet(order) \cup {k}
    <3>1. PICK i \in 1..Len(list) : list[i] = j
      BY <1>2 DEF ToSet
    <3>2. i = 1 \/ i \in 2..Len(list)
      BY <1>2
    <3>3. QED
      BY <1>2, <1>3, <3>1, <3>2 DEF ToSet
  <2>2. ASSUME NEW j \in ToSet(order)
        PROVE  j \in ToSet(list)
    <3>1. PICK n \in 1..Len(order) : order[n] = j
      BY DEF ToSet
    <3>2. CASE n = was
      BY <1>1, <1>2, <3>1, <3>2 DEF ToSet
    <3>3. CASE n < was
      <4>1. n + 1 \in 2..Len(list) /\ n + 1 <= was /\ (n + 1) - 1 = n
        BY <1>1, <1>2, <3>1, <3>3
      <4>2. list[n + 1] = order[n]
        BY <1>1, <4>1
      <4>3. QED
        BY <1>2, <3>1, <4>1, <4>2 DEF ToSet
    <3>4. CASE n > was
      <4>1. n \in 2..Len(list) /\ ~(n <= was)
        BY <1>1, <1>2, <3>1, <3>4
      <4>2. list[n] = order[n]
        BY <1>1, <4>1
      <4>3. QED
        BY <1>2, <3>1, <4>1, <4>2 DEF ToSet
    <3>5. QED
      BY <1>1, <3>1, <3>2, <3>3, <3>4
  <2>3. k \in ToSet(list)
    BY <1>2 DEF ToSet
  <2>4. QED
    BY <2>1, <2>2, <2>3
<1>6. ASSUME NEW i \in 2..Len(list), NEW j \in 2..Len(list), i < j
      PROVE  Position(list[i]) < Position(list[j])
  <2>1. /\ old(i) \in DOMAIN order /\ list[i] = order[old(i)]
        /\ old(j) \in DOMAIN order /\ list[j] = order[old(j)]
    BY <1>3
  <2>2. Position(list[i]) = old(i) /\ Position(list[j]) = old(j)
    BY <2>1, PositionIs
  <2>3. old(i) < old(j)
    BY <1>1, <1>3, <1>6
  <2>4. QED
    BY <2>2, <2>3
<1>7. QED
  BY <1>4, <1>5, <1>6 DEF list

--------------------------------------------------------------------------------
\* cost has for each key of the list what its entry costs.
Costs(cost, entries, list) ==
  \A j \in ToSet(list) : cost[j] = entries[j].bytes /\ cost[j] \in Nat

\* What a stretch of the list costs is the sum over its keys.
LEMMA CostOfPart ==
  ASSUME NEW list \in Seq(Keys), Distinct(list), NEW entries, NEW cost, Costs(cost, entries, list),
         NEW a \in 1..Len(list) + 1, NEW b \in 0..Len(list)
  PROVE  CostOf(entries, SubSeq(list, a, b)) = SumFunctionOnSet(cost, {list[i] : i \in a..b})
<1> DEFINE t == SubSeq(list, a, b)
           f == [i \in DOMAIN t |-> entries[t[i]].bytes]
<1>1. /\ Len(t) = (IF a <= b THEN b - a + 1 ELSE 0) /\ DOMAIN t = 1..Len(t)
      /\ \A i \in 1..Len(t) : t[i] = list[a + i - 1] /\ a + i - 1 \in 1..Len(list)
  OBVIOUS
<1> HIDE DEF t
<1>2. Len(t) \in Nat
  BY <1>1
<1>3. IsFiniteSet(DOMAIN t)
  <2>1. DOMAIN t = 1..Len(t)
    BY <1>1
  <2>2. IsFiniteSet(1..Len(t))
    BY <1>2, FS_Interval
  <2>3. QED
    BY <2>1, <2>2
<1>d. DOMAIN list = 1..Len(list) /\ Len(list) \in Nat
  OBVIOUS
<1>4. ASSUME NEW i \in DOMAIN t, NEW j \in DOMAIN t, t[i] = t[j]
      PROVE  i = j
  <2>1. /\ a + i - 1 \in DOMAIN list /\ a + j - 1 \in DOMAIN list
        /\ list[a + i - 1] = list[a + j - 1]
    BY <1>1, <1>4, <1>d
  <2>2. a + i - 1 = a + j - 1 /\ i \in Nat /\ j \in Nat
    BY <1>1, <1>2, <2>1 DEF Distinct
  <2>3. QED
    BY <2>2
<1>5. ASSUME NEW i \in DOMAIN t
      PROVE  t[i] \in ToSet(list)
  <2>1. t[i] = list[a + i - 1] /\ a + i - 1 \in DOMAIN list
    BY <1>1, <1>d
  <2>2. QED
    BY <2>1 DEF ToSet
<1>6. \A i \in DOMAIN t : f[i] \in Int /\ cost[t[i]] = f[i]
  BY <1>5 DEF Costs
<1>7. {t[i] : i \in DOMAIN t} = {list[i] : i \in a..b}
  <2>1. ASSUME NEW i \in DOMAIN t
        PROVE  t[i] \in {list[n] : n \in a..b}
    <3>1. a + i - 1 \in a..b
      BY <1>1
    <3>2. QED
      BY <1>1, <3>1
  <2>2. ASSUME NEW n \in a..b
        PROVE  list[n] \in {t[i] : i \in DOMAIN t}
    <3>1. n - a + 1 \in DOMAIN t /\ a + (n - a + 1) - 1 = n
      BY <1>1
    <3>2. QED
      BY <1>1, <3>1
  <2>3. QED
    BY <2>1, <2>2
<1>8. SumFunctionOnSet(f, DOMAIN t) = SumFunctionOnSet(cost, {t[i] : i \in DOMAIN t})
  <2> HIDE DEF f
  <2>1. QED
    BY <1>3, <1>4, <1>6, SumRenames
<1>9. CostOf(entries, t) = SumFunctionOnSet(f, DOMAIN t)
  <2>1. DOMAIN f = DOMAIN t
    OBVIOUS
  <2>2. QED
    BY <2>1, Zenon DEF CostOf, SumFunction
<1>10. CostOf(entries, t) = SumFunctionOnSet(cost, {list[i] : i \in a..b})
  <2> HIDE DEF f
  <2>1. QED
    BY <1>7, <1>8, <1>9
<1>11. QED
  BY <1>10 DEF t

\* Of the numbers up to a bound that a set has there is a greatest one, if it has any.
LEMMA GreatestNumber ==
  ASSUME NEW n \in Nat, NEW S \in SUBSET (0..n), S # {}
  PROVE  Max(S) \in S /\ \A i \in S : i <= Max(S)
<1> DEFINE R == {n - i : i \in S}
<1>1. R \in SUBSET Nat /\ R # {}
  <2>1. \A i \in S : n - i \in Nat
    OBVIOUS
  <2>2. QED
    BY <2>1
<1>2. PICK r \in R : \A q \in R : r <= q
  <2> HIDE DEF R
  <2>1. QED
    BY <1>1, LeastNumber
<1>3. PICK i \in S : r = n - i
  BY <1>2
<1>4. \A j \in S : j <= i
  BY <1>2, <1>3
<1>5. \E x \in S : \A y \in S : x >= y
  BY <1>4
<1>6. Max(S) \in S /\ \A y \in S : Max(S) >= y
  BY <1>5 DEF Max
<1>7. QED
  BY <1>6

\* What evictLocked leaves when its loop stops with kept entries.
StopsAt(kept, entries, cost, list, total) ==
  /\ order' = SubSeq(list, 1, kept)
  /\ items' = [j \in Keys |-> IF j \in {list[i] : i \in 1..kept} THEN entries[j] ELSE Absent]
  /\ used' = SumFunctionOnSet(cost, {list[i] : i \in 1..kept})
  /\ used' <= MaxBytes
  /\ kept < Len(list) => used' + cost[list[kept + 1]] > MaxBytes
  /\ total <= MaxBytes => kept = Len(list)

\* The loop of evictLocked keeps the front of the list, its count is right, and it
\* stops as soon as the budget is met.
LEMMA EvictLockedStops ==
  ASSUME NEW list \in Seq(Keys), Distinct(list), NEW entries, NEW cost, Costs(cost, entries, list),
         NEW total, total = SumFunctionOnSet(cost, ToSet(list)),
         EvictLocked(entries, list, total)
  PROVE  \E kept \in 0..Len(list) : StopsAt(kept, entries, cost, list, total)
<1> DEFINE Freed(n) == CostOf(entries, SubSeq(list, n + 1, Len(list)))
           Left(n) == SumFunctionOnSet(cost, {list[i] : i \in 1..n})
           fits == {n \in 0..Len(list) : n = 0 \/ total - Freed(n) <= MaxBytes}
           kept == Max(fits)
<1>0. Len(list) \in Nat /\ ToSet(list) = {list[i] : i \in 1..Len(list)}
  BY DEF ToSet
<1>1. ASSUME NEW n \in 0..Len(list)
      PROVE  total - Freed(n) = Left(n) /\ Left(n) \in Nat
  <2> DEFINE S == {list[i] : i \in 1..n}
             R == {list[i] : i \in n + 1..Len(list)}
  <2>1. Freed(n) = SumFunctionOnSet(cost, R)
    <3>1. n + 1 \in 1..Len(list) + 1 /\ Len(list) \in 0..Len(list)
      BY <1>0
    <3>2. QED
      BY <3>1, CostOfPart
  <2>2. S \cup R = ToSet(list) /\ S \cap R = {}
    <3>1. ToSet(list) \subseteq S \cup R
      <4>1. \A i \in 1..Len(list) : i \in 1..n \/ i \in n + 1..Len(list)
        BY <1>0
      <4>2. QED
        BY <1>0, <4>1
    <3>2. S \cup R \subseteq ToSet(list)
      BY <1>0
    <3>3. S \cap R = {}
      <4>1. ASSUME NEW i \in 1..n, NEW j \in n + 1..Len(list), list[i] = list[j]
            PROVE  FALSE
        <5>1. i \in DOMAIN list /\ j \in DOMAIN list /\ i # j
          BY <1>0
        <5>2. QED
          BY <4>1, <5>1 DEF Distinct
      <4>2. QED
        BY <4>1
    <3>4. QED
      BY <3>1, <3>2, <3>3
  <2>3. IsFiniteSet(ToSet(list))
    <3> DEFINE f == [i \in 1..Len(list) |-> list[i]]
    <3>1. f \in Surjection(1..Len(list), ToSet(list))
      BY <1>0 DEF Surjection
    <3>2. IsFiniteSet(1..Len(list))
      <4>1. Len(list) \in Nat
        OBVIOUS
      <4>2. QED
        BY <4>1, FS_Interval
    <3>3. QED
      BY <3>1, <3>2, FS_Surjection
  <2>4. IsFiniteSet(S) /\ IsFiniteSet(R)
    BY <2>2, <2>3, FS_Subset
  <2>5. \A j \in S \cup R : cost[j] \in Nat /\ cost[j] \in Int
    BY <2>2 DEF Costs
  <2> HIDE DEF S, R
  <2>6. SumFunctionOnSet(cost, S \cup R) = SumFunctionOnSet(cost, S) + SumFunctionOnSet(cost, R)
    BY <2>2, <2>4, <2>5, SumOfBoth
  <2>7. SumFunctionOnSet(cost, S) \in Nat /\ SumFunctionOnSet(cost, R) \in Nat
    BY <2>4, <2>5, SumNat
  <2>8. total = Left(n) + Freed(n) /\ Freed(n) \in Nat /\ Left(n) \in Nat
    BY <2>1, <2>2, <2>6, <2>7 DEF S
  <2> HIDE DEF Freed, Left
  <2>9. QED
    BY <2>8
<1>2. /\ order' = SubSeq(list, 1, kept)
      /\ items' = [j \in Keys |-> IF j \in ToSet(SubSeq(list, 1, kept)) THEN entries[j] ELSE Absent]
      /\ used' = total - Freed(kept)
  BY DEF EvictLocked, Keep
<1> HIDE DEF Freed, Left
<1>3. fits \in SUBSET (0..Len(list)) /\ 0 \in fits
  BY <1>0
<1>4. kept \in fits /\ \A n \in fits : n <= kept
  <2> HIDE DEF fits
  <2>1. QED
    BY <1>0, <1>3, GreatestNumber
<1>5. kept \in 0..Len(list) /\ (kept = 0 \/ Left(kept) <= MaxBytes)
  BY <1>1, <1>4
<1>6. used' = Left(kept) /\ Left(kept) \in Nat
  BY <1>1, <1>2, <1>5
<1>7. used' <= MaxBytes
  <2>1. CASE kept = 0
    <3>1. {list[i] : i \in 1..0} = {}
      OBVIOUS
    <3>2. Left(0) = 0
      BY <3>1, SumOfNone DEF Left
    <3>3. QED
      BY <1>6, <2>1, <3>2, LRUAssumption
  <2>2. CASE kept # 0
    BY <1>5, <1>6, <2>2
  <2>3. QED
    BY <2>1, <2>2
<1>8. ASSUME kept < Len(list)
      PROVE  used' + cost[list[kept + 1]] > MaxBytes
  <2> HIDE DEF kept
  <2>1. kept + 1 \in 0..Len(list) /\ ~(kept + 1 <= kept) /\ kept \in Nat /\ kept + 1 \in DOMAIN list
    BY <1>0, <1>5, <1>8
  <2>2. kept + 1 \notin fits
    BY <1>4, <2>1
  <2>3. ~(Left(kept + 1) <= MaxBytes) /\ Left(kept + 1) \in Nat
    BY <1>1, <2>1, <2>2
  <2>4. Left(kept + 1) = cost[list[kept + 1]] + Left(kept)
    <3> DEFINE S == {list[i] : i \in 1..kept}
               x == list[kept + 1]
    <3>1. {list[i] : i \in 1..kept + 1} = S \cup {x}
      <4>1. \A i \in 1..kept + 1 : i \in 1..kept \/ i = kept + 1
        BY <2>1
      <4>2. 1..kept \subseteq 1..kept + 1 /\ kept + 1 \in 1..kept + 1
        BY <2>1
      <4>3. QED
        BY <4>1, <4>2
    <3>2. x \notin S
      <4>1. ASSUME NEW i \in 1..kept, list[i] = x
            PROVE  FALSE
        <5>1. i \in DOMAIN list /\ i # kept + 1
          BY <1>0, <2>1, <1>5
        <5>2. QED
          BY <2>1, <4>1, <5>1 DEF Distinct
      <4>2. QED
        BY <4>1
    <3>3. IsFiniteSet(S)
      <4> DEFINE f == [i \in 1..kept |-> list[i]]
      <4>1. f \in Surjection(1..kept, S)
        BY DEF Surjection
      <4>2. IsFiniteSet(1..kept)
        BY <2>1, FS_Interval
      <4>3. QED
        BY <4>1, <4>2, FS_Surjection
    <3>4. \A j \in S \cup {x} : cost[j] \in Int
      <4>1. S \cup {x} \subseteq ToSet(list)
        BY <1>0, <2>1
      <4>2. QED
        BY <4>1 DEF Costs
    <3> HIDE DEF S, x
    <3>5. SumFunctionOnSet(cost, S \cup {x}) = cost[x] + SumFunctionOnSet(cost, S)
      BY <3>2, <3>3, <3>4, SumPutsIn
    <3>6. QED
      BY <3>1, <3>5 DEF Left, S, x
  <2>5. cost[list[kept + 1]] \in Nat
    BY <1>0, <2>1 DEF Costs
  <2>6. MaxBytes \in Nat
    BY LRUAssumption
  <2>7. QED
    BY <1>6, <2>3, <2>4, <2>5, <2>6
<1>9. ToSet(SubSeq(list, 1, kept)) = {list[i] : i \in 1..kept}
  <2> HIDE DEF kept
  <2>1. DOMAIN SubSeq(list, 1, kept) = 1..kept /\ \A i \in 1..kept : SubSeq(list, 1, kept)[i] = list[i]
    BY <1>0, <1>5
  <2>2. QED
    BY <2>1 DEF ToSet
<1>10. ASSUME total <= MaxBytes
       PROVE  kept = Len(list)
  <2>1. total - Freed(Len(list)) = total
    BY <1>0, <1>1 DEF Left
  <2>2. Len(list) \in fits
    BY <1>0, <1>10, <2>1
  <2> HIDE DEF kept
  <2>3. QED
    BY <1>0, <1>4, <1>5, <2>2
<1>11. QED
  <2> HIDE DEF kept
  <2>1. QED
    BY <1>2, <1>5, <1>6, <1>7, <1>8, <1>9, <1>10 DEF Left, StopsAt

--------------------------------------------------------------------------------
\* The list and its accounts, as every critical section leaves them.
AccountsInv == order \in Seq(Keys) /\ BudgetKept

\* What the accounts say about the entries.
LEMMA AccountsAdd ==
  ASSUME CacheTypeOK, AccountsInv
  PROVE  /\ Distinct(order) /\ ToSet(order) = Cached
         /\ IsFiniteSet(Cached)
         /\ \A j \in Cached : BytesOf(j) \in Nat /\ items[j].bytes = BytesOf(j)
         /\ used = SumFunctionOnSet([j \in Cached |-> BytesOf(j)], Cached)
<1>1. Distinct(order) /\ ToSet(order) = Cached
  BY DEF AccountsInv, BudgetKept, Distinct
<1>2. IsFiniteSet(ToSet(order))
  <2> DEFINE f == [i \in 1..Len(order) |-> order[i]]
  <2>1. Len(order) \in Nat /\ ToSet(order) = {order[i] : i \in 1..Len(order)}
    BY DEF AccountsInv, ToSet
  <2>2. f \in Surjection(1..Len(order), ToSet(order))
    BY <2>1 DEF Surjection
  <2>3. IsFiniteSet(1..Len(order))
    BY <2>1, FS_Interval
  <2>4. QED
    BY <2>2, <2>3, FS_Surjection
<1>3. \A j \in Cached : BytesOf(j) \in Nat /\ items[j].bytes = BytesOf(j)
  BY DEF CacheTypeOK, Cached, BytesOf
<1>4. used = SumFunctionOnSet([j \in Cached |-> BytesOf(j)], Cached)
  <2> DEFINE f == [j \in Cached |-> BytesOf(j)]
  <2>1. used = SumFunctionOnSet(f, DOMAIN f)
    BY DEF AccountsInv, BudgetKept, SumFunction
  <2>2. DOMAIN f = Cached
    OBVIOUS
  <2> HIDE DEF f
  <2>3. used = SumFunctionOnSet(f, Cached)
    BY <2>1, <2>2
  <2>4. QED
    BY <2>3 DEF f
<1>5. QED
  BY <1>1, <1>2, <1>3, <1>4

\* The count that Put hands to the eviction is right, of a new key or a replaced one.
LEMMA PutCounts ==
  ASSUME CacheTypeOK, AccountsInv, NEW k \in Keys, NEW v \in Values, NEW cost,
         \A j \in Cached \ {k} : cost[j] = items[j].bytes, cost[k] = Bytes(v)
  PROVE  used - BytesOf(k) + Bytes(v) = SumFunctionOnSet(cost, Cached \cup {k})
<1> DEFINE old == [j \in Cached |-> BytesOf(j)]
           R == Cached \ {k}
<1>1. Bytes(v) \in Nat
  BY EntryType DEF Entry
<1>2. /\ IsFiniteSet(Cached) /\ used = SumFunctionOnSet(old, Cached)
      /\ \A j \in Cached : old[j] \in Nat /\ old[j] = items[j].bytes /\ old[j] = BytesOf(j)
  BY AccountsAdd
<1>3. \A j \in Cached : old[j] \in Int
  BY <1>2
<1>4. IsFiniteSet(R) /\ k \notin R /\ R \cup {k} = Cached \cup {k} /\ R \subseteq Cached
  BY <1>2, FS_Subset
<1>5. \A j \in R : old[j] = cost[j]
  BY <1>2
<1>6. \A j \in R \cup {k} : cost[j] \in Int
  BY <1>1, <1>2
<1> HIDE DEF old, R
<1>7. SumFunctionOnSet(old, R) = SumFunctionOnSet(cost, R)
  BY <1>4, <1>5, SumSame
<1>8. SumFunctionOnSet(cost, R \cup {k}) = cost[k] + SumFunctionOnSet(cost, R)
  BY <1>4, <1>6, SumPutsIn
<1>9. SumFunctionOnSet(cost, R) \in Int
  BY <1>4, <1>6, SumInt
<1>10. used = BytesOf(k) + SumFunctionOnSet(old, R) /\ BytesOf(k) \in Int
  <2>1. CASE k \in Cached
    <3>1. SumFunctionOnSet(old, Cached) = old[k] + SumFunctionOnSet(old, Cached \ {k})
      BY <1>2, <1>3, <2>1, SumTakesOut
    <3>2. QED
      BY <1>2, <1>3, <2>1, <3>1 DEF R
  <2>2. CASE k \notin Cached
    <3>1. BytesOf(k) = 0
      BY <2>2 DEF Cached, BytesOf
    <3>2. R = Cached
      BY <2>2 DEF R
    <3>3. QED
      BY <1>2, <1>7, <1>9, <3>1, <3>2
  <2>3. QED
    BY <2>1, <2>2
<1>11. SumFunctionOnSet(cost, Cached \cup {k}) = Bytes(v) + SumFunctionOnSet(cost, R)
  BY <1>4, <1>8
<1>12. QED
  BY <1>1, <1>7, <1>9, <1>10, <1>11

\* A hit only moves its key.
LEMMA TouchKeeps ==
  ASSUME CacheTypeOK, AccountsInv, NEW k \in Keys, Touch(k)
  PROVE  AccountsInv' /\ OldestFirst /\ OnlyWhenFull
<1>1. k \in Cached /\ order' = ToFront(k) /\ items' = items /\ used' = used
  BY DEF Touch
<1>2. Distinct(order) /\ order \in Seq(Keys) /\ ToSet(order) = Cached
  BY AccountsAdd DEF AccountsInv
<1>3. order' \in Seq(Keys) /\ Distinct(order') /\ ToSet(order') = Cached
  <2>1. ToFront(k) \in Seq(Keys)
    BY <1>2, ToFrontMoves
  <2>2. Distinct(ToFront(k)) /\ ToSet(ToFront(k)) = Cached \cup {k}
    BY <1>2, ToFrontKeeps
  <2>3. Distinct(order') /\ ToSet(order') = Cached \cup {k}
    BY <1>1, <2>2 DEF Distinct, ToSet
  <2>4. QED
    BY <1>1, <2>1, <2>3
<1>4. Cached' = Cached
  BY <1>1 DEF Cached
<1>5. [j \in Cached |-> BytesOf(j)]' = [j \in Cached |-> BytesOf(j)]
  BY <1>1, <1>4 DEF BytesOf
<1>6. BudgetKept'
  BY <1>1, <1>3, <1>4, <1>5 DEF AccountsInv, BudgetKept, Distinct
<1>7. OldestFirst /\ OnlyWhenFull
  BY <1>4 DEF OldestFirst, OnlyWhenFull
<1>8. QED
  BY <1>3, <1>6, <1>7 DEF AccountsInv

\* Put leaves the accounts right and evicts from the back only, no more than it must.
LEMMA PutKeeps ==
  ASSUME CacheTypeOK, AccountsInv, NEW k \in Keys, NEW v \in Values, Put(k, v)
  PROVE  AccountsInv' /\ OldestFirst /\ OnlyWhenFull
<1> DEFINE entries == [items EXCEPT ![k] = Entry(v)]
           list == ToFront(k)
           total == used - BytesOf(k) + Bytes(v)
           cost == [j \in Cached \cup {k} |-> entries[j].bytes]
           Newest(n) == {list[i] : i \in 1..n}
<1>1. /\ order \in Seq(Keys) /\ Distinct(order) /\ ToSet(order) = Cached
      /\ \A j \in Cached : BytesOf(j) \in Nat /\ items[j].bytes = BytesOf(j)
  BY AccountsAdd DEF AccountsInv
<1>2. list \in Seq(Keys) /\ Len(list) > 0 /\ list[1] = k
  BY <1>1, ToFrontMoves
<1>3. /\ Distinct(list) /\ ToSet(list) = Cached \cup {k}
      /\ \A i, j \in 2..Len(list) : i < j => Position(list[i]) < Position(list[j])
  BY <1>1, ToFrontKeeps
<1>4. /\ Entry(v) # Absent /\ Entry(v).bytes = Bytes(v) /\ Bytes(v) \in Nat
      /\ Entry(v) \in [value : Values, bytes : Nat \ {0}]
  BY EntryType, ByteCacheAssumption DEF Entry
<1>5. /\ entries[k] = Entry(v) /\ \A j \in Keys \ {k} : entries[j] = items[j]
      /\ \A j \in Cached \cup {k} : entries[j] # Absent
  BY <1>4 DEF CacheTypeOK, Cached
<1> HIDE DEF entries
<1>6. /\ cost[k] = Bytes(v)
      /\ \A j \in Cached \ {k} : cost[j] = items[j].bytes /\ cost[j] = BytesOf(j)
      /\ \A j \in Cached \cup {k} : cost[j] = entries[j].bytes /\ cost[j] \in Nat
  BY <1>1, <1>4, <1>5 DEF Cached
<1>7. Costs(cost, entries, list)
  BY <1>3, <1>6 DEF Costs
<1>8. total = SumFunctionOnSet(cost, ToSet(list))
  <2> HIDE DEF cost
  <2>1. used - BytesOf(k) + Bytes(v) = SumFunctionOnSet(cost, Cached \cup {k})
    BY <1>6, PutCounts
  <2>2. QED
    BY <1>3, <2>1
<1>9. EvictLocked(entries, list, total)
  BY DEF Put, entries
<1> HIDE DEF cost, list, total
<1>p. PICK kept \in 0..Len(list) : StopsAt(kept, entries, cost, list, total)
  <2>1. list \in Seq(Keys) /\ Distinct(list)
    BY <1>2, <1>3
  <2>2. QED
    BY <1>7, <1>8, <1>9, <2>1, EvictLockedStops
<1>10. /\ order' = SubSeq(list, 1, kept)
       /\ items' = [j \in Keys |-> IF j \in Newest(kept) THEN entries[j] ELSE Absent]
       /\ used' = SumFunctionOnSet(cost, Newest(kept))
       /\ used' <= MaxBytes
       /\ kept < Len(list) => used' + cost[list[kept + 1]] > MaxBytes
       /\ total <= MaxBytes => kept = Len(list)
  BY <1>p DEF StopsAt
<1>11. DOMAIN list = 1..Len(list) /\ Len(list) \in Nat
  BY <1>2
<1>12. Newest(kept) \subseteq Cached \cup {k} /\ Cached \cup {k} \subseteq Keys
  BY <1>3, <1>11 DEF ToSet, Cached
<1>13. Cached' = Newest(kept)
  BY <1>5, <1>10, <1>12 DEF Cached
<1>14. /\ order' \in Seq(Keys) /\ Len(order') = kept
       /\ DOMAIN order' = 1..kept /\ \A i \in 1..kept : order'[i] = list[i]
  <2>1. SubSeq(list, 1, kept) \in Seq(Keys) /\ Len(SubSeq(list, 1, kept)) = kept
    BY <1>2, <1>11
  <2>2. \A i \in 1..kept : SubSeq(list, 1, kept)[i] = list[i]
    BY <1>2, <1>11
  <2>3. QED
    BY <1>10, <2>1, <2>2
<1>15. BudgetKept'
  <2>1. ToSet(order') = Cached'
    BY <1>13, <1>14 DEF ToSet
  <2>2. ASSUME NEW i \in DOMAIN order', NEW j \in DOMAIN order', order'[i] = order'[j]
        PROVE  i = j
    <3>1. i \in DOMAIN list /\ j \in DOMAIN list /\ list[i] = list[j]
      BY <1>11, <1>14, <2>2
    <3>2. QED
      BY <1>3, <3>1 DEF Distinct
  <2>3. used' = SumFunction([j \in Cached |-> BytesOf(j)])'
    <3> DEFINE f == [j \in Cached' |-> BytesOf(j)']
    <3>1. \A j \in Cached' : f[j] = cost[j]
      BY <1>5, <1>6, <1>10, <1>12, <1>13 DEF BytesOf
    <3>2. IsFiniteSet(Cached')
      <4> DEFINE g == [i \in 1..kept |-> list[i]]
      <4>1. g \in Surjection(1..kept, Newest(kept))
        BY DEF Surjection
      <4>2. IsFiniteSet(1..kept)
        BY <1>11, FS_Interval
      <4>3. IsFiniteSet(Newest(kept))
        BY <4>1, <4>2, FS_Surjection
      <4>4. QED
        BY <1>13, <4>3
    <3>3. DOMAIN f = Cached'
      OBVIOUS
    <3>4. SumFunctionOnSet(f, Cached') = SumFunctionOnSet(cost, Cached')
      <4> HIDE DEF f
      <4>1. QED
        BY <3>1, <3>2, SumSame
    <3>5. SumFunction(f) = SumFunctionOnSet(f, Cached')
      BY <3>3 DEF SumFunction
    <3>6. used' = SumFunction(f)
      <4> HIDE DEF f
      <4>1. QED
        BY <1>10, <1>13, <3>4, <3>5
    <3>7. QED
      BY <3>6
  <2>4. QED
    BY <1>10, <2>1, <2>2, <2>3 DEF BudgetKept
<1>16. ASSUME NEW gone \in Cached \ Cached'
       PROVE  \E g \in kept + 1..Len(list) : list[g] = gone
  <2>1. PICK g \in 1..Len(list) : list[g] = gone
    BY <1>3, <1>11 DEF ToSet
  <2>2. g \notin 1..kept
    BY <1>13, <1>16, <2>1
  <2>3. g \in kept + 1..Len(list)
    BY <1>11, <2>2
  <2>4. QED
    BY <2>1, <2>3
<1>17. OldestFirst
  <2>1. SUFFICES ASSUME NEW gone \in Cached \ Cached', NEW still \in Cached \cap Cached',
                        items'[still] = items[still]
                 PROVE  Position(still) < Position(gone)
    BY DEF OldestFirst
  <2>2. PICK g \in kept + 1..Len(list) : list[g] = gone
    BY <1>16
  <2>3. PICK h \in 1..kept : list[h] = still
    BY <1>13
  <2>4. CASE h = 1
    <3>1. still = k /\ items'[k] = entries[k]
      BY <1>2, <1>10, <1>12, <1>13, <2>3, <2>4
    <3>2. BytesOf(k) = Bytes(v)
      BY <1>1, <1>4, <1>5, <2>1, <3>1
    <3>3. used <= MaxBytes /\ used \in Int
      <4>1. IsFiniteSet(Cached) /\ used = SumFunctionOnSet([j \in Cached |-> BytesOf(j)], Cached)
        BY AccountsAdd
      <4>2. \A j \in Cached : [i \in Cached |-> BytesOf(i)][j] \in Int
        BY <1>1
      <4>3. used \in Int
        BY <4>1, <4>2, SumInt
      <4>4. QED
        BY <4>3 DEF AccountsInv, BudgetKept
    <3>4. total <= MaxBytes
      BY <1>4, <3>2, <3>3 DEF total
    <3>5. kept = Len(list)
      BY <1>10, <3>4
    <3>6. QED
      BY <1>11, <2>2, <3>5
  <2>5. CASE h # 1
    <3>1. h \in 2..Len(list) /\ g \in 2..Len(list) /\ h < g
      BY <1>11, <2>2, <2>3, <2>5
    <3>2. QED
      BY <1>3, <2>2, <2>3, <3>1
  <2>6. QED
    BY <2>4, <2>5
<1>18. OnlyWhenFull
  <2>1. SUFFICES ASSUME NEW gone \in Cached \ Cached',
                        \A j \in Cached \ Cached' : Position(gone) <= Position(j),
                        Len(order') > 0
                 PROVE  used' + BytesOf(gone) > MaxBytes
    BY DEF OnlyWhenFull
  <2>2. PICK g \in kept + 1..Len(list) : list[g] = gone
    BY <1>16
  <2>3. kept >= 1 /\ kept + 1 \in 2..Len(list) /\ g \in 2..Len(list) /\ kept < Len(list)
    BY <1>11, <1>14, <2>1, <2>2
  <2>4. list[kept + 1] \in Cached \ Cached'
    <3>1. kept + 1 \in DOMAIN list /\ 1 \in DOMAIN list /\ kept + 1 # 1
      BY <1>11, <2>3
    <3>2. list[kept + 1] # k
      BY <1>2, <1>3, <3>1 DEF Distinct
    <3>3. list[kept + 1] \in Cached
      BY <1>3, <3>1, <3>2 DEF ToSet
    <3>4. \A i \in 1..kept : i \in DOMAIN list /\ i # kept + 1
      BY <1>11
    <3>5. list[kept + 1] \notin Cached'
      BY <1>3, <1>13, <3>1, <3>4 DEF Distinct
    <3>6. QED
      BY <3>3, <3>5
  <2>5. g = kept + 1
    <3>1. Position(gone) <= Position(list[kept + 1])
      BY <2>1, <2>4
    <3>2. kept + 1 < g => Position(list[kept + 1]) < Position(gone)
      BY <1>3, <2>2, <2>3
    <3>3. \A j \in Cached : Position(j) \in Nat
      <4>1. SUFFICES ASSUME NEW j \in Cached
                     PROVE  Position(j) \in Nat
        OBVIOUS
      <4>2. PICK i \in DOMAIN order : order[i] = j
        BY <1>1 DEF ToSet
      <4>3. Position(order[i]) = i /\ i \in Nat
        BY <1>1, <4>2, PositionIs
      <4>4. QED
        BY <4>2, <4>3
    <3>4. ~(kept + 1 < g)
      BY <2>4, <3>1, <3>2, <3>3
    <3>5. QED
      BY <1>11, <2>2, <3>4
  <2>6. gone # k
    <3>1. g \in DOMAIN list /\ 1 \in DOMAIN list /\ g # 1
      BY <1>11, <2>3
    <3>2. QED
      BY <1>2, <1>3, <2>2, <3>1 DEF Distinct
  <2>7. cost[list[kept + 1]] = BytesOf(gone)
    BY <1>6, <2>2, <2>5, <2>6
  <2>8. QED
    BY <1>10, <2>3, <2>7
<1>19. QED
  BY <1>14, <1>15, <1>17, <1>18 DEF AccountsInv

\* Of the list, the map and the count a step of the cache is a hit, a store, or nothing.
LEMMA StepTouchesOrPuts ==
  ASSUME CacheInv, [Next]_vars
  PROVE  \/ UNCHANGED lvars
         \/ \E k \in Keys : Touch(k)
         \/ \E k \in Keys, v \in Values : Put(k, v)
<1> USE DEF CacheInv, CacheTypeOK, PlacesAgree
<1>1. CASE UNCHANGED vars
  BY <1>1 DEF vars, lvars
<1>2. ASSUME NEW p \in Procs, NEW k \in Keys, Hit(p, k)
      PROVE  Touch(k)
  BY <1>2 DEF Hit
<1>3. ASSUME NEW p \in Procs, NEW k \in Keys, DirectPut(p, k)
      PROVE  \E v \in Values : Put(k, v)
  BY <1>3, ByteCacheAssumption DEF DirectPut
<1>4. ASSUME NEW p \in Procs, RecheckHit(p)
      PROVE  \E k \in Keys : Touch(k)
  BY <1>4 DEF RecheckHit
<1>5. ASSUME NEW p \in Procs, StoreLoaded(p)
      PROVE  \E k \in Keys, v \in Values : Put(k, v)
  <2>1. ckey[p] \in Keys /\ loaded[p] \in Values /\ Put(ckey[p], loaded[p])
    BY <1>5 DEF StoreLoaded
  <2>2. QED
    BY <2>1
<1>6. ASSUME NEW p \in Procs,
             \/ \E k \in Keys : Miss(p, k)
             \/ ShareLoad(p) \/ LeadLoad(p) \/ RecheckMiss(p) \/ LoadFails(p)
             \/ LoadSucceeds(p) \/ Publish(p) \/ Release(p) \/ Return(p)
      PROVE  UNCHANGED lvars
  BY <1>6 DEF Miss, ShareLoad, LeadLoad, RecheckMiss, LoadFails, LoadSucceeds, Publish,
              Release, Return
<1>7. QED
  BY <1>1, <1>2, <1>3, <1>4, <1>5, <1>6 DEF Next, Step

\* Every step leaves the accounts right and evicts as it must.
LEMMA AccountsKept ==
  ASSUME CacheInv, AccountsInv, [Next]_vars
  PROVE  AccountsInv' /\ [BudgetKept' /\ OldestFirst /\ OnlyWhenFull]_lvars
<1>1. CASE UNCHANGED lvars
  <2>1. Cached' = Cached /\ [j \in Cached |-> BytesOf(j)]' = [j \in Cached |-> BytesOf(j)]
    BY <1>1 DEF lvars, Cached, BytesOf
  <2>2. QED
    BY <1>1, <2>1 DEF lvars, AccountsInv, BudgetKept
<1>2. CASE \E k \in Keys : Touch(k)
  BY <1>2, TouchKeeps DEF CacheInv, AccountsInv
<1>3. CASE \E k \in Keys, v \in Values : Put(k, v)
  BY <1>3, PutKeeps DEF CacheInv, AccountsInv
<1>4. QED
  BY <1>1, <1>2, <1>3, StepTouchesOrPuts

\* An empty cache keeps its accounts.
LEMMA AccountsInit == Init => AccountsInv
<1> SUFFICES ASSUME Init PROVE AccountsInv
  OBVIOUS
<1>1. order = <<>> /\ used = 0 /\ Cached = {}
  BY DEF Init, LInit, Cached
<1>2. SumFunction([k \in Cached |-> BytesOf(k)]) = 0
  <2>1. DOMAIN [k \in Cached |-> BytesOf(k)] = {}
    BY <1>1
  <2>2. QED
    BY <2>1, SumOfNone DEF SumFunction
<1>3. ToSet(order) = {} /\ DOMAIN order = {} /\ order \in Seq(Keys)
  BY <1>1 DEF ToSet
<1>4. QED
  BY <1>1, <1>2, <1>3, LRUAssumption DEF AccountsInv, BudgetKept

\* Outside its critical sections the byte count of the cache is what its entries cost,
\* within the budget, and list and map agree, however goroutines interleave.
THEOREM AccountsHold == Spec => []BudgetKept
<1>1. Init => CacheInv /\ AccountsInv
  BY InitInv, AccountsInit
<1>2. CacheInv /\ AccountsInv /\ [Next]_vars => CacheInv' /\ AccountsInv'
  BY FlightInvKept, PlacesKept, OneKeyKept, ValuesKept, MissingKept, AccountsKept
     DEF CacheInv
<1>3. AccountsInv => BudgetKept
  BY DEF AccountsInv
<1>4. QED
  BY <1>1, <1>2, <1>3, PTL DEF Spec

\* Only the least recently used entries are evicted, and never one more than the
\* budget asks for: the action property, of any sizes, keys and goroutines.
THEOREM EvictsOldest == Spec => EvictsAsItMust
<1>1. Init => CacheInv /\ AccountsInv
  BY InitInv, AccountsInit
<1>2. CacheInv /\ AccountsInv /\ [Next]_vars => CacheInv' /\ AccountsInv'
  BY FlightInvKept, PlacesKept, OneKeyKept, ValuesKept, MissingKept, AccountsKept
     DEF CacheInv
<1>3. CacheInv /\ AccountsInv /\ [Next]_vars => [BudgetKept' /\ OldestFirst /\ OnlyWhenFull]_lvars
  BY AccountsKept
<1>4. QED
  BY <1>1, <1>2, <1>3, PTL DEF Spec, EvictsAsItMust

--------------------------------------------------------------------------------
\* The stores of the example programs.

\* Where a request may be, and the numbers it keeps; only the program that a step
\* belongs to takes it.
StoreTypes ==
  /\ app \in Apps
  /\ where \in [Requests -> {"idle", "loop", "keep", "rename", "copy", "render", "done", "failed"}]
  /\ next \in [Requests -> Nat] /\ spent \in [Requests -> Nat] /\ hand \in [Requests -> Nat]
  /\ misses \in [Requests -> Nat]
  /\ DOMAIN urls = Requests /\ DOMAIN page = Requests
  /\ \A r \in Requests :
       /\ where[r] = "idle" => next[r] = 1
       /\ where[r] = "keep" => app # "cli"
       /\ where[r] = "rename" => app = "fullapp"
       /\ where[r] = "copy" => app = "cli"
       /\ app = "cli" /\ r # FirstRequest => where[r] = "idle"
       /\ Len(page[r]) \in Nat /\ DOMAIN page[r] = 1..Len(page[r])

\* The programs start idle.
LEMMA StoreTypesStart == StoreInit => StoreTypes
<1> SUFFICES ASSUME StoreInit
             PROVE  StoreTypes
  OBVIOUS
<1>1. /\ app \in Apps /\ where = [r \in Requests |-> "idle"]
      /\ next = [r \in Requests |-> 1] /\ spent = [r \in Requests |-> 0]
      /\ hand = [r \in Requests |-> 0] /\ misses = [r \in Requests |-> 0]
      /\ DOMAIN urls = Requests /\ page = [r \in Requests |-> <<>>]
  BY DEF StoreInit
<1>2. QED
  BY <1>1 DEF StoreTypes

\* A request goes on in its loop, with a link or without one.
LEMMA StoreTypesGoOn ==
  ASSUME StoreTypes, NEW r \in Requests, Without(r) \/ Linked(r), where[r] # "idle"
  PROVE  StoreTypes'
<1>1. /\ next' = [next EXCEPT ![r] = @ + 1] /\ hand' = [hand EXCEPT ![r] = 0]
      /\ where' = [where EXCEPT ![r] = "loop"] /\ UNCHANGED <<app, page, spent>>
      /\ misses' \in {misses, [misses EXCEPT ![r] = @ + 1]}
  BY DEF Without, Linked
<1>2. DOMAIN urls' = Requests
  BY DEF Without, Linked, StoreTypes
<1>3. next[r] + 1 \in Nat /\ misses[r] + 1 \in Nat
  BY DEF StoreTypes
<1>4. next' \in [Requests -> Nat] /\ hand' \in [Requests -> Nat] /\ misses' \in [Requests -> Nat]
  BY <1>1, <1>3 DEF StoreTypes
<1>5. QED
  BY <1>1, <1>2, <1>4 DEF StoreTypes

\* Every step keeps the numbers numbers and the places those of the program.
LEMMA StoreTypesKept == StoreTypes /\ [StoreNext]_storeVars => StoreTypes'
<1> SUFFICES ASSUME StoreTypes, [StoreNext]_storeVars
             PROVE  StoreTypes'
  OBVIOUS
<1>1. ASSUME NEW r \in Requests,
             \/ Unsigned(r) \/ DownloadFails(r) \/ AlreadyThere(r) \/ Store(r) \/ StoreFull(r)
             \/ CreateFails(r) \/ WriteFails(r) \/ Rename(r) \/ CopyFails(r) \/ Copied(r)
      PROVE  StoreTypes'
  <2>1. where[r] # "idle" /\ (Without(r) \/ Linked(r))
    BY <1>1 DEF Unsigned, DownloadFails, AlreadyThere, Store, StoreFull, CreateFails, WriteFails,
       Rename, CopyFails, Copied, InLoop
  <2>2. QED
    BY <2>1, StoreTypesGoOn
<1>2. ASSUME NEW r \in Requests, Fetch(r)
      PROVE  StoreTypes'
  BY <1>2, StoreAssumption DEF Fetch, StoreTypes
<1>3. ASSUME NEW r \in Requests, FetchFails(r)
      PROVE  StoreTypes'
  <2>1. /\ where[r] = "idle" /\ where' = [where EXCEPT ![r] = "failed"]
        /\ app = "cli" => r = FirstRequest
        /\ UNCHANGED <<app, page, next, spent, hand, urls, misses>>
    BY <1>3 DEF FetchFails
  <2>2. QED
    BY <2>1 DEF StoreTypes
<1>4. ASSUME NEW r \in Requests, SkipRest(r)
      PROVE  StoreTypes'
  <2>1. misses[r] + 1 \in Nat
    BY DEF StoreTypes
  <2>2. QED
    BY <1>4, <2>1 DEF SkipRest, InLoop, StoreTypes
<1>5. ASSUME NEW r \in Requests, Download(r)
      PROVE  StoreTypes'
  <2>1. PICK size \in Sizes : /\ hand' = [hand EXCEPT ![r] = size]
                              /\ spent' = [spent EXCEPT ![r] = @ + size]
    BY <1>5 DEF Download
  <2>2. size \in Nat
    BY StoreAssumption
  <2>3. spent[r] + size \in Nat
    BY <2>2 DEF StoreTypes
  <2>4. spent' \in [Requests -> Nat] /\ hand' \in [Requests -> Nat]
    BY <2>1, <2>2, <2>3 DEF StoreTypes
  <2>5. QED
    BY <1>5, <2>4 DEF Download, InLoop, StoreTypes
<1>6. ASSUME NEW r \in Requests, CreateTemp(r) \/ Create(r) \/ LoopEnds(r) \/ Render(r)
      PROVE  StoreTypes'
  BY <1>6 DEF CreateTemp, Create, InLoop, LoopEnds, Render, StoreTypes
<1>7. CASE Crash
  BY <1>7 DEF Crash, StoreTypes
<1>8. CASE UNCHANGED storeVars
  BY <1>8 DEF storeVars, perRequest, StoreTypes
<1>9. QED
  BY <1>1, <1>2, <1>3, <1>4, <1>5, <1>6, <1>7, <1>8 DEF StoreNext, StoreStep

--------------------------------------------------------------------------------
\* The budgets.

\* The entries of the store are finitely many, of some size, and the server's count is
\* theirs; a request that downloads was below its budget before.
BudgetsInv ==
  /\ IsFiniteSet(DOMAIN stored)
  /\ \A n \in DOMAIN stored : stored[n].size \in Nat
  /\ BudgetsKept

\* What one entry changes.
LEMMA StoredGrows ==
  ASSUME IsFiniteSet(DOMAIN stored), \A n \in DOMAIN stored : stored[n].size \in Nat,
         NEW name, NEW entry, entry.size \in Nat, stored' = With(stored, name, entry)
  PROVE  /\ IsFiniteSet(DOMAIN stored') /\ \A n \in DOMAIN stored' : stored'[n].size \in Nat
         /\ name \notin DOMAIN stored => Total' = entry.size + Total
<1> DEFINE D == DOMAIN stored
           f == [n \in D |-> stored[n].size]
           g == [n \in D \cup {name} |-> stored'[n].size]
<1>1. /\ DOMAIN stored' = D \cup {name}
      /\ \A n \in D \cup {name} : stored'[n] = IF n = name THEN entry ELSE stored[n]
  BY DEF With
<1>2. IsFiniteSet(D \cup {name})
  BY FS_AddElement
<1>3. \A n \in DOMAIN stored' : stored'[n].size \in Nat
  BY <1>1
<1>4. ASSUME name \notin D
      PROVE  Total' = entry.size + Total
  <2>1. \A n \in D : g[n] = f[n]
    BY <1>1, <1>4
  <2>2. g[name] = entry.size /\ \A n \in D \cup {name} : g[n] \in Int
    BY <1>1, <1>3
  <2>3. Total = SumFunctionOnSet(f, D)
    <3>1. DOMAIN f = D /\ Total = SumFunction(f)
      BY DEF Total
    <3> HIDE DEF f, D
    <3>2. QED
      BY <3>1, Zenon DEF SumFunction
  <2>4. Total' = SumFunctionOnSet(g, D \cup {name})
    <3>1. DOMAIN g = D \cup {name} /\ Total' = SumFunction(g)
      BY <1>1 DEF Total
    <3> HIDE DEF g, D
    <3>2. QED
      BY <3>1, Zenon DEF SumFunction
  <2>5. IsFiniteSet(D)
    OBVIOUS
  <2> HIDE DEF f, g, D
  <2>6. SumFunctionOnSet(g, D \cup {name}) = g[name] + SumFunctionOnSet(g, D)
    BY <1>4, <2>2, <2>5, SumPutsIn
  <2>7. SumFunctionOnSet(g, D) = SumFunctionOnSet(f, D)
    BY <2>1, <2>5, SumSame
  <2>8. QED
    BY <2>2, <2>3, <2>4, <2>6, <2>7
<1>5. QED
  BY <1>1, <1>2, <1>3, <1>4

\* No names at all are finitely many.
LEMMA EmptyStore == IsFiniteSet(DOMAIN None) /\ DOMAIN None = {}
<1>1. DOMAIN None = {}
  BY DEF None
<1>2. QED
  BY <1>1, FS_EmptySet

\* Nothing is held by an empty store.
LEMMA EmptyStoreTotal == stored = None => Total = 0
<1> DEFINE f == [n \in DOMAIN stored |-> stored[n].size]
<1> SUFFICES ASSUME stored = None
             PROVE  Total = 0
  OBVIOUS
<1>1. DOMAIN f = {} /\ Total = SumFunction(f)
  BY EmptyStore DEF Total
<1> HIDE DEF f
<1>2. Total = SumFunctionOnSet(f, {})
  BY <1>1, Zenon DEF SumFunction
<1>3. QED
  BY <1>2, SumOfNone

\* Nothing is stored or downloaded at the start.
LEMMA BudgetsStart == StoreInit => BudgetsInv
<1> SUFFICES ASSUME StoreInit
             PROVE  BudgetsInv
  OBVIOUS
<1>1. stored = None /\ held = 0 /\ spent = [r \in Requests |-> 0]
  BY DEF StoreInit
<1>2. Total = 0 /\ DOMAIN stored = {} /\ IsFiniteSet(DOMAIN stored)
  BY <1>1, EmptyStore, EmptyStoreTotal
<1>3. \A r \in Requests : spent[r] < RequestBudget + MaxAsset
  BY <1>1, StoreAssumption
<1>4. BudgetsKept
  BY <1>1, <1>2, <1>3, StoreAssumption DEF BudgetsKept
<1>5. QED
  BY <1>2, <1>4 DEF BudgetsInv

\* Every step keeps the counts: a download starts below the budget, and a store adds
\* what it counts.
LEMMA BudgetsStep == StoreTypes /\ BudgetsInv /\ [StoreNext]_storeVars => BudgetsInv'
<1> SUFFICES ASSUME StoreTypes, BudgetsInv, [StoreNext]_storeVars
             PROVE  BudgetsInv'
  OBVIOUS
<1>a. /\ IsFiniteSet(DOMAIN stored)
      /\ \A n \in DOMAIN stored : stored[n].size \in Nat
  BY DEF BudgetsInv
<1>b. /\ app = "server" => held = Total /\ held <= StoreLimit
      /\ \A r \in Requests : spent[r] < RequestBudget + MaxAsset
  BY DEF BudgetsInv, BudgetsKept
<1>1. ASSUME UNCHANGED <<app, spent, stored, held>>
      PROVE  BudgetsInv'
  BY <1>1 DEF BudgetsInv, BudgetsKept, Total
<1>2. ASSUME NEW r \in Requests,
             \/ Unsigned(r) \/ DownloadFails(r) \/ AlreadyThere(r) \/ StoreFull(r) \/ CreateFails(r)
             \/ WriteFails(r) \/ CopyFails(r) \/ Fetch(r) \/ FetchFails(r) \/ SkipRest(r)
             \/ CreateTemp(r) \/ LoopEnds(r) \/ Render(r)
      PROVE  BudgetsInv'
  <2>1. UNCHANGED <<app, spent, stored, held>>
    BY <1>2 DEF Unsigned, DownloadFails, AlreadyThere, StoreFull, CreateFails, WriteFails,
       CopyFails, Fetch, FetchFails, SkipRest, CreateTemp, LoopEnds, Render, Without, Linked
  <2>2. QED
    BY <1>1, <2>1
<1>3. ASSUME NEW r \in Requests, Download(r)
      PROVE  BudgetsInv'
  <2>1. PICK size \in Sizes : size <= MaxAsset /\ spent' = [spent EXCEPT ![r] = @ + size]
    BY <1>3 DEF Download
  <2>2. spent[r] < RequestBudget
    <3>1. ~(spent[r] >= RequestBudget)
      BY <1>3 DEF Download, OverBudget
    <3>2. spent[r] \in Nat /\ RequestBudget \in Nat
      BY StoreAssumption DEF StoreTypes
    <3>3. QED
      BY <3>1, <3>2
  <2>3. spent[r] + size < RequestBudget + MaxAsset
    <3>1. /\ spent[r] \in Nat /\ RequestBudget \in Nat /\ MaxAsset \in Nat /\ size \in Nat
      BY StoreAssumption DEF StoreTypes
    <3>2. QED
      BY <2>1, <2>2, <3>1
  <2>4. \A q \in Requests : spent'[q] < RequestBudget + MaxAsset
    BY <1>b, <2>1, <2>3 DEF StoreTypes
  <2>5. UNCHANGED <<app, stored, held>>
    BY <1>3 DEF Download
  <2>6. QED
    BY <1>a, <1>b, <2>4, <2>5 DEF BudgetsInv, BudgetsKept, Total
<1>4. ASSUME NEW r \in Requests, Store(r)
      PROVE  BudgetsInv'
  <2> DEFINE entry == Content(r, hand[r], TRUE)
  <2>1. /\ stored' = With(stored, Name(r), entry) /\ Name(r) \notin DOMAIN stored
        /\ app = "server" /\ app' = app /\ spent' = spent
        /\ held' = held + hand[r] /\ held + hand[r] <= StoreLimit
    BY <1>4 DEF Store, Linked
  <2>2. entry.size = hand[r] /\ hand[r] \in Nat
    BY DEF Content, StoreTypes
  <2> HIDE DEF entry
  <2>3. /\ IsFiniteSet(DOMAIN stored') /\ \A n \in DOMAIN stored' : stored'[n].size \in Nat
        /\ Total' = entry.size + Total
    BY <1>a, <2>1, <2>2, StoredGrows
  <2>4. Total' = held'
    <3>1. held = Total /\ held' = held + hand[r] /\ Total' = hand[r] + Total
      BY <1>b, <2>1, <2>2, <2>3
    <3>2. Total \in Int
      <4> DEFINE f == [n \in DOMAIN stored |-> stored[n].size]
      <4>1. DOMAIN f = DOMAIN stored /\ Total = SumFunction(f)
        BY DEF Total
      <4>2. \A n \in DOMAIN stored : f[n] \in Int
        BY <1>a
      <4> HIDE DEF f
      <4>3. Total = SumFunctionOnSet(f, DOMAIN stored)
        BY <4>1, Zenon DEF SumFunction
      <4>4. QED
        BY <1>a, <4>2, <4>3, SumInt
    <3>3. QED
      BY <2>2, <3>1, <3>2
  <2>5. held' <= StoreLimit
    BY <2>1
  <2>6. QED
    BY <1>b, <2>1, <2>3, <2>4, <2>5 DEF BudgetsInv, BudgetsKept
<1>5. ASSUME NEW r \in Requests, Rename(r) \/ Create(r) \/ Copied(r)
      PROVE  BudgetsInv'
  <2>1. app' = app /\ spent' = spent /\ app # "server"
    BY <1>5 DEF Rename, Create, Copied, Linked, StoreTypes
  <2>2. PICK size \in Nat, whole \in BOOLEAN :
          stored' = With(stored, Name(r), Content(r, size, whole))
    BY <1>5, StoreAssumption DEF Rename, Create, Copied, StoreTypes
  <2> DEFINE entry == Content(r, size, whole)
  <2>3. entry.size \in Nat
    BY DEF Content
  <2> HIDE DEF entry
  <2>4. stored' = With(stored, Name(r), entry)
    BY <2>2 DEF entry
  <2>5. IsFiniteSet(DOMAIN stored') /\ \A n \in DOMAIN stored' : stored'[n].size \in Nat
    BY <1>a, <2>3, <2>4, StoredGrows
  <2>6. QED
    BY <1>b, <2>1, <2>5 DEF BudgetsInv, BudgetsKept
<1>6. CASE Crash
  <2>1. /\ stored' = (IF app = "server" THEN None ELSE stored) /\ held' = 0 /\ app' = app
        /\ spent' = [r \in Requests |-> 0]
    BY <1>6 DEF Crash
  <2>2. stored' = None => Total' = 0
    <3>1. (stored = None => Total = 0)'
      BY EmptyStoreTotal, PTL
    <3>2. QED
      BY <3>1 DEF None
  <2>3. IsFiniteSet(DOMAIN stored') /\ \A n \in DOMAIN stored' : stored'[n].size \in Nat
    <3>1. CASE app = "server"
      BY <2>1, <3>1, EmptyStore
    <3>2. CASE app # "server"
      BY <1>a, <2>1, <3>2
    <3>3. QED
      BY <3>1, <3>2
  <2>4. \A r \in Requests : spent'[r] < RequestBudget + MaxAsset
    BY <2>1, StoreAssumption
  <2>5. app' = "server" => held' = Total' /\ held' <= StoreLimit
    BY <2>1, <2>2, StoreAssumption
  <2>6. QED
    BY <2>3, <2>4, <2>5 DEF BudgetsInv, BudgetsKept
<1>7. CASE UNCHANGED storeVars
  BY <1>1, <1>7 DEF storeVars, perRequest
<1>8. QED
  BY <1>2, <1>3, <1>4, <1>5, <1>6, <1>7 DEF StoreNext, StoreStep

\* The server's count is what its store holds, and within the limit, whatever
\* requests store at the same time (server:223-242); a request of server or fullapp
\* passes its budget by one asset at most.
THEOREM StoreWithinBudgets == StoreSpec => []BudgetsKept
<1>1. BudgetsInv => BudgetsKept
  BY DEF BudgetsInv
<1>2. QED
  BY <1>1, StoreTypesStart, StoreTypesKept, BudgetsStart, BudgetsStep, PTL DEF StoreSpec

--------------------------------------------------------------------------------
\* The links.

\* What fullapp and server keep is whole and named after its block and source; cli has
\* one page, and its links are to the positions that it is past.  So an entry that
\* some link leads to is only replaced by one of the same block and source.
LinksInv ==
  /\ app # "cli" =>
       \A n \in DOMAIN stored :
         stored[n].whole /\ n = <<stored[n].of.block, stored[n].of.source>>
  /\ app = "cli" => \A r \in Requests : \A l \in DOMAIN urls[r] :
       r = FirstRequest /\ \E i \in Nat : i < next[r] /\ urls[r][l] = <<i>>
  /\ LinksServe

\* A store without links and entries.
LEMMA LinksStart == StoreInit => LinksInv
<1> SUFFICES ASSUME StoreInit
             PROVE  LinksInv
  OBVIOUS
<1>1. stored = None /\ urls = [r \in Requests |-> None]
  BY DEF StoreInit
<1>2. DOMAIN stored = {} /\ \A r \in Requests : DOMAIN urls[r] = {}
  BY <1>1, EmptyStore
<1>3. QED
  BY <1>2 DEF LinksInv, LinksServe

\* The links of the pages go on to serve when no entry changes that they lead to.
LEMMA LinksStay ==
  ASSUME StoreTypes, LinksInv, app' = app, urls' = urls, stored' = stored,
         \A r \in Requests : next'[r] \in Nat /\ next[r] <= next'[r]
  PROVE  LinksInv'
<1>1. app' = "cli" => \A r \in Requests : \A l \in DOMAIN urls'[r] :
        r = FirstRequest /\ \E i \in Nat : i < next'[r] /\ urls'[r][l] = <<i>>
  <2> SUFFICES ASSUME app = "cli", NEW r \in Requests, NEW l \in DOMAIN urls[r]
               PROVE  r = FirstRequest /\ \E i \in Nat : i < next'[r] /\ urls[r][l] = <<i>>
    OBVIOUS
  <2>1. r = FirstRequest /\ \E i \in Nat : i < next[r] /\ urls[r][l] = <<i>>
    BY DEF LinksInv
  <2>2. PICK i \in Nat : i < next[r] /\ urls[r][l] = <<i>>
    BY <2>1
  <2>3. next[r] \in Nat /\ next'[r] \in Nat /\ next[r] <= next'[r]
    BY DEF StoreTypes
  <2>4. i < next'[r]
    BY <2>2, <2>3
  <2>5. QED
    BY <2>1, <2>2, <2>4
<1>2. LinksServe'
  BY DEF LinksInv, LinksServe, Serves
<1>3. QED
  BY <1>1, <1>2 DEF LinksInv

\* A new link leads to an entry of its block and source; the others keep theirs.
LEMMA LinkMade ==
  ASSUME StoreTypes, LinksInv, NEW r \in Requests, Linked(r), where[r] # "idle",
         DOMAIN stored' = DOMAIN stored \cup {Name(r)},
         \A n \in DOMAIN stored : n # Name(r) => stored'[n] = stored[n],
         stored'[Name(r)].whole,
         stored'[Name(r)].of.block = Asset(r).block,
         stored'[Name(r)].of.source = Asset(r).source
  PROVE  LinksInv'
<1> DEFINE name == Name(r)
<1>1. /\ app' = app /\ next' = [next EXCEPT ![r] = @ + 1]
      /\ \A q \in Requests : q # r => urls'[q] = urls[q]
      /\ DOMAIN urls'[r] = DOMAIN urls[r] \cup LinkKeys(Asset(r))
      /\ \A l \in LinkKeys(Asset(r)) : urls'[r][l] = name
      /\ \A l \in DOMAIN urls[r] : l \notin LinkKeys(Asset(r)) => urls'[r][l] = urls[r][l]
  BY DEF Linked, StoreTypes
<1>2. app # "cli" => name = <<Asset(r).block, Asset(r).source>>
  BY DEF Name
<1>3. app = "cli" => name = <<next[r]>> /\ r = FirstRequest
  BY DEF Name, StoreTypes
<1>4. LinkKeys(Asset(r)) \subseteq {Asset(r).block, Asset(r).source, Plain[Asset(r).source]}
  BY DEF LinkKeys
<1>5. next[r] \in Nat /\ next'[r] = next[r] + 1
      /\ \A q \in Requests : next'[q] \in Nat /\ next[q] <= next'[q]
  BY <1>1 DEF StoreTypes
<1> HIDE DEF name
<1>6. ASSUME NEW q \in Requests, NEW l \in DOMAIN urls'[q]
      PROVE  \/ q = r /\ l \in LinkKeys(Asset(r)) /\ urls'[q][l] = name
             \/ l \in DOMAIN urls[q] /\ urls'[q][l] = urls[q][l]
  BY <1>1, <1>6
<1>7. app' # "cli" =>
        \A n \in DOMAIN stored' :
          stored'[n].whole /\ n = <<stored'[n].of.block, stored'[n].of.source>>
  BY <1>1, <1>2 DEF LinksInv, name
<1>8. app' = "cli" => \A q \in Requests : \A l \in DOMAIN urls'[q] :
        q = FirstRequest /\ \E i \in Nat : i < next'[q] /\ urls'[q][l] = <<i>>
  <2> SUFFICES ASSUME app = "cli", NEW q \in Requests, NEW l \in DOMAIN urls'[q]
               PROVE  q = FirstRequest /\ \E i \in Nat : i < next'[q] /\ urls'[q][l] = <<i>>
    BY <1>1
  <2>1. CASE q = r /\ urls'[q][l] = name
    BY <1>3, <1>5, <2>1
  <2>2. CASE l \in DOMAIN urls[q] /\ urls'[q][l] = urls[q][l]
    <3>1. q = FirstRequest /\ \E i \in Nat : i < next[q] /\ urls[q][l] = <<i>>
      BY <2>2 DEF LinksInv
    <3>2. PICK i \in Nat : i < next[q] /\ urls[q][l] = <<i>>
      BY <3>1
    <3>3. next[q] \in Nat /\ next'[q] \in Nat /\ next[q] <= next'[q]
      BY <1>5 DEF StoreTypes
    <3>4. i < next'[q]
      BY <3>2, <3>3
    <3>5. QED
      BY <2>2, <3>1, <3>2, <3>4
  <2>3. QED
    BY <1>6, <2>1, <2>2
<1>9. ASSUME NEW q \in Requests, NEW l \in DOMAIN urls'[q]
      PROVE  Serves(urls[q][l], l)'
  <2>1. CASE q = r /\ l \in LinkKeys(Asset(r)) /\ urls'[q][l] = name
    <3>1. name \in DOMAIN stored' /\ stored'[name].whole
      BY DEF name
    <3>2. l \in {stored'[name].of.block, stored'[name].of.source, Plain[stored'[name].of.source]}
      BY <1>4, <2>1 DEF name
    <3>3. QED
      BY <2>1, <3>1, <3>2 DEF Serves
  <2>2. CASE l \in DOMAIN urls[q] /\ urls'[q][l] = urls[q][l]
    <3>1. Serves(urls[q][l], l)
      BY <2>2 DEF LinksInv, LinksServe
    <3>2. CASE urls[q][l] # name
      BY <2>2, <3>1, <3>2 DEF Serves, name
    <3>3. CASE urls[q][l] = name
      <4>1. app # "cli"
        <5> SUFFICES ASSUME app = "cli"
                     PROVE  FALSE
          OBVIOUS
        <5>1. q = r
          BY <1>3, <2>2 DEF LinksInv
        <5>2. PICK i \in Nat : i < next[q] /\ urls[q][l] = <<i>>
          BY <2>2 DEF LinksInv
        <5>3. i = next[r]
          BY <1>3, <3>3, <5>2
        <5>4. QED
          BY <1>5, <5>1, <5>2, <5>3
      <4>2. /\ name \in DOMAIN stored
            /\ l \in {stored[name].of.block, stored[name].of.source, Plain[stored[name].of.source]}
        BY <3>1, <3>3 DEF Serves
      <4>3. name = <<stored[name].of.block, stored[name].of.source>>
        BY <4>1, <4>2 DEF LinksInv
      <4>4. stored[name].of.block = Asset(r).block /\ stored[name].of.source = Asset(r).source
        BY <1>2, <4>1, <4>3
      <4>5. /\ name \in DOMAIN stored' /\ stored'[name].whole
            /\ l \in {stored'[name].of.block, stored'[name].of.source,
                      Plain[stored'[name].of.source]}
        BY <4>2, <4>4 DEF name
      <4>6. QED
        BY <2>2, <3>3, <4>5 DEF Serves
    <3>4. QED
      BY <3>2, <3>3
  <2>3. QED
    BY <1>6, <2>1, <2>2
<1>10. LinksServe'
  BY <1>9 DEF LinksServe
<1>11. QED
  BY <1>7, <1>8, <1>10 DEF LinksInv

\* A step makes a link with its entry, or leaves the links to what is there.
LEMMA LinksStep == StoreTypes /\ LinksInv /\ [StoreNext]_storeVars => LinksInv'
<1> SUFFICES ASSUME StoreTypes, LinksInv, [StoreNext]_storeVars
             PROVE  LinksInv'
  OBVIOUS
<1>1. ASSUME NEW r \in Requests,
             \/ Unsigned(r) \/ DownloadFails(r) \/ StoreFull(r) \/ CreateFails(r) \/ WriteFails(r)
             \/ CopyFails(r)
      PROVE  LinksInv'
  <2>1. app' = app /\ urls' = urls /\ stored' = stored /\ next' = [next EXCEPT ![r] = @ + 1]
    BY <1>1 DEF Unsigned, DownloadFails, StoreFull, CreateFails, WriteFails, CopyFails, Without
  <2>2. \A q \in Requests : next'[q] \in Nat /\ next[q] <= next'[q]
    BY <2>1 DEF StoreTypes
  <2>3. QED
    BY <2>1, <2>2, LinksStay
<1>2. ASSUME UNCHANGED <<app, urls, stored, next>>
      PROVE  LinksInv'
  <2>1. \A q \in Requests : next'[q] \in Nat /\ next[q] <= next'[q]
    BY <1>2 DEF StoreTypes
  <2>2. QED
    BY <1>2, <2>1, LinksStay
<1>3. ASSUME NEW r \in Requests,
             \/ Fetch(r) \/ FetchFails(r) \/ SkipRest(r) \/ Download(r) \/ CreateTemp(r)
             \/ LoopEnds(r) \/ Render(r)
      PROVE  LinksInv'
  <2>1. UNCHANGED <<app, urls, stored, next>>
    BY <1>3 DEF Fetch, FetchFails, SkipRest, Download, CreateTemp, LoopEnds, Render
  <2>2. QED
    BY <1>2, <2>1
<1>4. ASSUME NEW r \in Requests, AlreadyThere(r)
      PROVE  LinksInv'
  <2>1. /\ app = "server" /\ Name(r) \in DOMAIN stored /\ Linked(r) /\ stored' = stored
        /\ where[r] # "idle"
    BY <1>4 DEF AlreadyThere
  <2>2. stored[Name(r)].whole /\ Name(r) = <<stored[Name(r)].of.block, stored[Name(r)].of.source>>
    BY <2>1 DEF LinksInv
  <2>3. Name(r) = <<Asset(r).block, Asset(r).source>>
    BY <2>1 DEF Name
  <2>4. stored[Name(r)].of.block = Asset(r).block /\ stored[Name(r)].of.source = Asset(r).source
    BY <2>2, <2>3
  <2>5. DOMAIN stored' = DOMAIN stored \cup {Name(r)}
    BY <2>1
  <2>6. QED
    BY <2>1, <2>2, <2>4, <2>5, LinkMade
<1>5. ASSUME NEW r \in Requests, Store(r) \/ Rename(r) \/ Copied(r)
      PROVE  LinksInv'
  <2>1. Linked(r) /\ where[r] # "idle"
    BY <1>5 DEF Store, Rename, Copied
  <2>2. PICK size \in Nat : stored' = With(stored, Name(r), Content(r, size, TRUE))
    BY <1>5, StoreAssumption DEF Store, Rename, Copied, StoreTypes
  <2> DEFINE entry == Content(r, size, TRUE)
  <2>3. entry.of = Asset(r) /\ entry.whole
    BY DEF Content
  <2> HIDE DEF entry
  <2>4. /\ DOMAIN stored' = DOMAIN stored \cup {Name(r)} /\ stored'[Name(r)] = entry
        /\ \A n \in DOMAIN stored : n # Name(r) => stored'[n] = stored[n]
    BY <2>2 DEF With, entry
  <2>5. QED
    BY <2>1, <2>3, <2>4, LinkMade
<1>6. ASSUME NEW r \in Requests, Create(r)
      PROVE  LinksInv'
  <2> DEFINE name == <<next[r]>>
  <2>1. /\ app = "cli" /\ app' = app /\ urls' = urls /\ next' = next /\ where[r] # "idle"
        /\ DOMAIN stored \subseteq DOMAIN stored'
        /\ \A n \in DOMAIN stored : n # name => stored'[n] = stored[n]
    BY <1>6 DEF Create, InLoop, With, Name
  <2>2. r = FirstRequest
    BY <2>1 DEF StoreTypes
  <2>3. ASSUME NEW q \in Requests, NEW l \in DOMAIN urls[q]
        PROVE  Serves(urls[q][l], l)'
    <3>1. q = r /\ \E i \in Nat : i < next[q] /\ urls[q][l] = <<i>>
      BY <2>1, <2>2 DEF LinksInv
    <3>2. PICK i \in Nat : i < next[q] /\ urls[q][l] = <<i>>
      BY <3>1
    <3>3. i # next[r]
      BY <3>1, <3>2 DEF StoreTypes
    <3>4. urls[q][l] # name
      BY <3>2, <3>3
    <3>5. Serves(urls[q][l], l)
      BY DEF LinksInv, LinksServe
    <3> HIDE DEF name
    <3>6. QED
      BY <2>1, <3>4, <3>5 DEF Serves
  <2>4. LinksServe'
    BY <2>1, <2>3 DEF LinksServe
  <2>5. QED
    BY <2>1, <2>4 DEF LinksInv
<1>7. CASE Crash
  <2>1. /\ app' = app /\ urls' = [r \in Requests |-> None]
        /\ stored' = (IF app = "server" THEN None ELSE stored)
    BY <1>7 DEF Crash
  <2>2. DOMAIN None = {}
    BY EmptyStore
  <2>3. \A r \in Requests : DOMAIN urls'[r] = {}
    BY <2>1, <2>2
  <2>4. LinksServe'
    BY <2>3 DEF LinksServe
  <2>5. app # "cli" =>
          \A n \in DOMAIN stored' :
            stored'[n].whole /\ n = <<stored'[n].of.block, stored'[n].of.source>>
    BY <2>1, <2>2 DEF LinksInv
  <2>6. QED
    BY <2>1, <2>3, <2>4, <2>5 DEF LinksInv
<1>8. CASE UNCHANGED storeVars
  BY <1>2, <1>8 DEF storeVars, perRequest
<1>9. QED
  BY <1>1, <1>3, <1>4, <1>5, <1>6, <1>7, <1>8 DEF StoreNext, StoreStep

\* Every link that a page of any request has leads to an asset that is there, whole,
\* and of the link's block or source, whatever other requests do and whatever
\* downloads and writes break off (server:223-242, fullapp:253-255, cli:136-139).
THEOREM StoreServesLinks == StoreSpec => []LinksServe
<1>1. LinksInv => LinksServe
  BY DEF LinksInv
<1>2. QED
  BY <1>1, StoreTypesStart, StoreTypesKept, LinksStart, LinksStep, PTL DEF StoreSpec

--------------------------------------------------------------------------------
\* What is missing is told.

\* A request that has missed nothing has links for all the assets that it is past,
\* and goes to its page only when it is past them all.
TellInv ==
  \A r \in Requests : misses[r] = 0 =>
    /\ \A i \in DOMAIN page[r] :
         i < next[r] => page[r][i].block \in DOMAIN urls[r] /\ page[r][i].source \in DOMAIN urls[r]
    /\ where[r] \in {"render", "done"} => \A i \in DOMAIN page[r] : i < next[r]

\* A request starts with its first asset.
LEMMA TellStart == StoreInit => TellInv
<1> SUFFICES ASSUME StoreInit
             PROVE  TellInv
  OBVIOUS
<1>1. where = [r \in Requests |-> "idle"] /\ page = [r \in Requests |-> <<>>]
  BY DEF StoreInit
<1>2. QED
  BY <1>1 DEF TellInv

\* A step misses an asset, and counts it, or links it; the other requests keep theirs.
LEMMA TellStep == StoreTypes /\ TellInv /\ [StoreNext]_storeVars => TellInv'
<1> SUFFICES ASSUME StoreTypes, TellInv, [StoreNext]_storeVars
             PROVE  TellInv'
  OBVIOUS
<1> DEFINE Tells(r) ==
      misses[r] = 0 =>
        /\ \A i \in DOMAIN page[r] :
             i < next[r] => page[r][i].block \in DOMAIN urls[r] /\ page[r][i].source \in DOMAIN urls[r]
        /\ where[r] \in {"render", "done"} => \A i \in DOMAIN page[r] : i < next[r]
<1>a. TellInv <=> \A r \in Requests : Tells(r)
  BY DEF TellInv
<1>b. TellInv' <=> \A r \in Requests : Tells(r)'
  BY DEF TellInv
<1>1. ASSUME NEW r \in Requests,
             \/ Unsigned(r) \/ DownloadFails(r) \/ StoreFull(r) \/ CreateFails(r) \/ WriteFails(r)
             \/ CopyFails(r) \/ SkipRest(r)
      PROVE  TellInv'
  <2>1. /\ misses' = [misses EXCEPT ![r] = @ + 1] /\ urls' = urls /\ page' = page
        /\ next' \in {next, [next EXCEPT ![r] = @ + 1]}
        /\ \E w : where' = [where EXCEPT ![r] = w]
    BY <1>1 DEF Unsigned, DownloadFails, StoreFull, CreateFails, WriteFails, CopyFails, SkipRest,
       Without
  <2>2. misses'[r] # 0
    BY <2>1 DEF StoreTypes
  <2>3. \A q \in Requests : q # r =>
          /\ misses'[q] = misses[q] /\ urls'[q] = urls[q] /\ page'[q] = page[q]
          /\ next'[q] = next[q] /\ where'[q] = where[q]
    BY <2>1 DEF StoreTypes
  <2>4. QED
    BY <1>a, <1>b, <2>2, <2>3
<1>2. ASSUME NEW r \in Requests, AlreadyThere(r) \/ Store(r) \/ Rename(r) \/ Copied(r)
      PROVE  TellInv'
  <2>1. Linked(r)
    BY <1>2 DEF AlreadyThere, Store, Rename, Copied
  <2>2. /\ misses' = misses /\ page' = page /\ next' = [next EXCEPT ![r] = @ + 1]
        /\ where' = [where EXCEPT ![r] = "loop"]
        /\ \A q \in Requests : q # r => urls'[q] = urls[q]
        /\ DOMAIN urls'[r] = DOMAIN urls[r] \cup LinkKeys(Asset(r))
    BY <2>1 DEF Linked, StoreTypes
  <2>3. Asset(r).block \in DOMAIN urls'[r] /\ Asset(r).source \in DOMAIN urls'[r]
    BY <2>2 DEF LinkKeys
  <2>4. ASSUME misses[r] = 0, NEW i \in DOMAIN page[r], i < next[r] + 1
        PROVE  page[r][i].block \in DOMAIN urls'[r] /\ page[r][i].source \in DOMAIN urls'[r]
    <3>1. i \in Nat /\ next[r] \in Nat
      BY DEF StoreTypes
    <3>2. i = next[r] \/ i < next[r]
      BY <2>4, <3>1
    <3>3. CASE i = next[r]
      BY <2>3, <3>3 DEF Asset
    <3>4. CASE i < next[r]
      BY <2>2, <2>4, <3>4 DEF TellInv
    <3>5. QED
      BY <3>2, <3>3, <3>4
  <2>5. next'[r] = next[r] + 1 /\ where'[r] = "loop" /\ page'[r] = page[r] /\ misses'[r] = misses[r]
    BY <2>2 DEF StoreTypes
  <2>6. Tells(r)'
    BY <2>4, <2>5
  <2>7. \A q \in Requests : q # r =>
          /\ misses'[q] = misses[q] /\ urls'[q] = urls[q] /\ page'[q] = page[q]
          /\ next'[q] = next[q] /\ where'[q] = where[q]
    BY <2>2 DEF StoreTypes
  <2>8. QED
    BY <1>a, <1>b, <2>6, <2>7
<1>3. ASSUME NEW r \in Requests, Fetch(r)
      PROVE  TellInv'
  <2>1. /\ where' = [where EXCEPT ![r] = "loop"] /\ UNCHANGED <<next, urls, misses>>
        /\ where[r] = "idle" /\ \E p \in Pages : page' = [page EXCEPT ![r] = p]
    BY <1>3 DEF Fetch
  <2>2. next'[r] = 1 /\ where'[r] = "loop" /\ \A i \in DOMAIN page'[r] : i \in Nat /\ ~(i < 1)
    BY <2>1, StoreAssumption DEF StoreTypes
  <2>3. Tells(r)'
    BY <2>2
  <2>4. \A q \in Requests : q # r =>
          /\ misses'[q] = misses[q] /\ urls'[q] = urls[q] /\ page'[q] = page[q]
          /\ next'[q] = next[q] /\ where'[q] = where[q]
    BY <2>1 DEF StoreTypes
  <2>5. QED
    BY <1>a, <1>b, <2>3, <2>4
<1>4. ASSUME NEW r \in Requests,
             \/ FetchFails(r) \/ Download(r) \/ CreateTemp(r) \/ Create(r) \/ Render(r)
      PROVE  TellInv'
  <2>1. /\ UNCHANGED <<page, next, urls, misses>>
        /\ \A q \in Requests : where'[q] \in {"render", "done"} => where[q] \in {"render", "done"}
    BY <1>4 DEF FetchFails, Download, CreateTemp, Create, Render, StoreTypes
  <2>2. QED
    BY <2>1 DEF TellInv
<1>5. ASSUME NEW r \in Requests, LoopEnds(r)
      PROVE  TellInv'
  <2>1. /\ UNCHANGED <<page, next, urls, misses>> /\ next[r] > Len(page[r])
        /\ where' = [where EXCEPT ![r] = "render"]
    BY <1>5 DEF LoopEnds
  <2>2. \A i \in DOMAIN page[r] : i < next[r]
    BY <2>1 DEF StoreTypes
  <2>3. \A q \in Requests : q # r => where'[q] = where[q]
    BY <2>1 DEF StoreTypes
  <2>4. QED
    BY <2>1, <2>2, <2>3 DEF TellInv
<1>6. CASE Crash
  <2>1. page' = [r \in Requests |-> <<>>]
    BY <1>6 DEF Crash
  <2>2. \A r \in Requests : DOMAIN page'[r] = {}
    BY <2>1
  <2>3. QED
    BY <2>2 DEF TellInv
<1>7. CASE UNCHANGED storeVars
  BY <1>7 DEF storeVars, perRequest, TellInv
<1>8. QED
  BY <1>1, <1>2, <1>3, <1>4, <1>5, <1>6, <1>7 DEF StoreNext, StoreStep

\* A page or run that reports nothing missing has a link for each of its assets by block
\* and by source.
THEOREM StoreTellsMisses == StoreSpec => []MissesAreTold
<1>1. TellInv => MissesAreTold
  BY DEF TellInv, MissesAreTold
<1>2. QED
  BY <1>1, StoreTypesStart, StoreTypesKept, TellStart, TellStep, PTL DEF StoreSpec
================================================================================
