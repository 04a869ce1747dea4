-------------------------------- MODULE ByteCache ------------------------------
(***************************************************************************)
(* internal/cache: Cache.Do, which puts the LRU behind the single-flight   *)
(* group.  The function it hands to Group.Do looks the key up again, loads *)
(* it and stores what was loaded; each of those is a step, as is every     *)
(* critical section, so that goroutines interleave wherever they can.      *)
(***************************************************************************)
EXTENDS LRU

CONSTANTS
  Procs,     \* goroutines
  Calls,     \* addresses of flight calls
  Failures,  \* how a load may end other than with a value
  NoKey, NoCall,
  Loads,     \* Loads[k]: the values load() may return for k
  PutKeys    \* the keys for which callers also call Put directly

Marks == {"unset", "zero", "none", "leading", "pending", "free", "running",
          "err", "panic", "goexit"}

ASSUME ByteCacheAssumption ==
  /\ NoKey \notin Keys
  /\ NoCall \notin Calls
  /\ Failures \subseteq {"err", "panic", "goexit"}
  /\ Values \cap Marks = {}
  /\ Absent \notin [value : Values, bytes : Nat \ {0}]
  /\ Loads \in [Keys -> SUBSET Values]
  /\ PutKeys \subseteq Keys

VARIABLES
  m, pc, key, cur, outcome, done, result,  \* the flight group (see Flight)
  at,        \* where each goroutine is inside Cache.Do
  ckey,      \* its key argument
  loaded     \* what its load returned and it has not stored yet

fvars == <<m, pc, key, cur, outcome, done, result>>
vars == <<items, order, used, m, pc, key, cur, outcome, done, result, at, ckey, loaded>>

F == INSTANCE Flight

Init ==
  /\ LInit
  /\ F!Init
  /\ at = [p \in Procs |-> "out"]
  /\ ckey = [p \in Procs |-> NoKey]
  /\ loaded = [p \in Procs |-> "none"]

Goto(p, place) == at' = [at EXCEPT ![p] = place]

\* Get, or the first lookup of Do, hits.
Hit(p, k) ==
  /\ at[p] = "out"
  /\ Touch(k)
  /\ UNCHANGED <<fvars, at, ckey, loaded>>

\* Do misses and goes on to the flight group.
Miss(p, k) ==
  /\ at[p] = "out"
  /\ k \notin Cached
  /\ Goto(p, "missed")
  /\ ckey' = [ckey EXCEPT ![p] = k]
  /\ UNCHANGED <<lvars, fvars, loaded>>

\* A load for the key is in flight: share it.
ShareLoad(p) ==
  /\ at[p] = "missed"
  /\ F!Join(p, ckey[p])
  /\ Goto(p, "inflight")
  /\ UNCHANGED <<lvars, ckey, loaded>>

\* No load is in flight: lead one.
LeadLoad(p) ==
  /\ at[p] = "missed"
  /\ F!Lead(p, ckey[p])
  /\ Goto(p, "recheck")
  /\ UNCHANGED <<lvars, ckey, loaded>>

\* The second lookup finds what an earlier leader stored since the first one.
RecheckHit(p) ==
  /\ at[p] = "recheck"
  /\ Touch(ckey[p])
  /\ F!FnEnds(p, items[ckey[p]].value)
  /\ Goto(p, "inflight")
  /\ UNCHANGED <<ckey, loaded>>

\* Fault: the loader does not look the key up again.
RecheckMiss_Always(p) ==
  /\ at[p] = "recheck"
  /\ Goto(p, "loading")
  /\ UNCHANGED <<lvars, fvars, ckey, loaded>>

RecheckMiss(p) ==
  /\ at[p] = "recheck"
  /\ ckey[p] \notin Cached
  /\ Goto(p, "loading")
  /\ UNCHANGED <<lvars, fvars, ckey, loaded>>

\* load() fails: nothing is stored and the failure ends the call.
LoadFails(p) ==
  /\ at[p] = "loading"
  /\ \E o \in Failures : F!FnEnds(p, o)
  /\ Goto(p, "inflight")
  /\ UNCHANGED <<lvars, ckey, loaded>>

\* Fault: the loaded value is kept in a variable that the loaders share.
LoadSucceeds_Shared(p) ==
  /\ at[p] = "loading"
  /\ \E v \in Loads[ckey[p]] :
       loaded' = [q \in Procs |-> IF at[q] = "storing" \/ q = p THEN v ELSE loaded[q]]
  /\ Goto(p, "storing")
  /\ UNCHANGED <<lvars, fvars, ckey>>

LoadSucceeds(p) ==
  /\ at[p] = "loading"
  /\ \E v \in Loads[ckey[p]] : loaded' = [loaded EXCEPT ![p] = v]
  /\ Goto(p, "storing")
  /\ UNCHANGED <<lvars, fvars, ckey>>

\* The loaded value is put into the cache and returned from the function.
StoreLoaded(p) ==
  /\ at[p] = "storing"
  /\ Put(ckey[p], loaded[p])
  /\ F!FnEnds(p, loaded[p])
  /\ loaded' = [loaded EXCEPT ![p] = "none"]
  /\ Goto(p, "inflight")
  /\ UNCHANGED ckey

\* The group lets the sharers go, then deletes the key.
Publish(p) == F!Publish(p) /\ UNCHANGED <<lvars, at, ckey, loaded>>
Release(p) == F!Release(p) /\ UNCHANGED <<lvars, at, ckey, loaded>>

\* Group.Do returns, and Cache.Do with it: a nil result is the zero value.
Return(p) ==
  /\ at[p] = "inflight"
  /\ F!Leave(p) \/ F!Wake(p)
  /\ Goto(p, "out")
  /\ ckey' = [ckey EXCEPT ![p] = NoKey]
  /\ UNCHANGED <<lvars, loaded>>

\* A caller stores a value of its own.
DirectPut(p, k) ==
  /\ k \in PutKeys
  /\ at[p] = "out"
  /\ \E v \in Loads[k] : Put(k, v)
  /\ UNCHANGED <<fvars, at, ckey, loaded>>

Step(p) ==
  \/ ShareLoad(p) \/ LeadLoad(p)
  \/ RecheckHit(p) \/ RecheckMiss(p)
  \/ LoadFails(p) \/ LoadSucceeds(p) \/ StoreLoaded(p)
  \/ Publish(p) \/ Release(p) \/ Return(p)

Next ==
  \E p \in Procs :
    \/ \E k \in Keys : Hit(p, k) \/ Miss(p, k) \/ DirectPut(p, k)
    \/ Step(p)

Spec == Init /\ [][Next]_vars

--------------------------------------------------------------------------------
TypeOK ==
  /\ F!TypeOK
  /\ items \in [Keys -> [value : Values, bytes : Nat \ {0}] \cup {Absent}]
  /\ at \in [Procs -> {"out", "missed", "recheck", "loading", "storing", "inflight"}]
  /\ ckey \in [Procs -> Keys \cup {NoKey}]
  /\ loaded \in [Procs -> Values \cup {"none"}]

\* A key is loaded by one goroutine at a time.
OneLoadPerKey ==
  \A p, q \in Procs :
    /\ at[p] \in {"loading", "storing"}
    /\ at[q] \in {"loading", "storing"}
    /\ ckey[p] = ckey[q]
    => p = q

\* Nobody loads, or is about to store, a key that is cached: the second lookup
\* (cache.go:116) sees every store of an earlier leader.  It needs that only
\* Do stores values for the key.
LoadsOnlyMissingKeys ==
  \A p \in Procs :
    at[p] \in {"loading", "storing"} /\ ckey[p] \notin PutKeys => ckey[p] \notin Cached

\* A value is only ever cached for, shared by, or returned to callers of a key
\* that it was loaded or put for.
ValuesBelongToKeys ==
  /\ \A k \in Cached : items[k].value \in Loads[k]
  /\ \A p \in Procs :
       /\ at[p] = "storing" => loaded[p] \in Loads[ckey[p]]
       /\ at[p] = "inflight" /\ outcome[cur[p]] \in Values =>
            outcome[cur[p]] \in Loads[ckey[p]]

================================================================================
