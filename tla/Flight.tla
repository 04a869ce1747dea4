--------------------------------- MODULE Flight --------------------------------
(***************************************************************************)
(* internal/flight: Group.Do, the single-flight coalescer both caches are  *)
(* built on.  Goroutines call Do for keys at any time; each critical       *)
(* section under g.mu is one step, every other step is between two points  *)
(* where another goroutine can be scheduled.                               *)
(*                                                                         *)
(* A member of Calls is the address of a heap-allocated call: it may be    *)
(* allocated again once nothing refers to it, so |Calls| = |Procs| never   *)
(* runs out and the model needs no bound on the number of Dos.             *)
(***************************************************************************)
CONSTANTS
  Procs,    \* goroutines
  Keys,     \* keys of the group
  Calls,    \* addresses of call structs
  Values,   \* what the supplied function may return
  Failures, \* the other ways in which it may end
  NoKey,    \* sentinel
  NoCall    \* sentinel: a nil *call, an absent map entry

Outcomes == Values \cup Failures

ASSUME FlightAssumption ==
  /\ NoKey \notin Keys
  /\ NoCall \notin Calls
  /\ Failures \subseteq {"err", "panic", "goexit"}
  /\ Values \cap {"unset", "zero", "none", "leading", "pending", "free",
                  "running", "err", "panic", "goexit"} = {}

VARIABLES
  m,        \* Group.m: the call in flight for a key, if any
  pc,       \* where each goroutine is inside Do
  key,      \* Do's argument
  cur,      \* Do's local c
  outcome,  \* what call.val, call.err and call.panicValue say together
  done,     \* call.wg has reached zero
  result    \* how the goroutine's last Do ended

vars == <<m, pc, key, cur, outcome, done, result>>

\* What a sharer makes of a call that ended with o: a call whose function
\* called runtime.Goexit has no value, error or panic recorded.
Seen(o) == IF o = "goexit" THEN "zero" ELSE o

\* The goroutine holds the key's entry in the map.
Leaders == {p \in Procs : pc[p] \in {"running", "ended", "published"}}

TypeOK ==
  /\ m \in [Keys -> Calls \cup {NoCall}]
  /\ pc \in [Procs -> {"idle", "waiting", "running", "ended", "published",
                       "released"}]
  /\ key \in [Procs -> Keys \cup {NoKey}]
  /\ cur \in [Procs -> Calls \cup {NoCall}]
  /\ outcome \in [Calls -> Outcomes \cup {"unset"}]
  /\ done \in [Calls -> BOOLEAN]
  /\ result \in [Procs -> Outcomes \cup {"zero", "none"}]

Init ==
  /\ m = [k \in Keys |-> NoCall]
  /\ pc = [p \in Procs |-> "idle"]
  /\ key = [p \in Procs |-> NoKey]
  /\ cur = [p \in Procs |-> NoCall]
  /\ outcome = [c \in Calls |-> "unset"]
  /\ done = [c \in Calls |-> FALSE]
  /\ result = [p \in Procs |-> "none"]

Unreferenced(c) == (\A p \in Procs : cur[p] # c) /\ (\A k \in Keys : m[k] # c)

\* Do finds a call for k in the map and goes to wait for it.
Join(p, k) ==
  /\ pc[p] = "idle"
  /\ m[k] # NoCall
  /\ pc' = [pc EXCEPT ![p] = "waiting"]
  /\ key' = [key EXCEPT ![p] = k]
  /\ cur' = [cur EXCEPT ![p] = m[k]]
  /\ result' = [result EXCEPT ![p] = "none"]
  /\ UNCHANGED <<m, outcome, done>>

\* Fault: registering without looking for an entry.
Lead_NoLookup(p, k) ==
  /\ pc[p] = "idle"
  /\ \E c \in Calls :
       /\ Unreferenced(c)
       /\ m' = [m EXCEPT ![k] = c]
       /\ cur' = [cur EXCEPT ![p] = c]
       /\ outcome' = [outcome EXCEPT ![c] = "unset"]
       /\ done' = [done EXCEPT ![c] = FALSE]
  /\ pc' = [pc EXCEPT ![p] = "running"]
  /\ key' = [key EXCEPT ![p] = k]
  /\ result' = [result EXCEPT ![p] = "none"]

\* Do finds no call for k, registers a new one and will run the function.
Lead(p, k) ==
  /\ pc[p] = "idle"
  /\ m[k] = NoCall
  /\ \E c \in Calls :
       /\ Unreferenced(c)
       /\ m' = [m EXCEPT ![k] = c]
       /\ cur' = [cur EXCEPT ![p] = c]
       /\ outcome' = [outcome EXCEPT ![c] = "unset"]
       /\ done' = [done EXCEPT ![c] = FALSE]
  /\ pc' = [pc EXCEPT ![p] = "running"]
  /\ key' = [key EXCEPT ![p] = k]
  /\ result' = [result EXCEPT ![p] = "none"]

\* Fault: wg.Done is not deferred, so that Goexit skips it.
FnEnds_DoneNotDeferred(p, o) ==
  /\ pc[p] = "running"
  /\ outcome' = [outcome EXCEPT ![cur[p]] = o]
  /\ pc' = [pc EXCEPT ![p] = IF o = "goexit" THEN "published" ELSE "ended"]
  /\ UNCHANGED <<m, key, cur, done, result>>

\* The supplied function ends: its value or error is stored, or the deferred
\* function stores the panic it recovers, or (Goexit) nothing is stored.
FnEnds(p, o) ==
  /\ pc[p] = "running"
  /\ outcome' = [outcome EXCEPT ![cur[p]] = o]
  /\ pc' = [pc EXCEPT ![p] = "ended"]
  /\ UNCHANGED <<m, key, cur, done, result>>

\* c.wg.Done(): the waiters may go.
Publish(p) ==
  /\ pc[p] = "ended"
  /\ done' = [done EXCEPT ![cur[p]] = TRUE]
  /\ pc' = [pc EXCEPT ![p] = "published"]
  /\ UNCHANGED <<m, key, cur, outcome, result>>

\* The key leaves the map, in a critical section of its own.
Release(p) ==
  /\ pc[p] = "published"
  /\ m' = [m EXCEPT ![key[p]] = NoCall]
  /\ pc' = [pc EXCEPT ![p] = "released"]
  /\ UNCHANGED <<key, cur, outcome, done, result>>

\* A goroutine leaves Do with r and drops its references.
Exit(p, r) ==
  /\ result' = [result EXCEPT ![p] = r]
  /\ pc' = [pc EXCEPT ![p] = "idle"]
  /\ cur' = [cur EXCEPT ![p] = NoCall]
  /\ key' = [key EXCEPT ![p] = NoKey]

\* The leader returns, panics again, or its goroutine ends.
Leave(p) ==
  /\ pc[p] = "released"
  /\ Exit(p, outcome[cur[p]])
  /\ UNCHANGED <<m, outcome, done>>

\* Fault: the sharer reads the call without waiting for it.
Wake_NoWait(p) ==
  /\ pc[p] = "waiting"
  /\ Exit(p, Seen(outcome[cur[p]]))
  /\ UNCHANGED <<m, outcome, done>>

\* A waiter's Wait returns and it shares the call's panic, or value and error.
Wake(p) ==
  /\ pc[p] = "waiting"
  /\ done[cur[p]]
  /\ Exit(p, Seen(outcome[cur[p]]))
  /\ UNCHANGED <<m, outcome, done>>

\* The steps of a goroutine that is inside Do.
Step(p) ==
  \/ \E o \in Outcomes : FnEnds(p, o)
  \/ Publish(p)
  \/ Release(p)
  \/ Leave(p)
  \/ Wake(p)

Next ==
  \E p \in Procs :
    \/ \E k \in Keys : Join(p, k)
    \/ \E k \in Keys : Lead(p, k)
    \/ Step(p)

Spec == Init /\ [][Next]_vars

\* Scheduled goroutines run, a mutex held for finitely many instructions is
\* acquired, and the supplied function ends.
Fairness == \A p \in Procs : WF_vars(Step(p))

FairSpec == Spec /\ Fairness

--------------------------------------------------------------------------------
\* The function never runs twice at the same time for one key (flight.go:10-12).
AtMostOneRun ==
  \A p, q \in Procs :
    pc[p] = "running" /\ pc[q] = "running" /\ key[p] = key[q] => p = q

\* A waiter is never left on a call nobody will finish: until the call is
\* published, a goroutine is still executing it and it is the one in the map.
NoStrandedWaiter ==
  \A p \in Procs : pc[p] = "waiting" /\ ~done[cur[p]] =>
    /\ m[key[p]] = cur[p]
    /\ \E q \in Procs : pc[q] \in {"running", "ended"} /\ cur[q] = cur[p]

\* delete(g.m, key) removes the leader's own call, never one that another
\* goroutine registered for the same key in between.
ReleaseRemovesOwnCall ==
  [][\A p \in Procs, k \in Keys :
       pc[p] = "published" /\ pc'[p] = "released" /\ m'[k] # m[k] => m[k] = cur[p]]_vars

\* flight.go:28, "The key is released once fn returns, so a later Do re-runs
\* fn", and flight_test.go:42, "Each sequential call must re-run fn": a Do that
\* starts when the call is already published, so that others may have returned
\* from it, does not share it.
LaterDoReruns ==
  [][\A p \in Procs :
       pc[p] = "idle" /\ pc'[p] = "waiting" => ~done[cur'[p]]]_vars

--------------------------------------------------------------------------------
\* The promise of the group, with the calls, the wait groups and the position
\* of each goroutine mapped away.
PhaseOf(k) ==
  IF m[k] = NoCall THEN "free"
  ELSE IF outcome[m[k]] = "unset" THEN "running" ELSE outcome[m[k]]

AnswerOf(p) ==
  IF pc[p] = "idle" THEN "none"
  ELSE IF outcome[cur[p]] = "unset"
       THEN IF pc[p] = "running" THEN "leading" ELSE "pending"
       ELSE IF pc[p] = "waiting" THEN Seen(outcome[cur[p]]) ELSE outcome[cur[p]]

Promise ==
  INSTANCE Coalescer WITH
    phase <- [k \in Keys |-> PhaseOf(k)],
    want <- key,
    answer <- [p \in Procs |-> AnswerOf(p)]

\* Every behaviour of Do is one the abstract coalescer allows, liveness included.
ImplementsCoalescer == Promise!CSpec
================================================================================
