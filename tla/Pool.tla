---------------------------------- MODULE Pool ---------------------------------
(***************************************************************************)
(* notionapi: Client.fetchCollections, the worker pool that queries the    *)
(* collection views of a page.  The caller hands indexes to the workers    *)
(* over an unbuffered channel, closes it and waits; the workers write the  *)
(* results into a shared slice without a lock.  The context may be         *)
(* cancelled at any time.                                                  *)
(***************************************************************************)
EXTENDS Integers

CONSTANTS
  N,            \* the number of collection views (at least one)
  Concurrency,  \* PageOptions.Concurrency
  NoJob         \* sentinel

ASSUME PoolAssumption ==
  N \in Nat \ {0} /\ Concurrency \in Int /\ NoJob \notin 1..N

Jobs == 1..N

\* Never more workers than jobs, and at least one.
WorkerCount ==
  LET wanted == IF Concurrency <= 0 THEN 1 ELSE Concurrency
  IN IF wanted > N THEN N ELSE wanted

Workers == 1..WorkerCount

VARIABLES
  main,      \* where the caller is
  next,      \* the index it sends next
  at,        \* where each worker is
  job,       \* the index a worker works on
  results,   \* the slice of results
  cancelled  \* the context is done

vars == <<main, next, at, job, results, cancelled>>

Init ==
  /\ main = "send"
  /\ next = 1
  /\ at = [w \in Workers |-> "receive"]
  /\ job = [w \in Workers |-> NoJob]
  /\ results = [i \in Jobs |-> "none"]
  /\ cancelled \in BOOLEAN

\* Fault: the index is taken from the shared loop variable after the send.
Hand_LateIndex(w) ==
  /\ main = "send"
  /\ next <= N
  /\ at[w] = "receive"
  /\ at' = [at EXCEPT ![w] = "check"]
  /\ job' = [job EXCEPT ![w] = IF next < N THEN next + 1 ELSE next]
  /\ next' = next + 1
  /\ UNCHANGED <<main, results, cancelled>>

\* The caller and a worker meet on the channel.
Hand(w) ==
  /\ main = "send"
  /\ next <= N
  /\ at[w] = "receive"
  /\ at' = [at EXCEPT ![w] = "check"]
  /\ job' = [job EXCEPT ![w] = next]
  /\ next' = next + 1
  /\ UNCHANGED <<main, results, cancelled>>

\* Everything is sent: the channel is closed and the caller waits.
Close ==
  /\ main = "send"
  /\ next > N
  /\ main' = "wait"
  /\ UNCHANGED <<next, at, job, results, cancelled>>

\* The worker finds the channel closed.
Exit(w) ==
  /\ main = "wait"
  /\ at[w] = "receive"
  /\ at' = [at EXCEPT ![w] = "exited"]
  /\ UNCHANGED <<main, next, job, results, cancelled>>

\* The worker stores the result of its job and goes back to the channel.
Store(w, r) ==
  /\ results' = [results EXCEPT ![job[w]] = r]
  /\ job' = [job EXCEPT ![w] = NoJob]
  /\ at' = [at EXCEPT ![w] = "receive"]
  /\ UNCHANGED <<main, next, cancelled>>

\* Fault: a worker that sees the cancellation ends (client.go:892-894 warns).
Skip_Ends(w) ==
  /\ at[w] = "check"
  /\ cancelled
  /\ results' = [results EXCEPT ![job[w]] = "cancelled"]
  /\ job' = [job EXCEPT ![w] = NoJob]
  /\ at' = [at EXCEPT ![w] = "exited"]
  /\ UNCHANGED <<main, next, cancelled>>

\* The context is done: the job is answered without a request.
Skip(w) ==
  /\ at[w] = "check"
  /\ cancelled
  /\ Store(w, "cancelled")

\* The context was looked at once, before the request.
Query(w) ==
  /\ at[w] = "check"
  /\ ~cancelled
  /\ at' = [at EXCEPT ![w] = "query"]
  /\ UNCHANGED <<main, next, job, results, cancelled>>

\* GetCollectionData returns data or an error.
QueryEnds(w) ==
  /\ at[w] = "query"
  /\ Store(w, "data") \/ Store(w, "error")

\* Fault: the caller waits for the channel to be drained, not for the workers.
Return_Early ==
  /\ main = "wait"
  /\ \A w \in Workers : at[w] # "check"
  /\ main' = "returned"
  /\ UNCHANGED <<next, at, job, results, cancelled>>

\* wg.Wait returns and the results are the caller's.
Return ==
  /\ main = "wait"
  /\ \A w \in Workers : at[w] = "exited"
  /\ main' = "returned"
  /\ UNCHANGED <<next, at, job, results, cancelled>>

Cancel ==
  /\ ~cancelled
  /\ cancelled' = TRUE
  /\ UNCHANGED <<main, next, at, job, results>>

WorkerStep(w) == Exit(w) \/ Skip(w) \/ Query(w) \/ QueryEnds(w)
MainStep == Close \/ Return \/ \E w \in Workers : Hand(w)

Next == MainStep \/ (\E w \in Workers : WorkerStep(w)) \/ Cancel

Spec == Init /\ [][Next]_vars

\* The caller and the workers are scheduled, and queries end.
FairSpec == Spec /\ WF_vars(MainStep) /\ \A w \in Workers : WF_vars(WorkerStep(w))

--------------------------------------------------------------------------------
TypeOK ==
  /\ main \in {"send", "wait", "returned"}
  /\ next \in 1..N + 1
  /\ at \in [Workers -> {"receive", "check", "query", "exited"}]
  /\ job \in [Workers -> Jobs \cup {NoJob}]
  /\ results \in [Jobs -> {"none", "data", "error", "cancelled"}]
  /\ cancelled \in BOOLEAN

Busy(w) == at[w] \in {"check", "query"}

\* The slice needs no lock: an index is worked on by one worker, only once, and
\* never after the caller has the slice.
NoRaceOnResults ==
  \A w \in Workers : Busy(w) =>
    /\ results[job[w]] = "none"
    /\ \A v \in Workers \ {w} : Busy(v) => job[v] # job[w]
    /\ main # "returned"

\* The caller gets a result for every view, also after a cancellation.
EveryViewAnswered ==
  main = "returned" => \A i \in Jobs : results[i] # "none"

\* fetchCollections returns: nobody waits on the channel for ever, also if the
\* context is cancelled in the middle of it.
Terminates == <>(main = "returned")
================================================================================
