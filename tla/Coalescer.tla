------------------------------- MODULE Coalescer -------------------------------
(***************************************************************************)
(* What flight.Group promises its callers, without calls, wait groups or   *)
(* a mutex.  A key is free, being executed, or settled (the execution has  *)
(* an outcome and the key is not free yet).  One execution runs per key at *)
(* a time, and its outcome answers, all at once, everybody who asked for   *)
(* the key since it started.                                               *)
(*                                                                         *)
(* The supplied function returns one of Values or fails: "err", "panic" or *)
(* "goexit" (runtime.Goexit, which t.FailNow uses: the deferred code runs  *)
(* but there is nothing to recover).  Sharers of a "goexit" see (nil, nil),*)
(* written "zero".                                                         *)
(***************************************************************************)
CONSTANTS
  Procs,    \* the goroutines that call Do
  Keys,     \* the keys they use
  Values,   \* what the supplied function may return
  Failures, \* the other ways in which it may end
  NoKey     \* sentinel: the goroutine is not inside Do; not a member of Keys

Outcomes == Values \cup Failures

Seen(o) == IF o = "goexit" THEN "zero" ELSE o

VARIABLES
  phase,    \* phase[k]: "free", "running", or the outcome not yet freed
  want,     \* want[p]: the key p asked for
  answer,   \* answer[p]: "none", "leading", "pending", or p's outcome
  result    \* result[p]: what p's last Do ended with

cvars == <<phase, want, answer, result>>

CInit ==
  /\ phase = [k \in Keys |-> "free"]
  /\ want = [p \in Procs |-> NoKey]
  /\ answer = [p \in Procs |-> "none"]
  /\ result = [p \in Procs |-> "none"]

\* p asks for k: it starts the execution, joins it, or gets the outcome of
\* one that is settled but whose key is not free again.
Ask(p, k) ==
  /\ want[p] = NoKey
  /\ want' = [want EXCEPT ![p] = k]
  /\ \/ /\ phase[k] = "free"
        /\ phase' = [phase EXCEPT ![k] = "running"]
        /\ answer' = [answer EXCEPT ![p] = "leading"]
     \/ /\ phase[k] = "running"
        /\ answer' = [answer EXCEPT ![p] = "pending"]
        /\ UNCHANGED phase
     \/ /\ phase[k] \in Outcomes
        /\ answer' = [answer EXCEPT ![p] = Seen(phase[k])]
        /\ UNCHANGED phase
  /\ result' = [result EXCEPT ![p] = "none"]

\* The execution for k ends with o and answers everyone who waits for k.
Settle(k, o) ==
  /\ phase[k] = "running"
  /\ phase' = [phase EXCEPT ![k] = o]
  /\ answer' = [p \in Procs |->
                  CASE want[p] = k /\ answer[p] = "leading" -> o
                    [] want[p] = k /\ answer[p] = "pending" -> Seen(o)
                    [] OTHER -> answer[p]]
  /\ UNCHANGED <<want, result>>

Free(k) ==
  /\ phase[k] \in Outcomes
  /\ phase' = [phase EXCEPT ![k] = "free"]
  /\ UNCHANGED <<want, answer, result>>

Reply(p) ==
  /\ answer[p] \in Outcomes \cup {"zero"}
  /\ result' = [result EXCEPT ![p] = answer[p]]
  /\ answer' = [answer EXCEPT ![p] = "none"]
  /\ want' = [want EXCEPT ![p] = NoKey]
  /\ UNCHANGED phase

CNext ==
  \/ \E p \in Procs, k \in Keys : Ask(p, k)
  \/ \E k \in Keys, o \in Outcomes : Settle(k, o)
  \/ \E k \in Keys : Free(k)
  \/ \E p \in Procs : Reply(p)

CSafety == CInit /\ [][CNext]_cvars

\* Executions end and answered callers return.
CSpec ==
  /\ CSafety
  /\ \A k \in Keys : WF_cvars(\E o \in Outcomes : Settle(k, o))
  /\ \A p \in Procs : WF_cvars(Reply(p))
================================================================================
