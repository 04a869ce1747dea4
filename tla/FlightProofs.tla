------------------------------ MODULE FlightProofs -----------------------------
(***************************************************************************)
(* Theorems about Group.Do for any number of goroutines, keys, addresses   *)
(* and values.                                                             *)
(***************************************************************************)
EXTENDS Flight, TLAPS

\* A goroutine that is executing a call, from the registration to the return.
Executing(p) == pc[p] \in {"running", "ended", "published", "released"}

\* A goroutine is outside Do exactly when it holds neither a key nor a call.
LocalsInv ==
  \A p \in Procs :
    /\ pc[p] = "idle" <=> cur[p] = NoCall
    /\ pc[p] = "idle" <=> key[p] = NoKey

\* Until it deletes the key, an executing goroutine's call is the key's entry,
\* and so is the call of a waiter that has not been let go.
EntryInv ==
  \A p \in Procs :
    \/ pc[p] \in {"running", "ended", "published"}
    \/ pc[p] = "waiting" /\ ~done[cur[p]]
    => m[key[p]] = cur[p]

\* Every entry of the map belongs to a goroutine that will delete it.
LeaderInv ==
  \A k \in Keys : m[k] # NoCall =>
    \E p \in Leaders : key[p] = k /\ cur[p] = m[k]

\* A call is executed by one goroutine.
OwnerInv ==
  \A p, q \in Procs : Executing(p) /\ Executing(q) /\ cur[p] = cur[q] => p = q

\* The order inside Do: an outcome is stored, then the waiters are let go.
OrderInv ==
  \A p \in Procs :
    /\ pc[p] = "running" => outcome[cur[p]] = "unset" /\ ~done[cur[p]]
    /\ pc[p] = "ended" => outcome[cur[p]] # "unset" /\ ~done[cur[p]]
    /\ pc[p] \in {"published", "released"} =>
         outcome[cur[p]] # "unset" /\ done[cur[p]]
    /\ pc[p] = "waiting" /\ done[cur[p]] => outcome[cur[p]] # "unset"

FlightInv ==
  /\ TypeOK
  /\ LocalsInv
  /\ EntryInv
  /\ LeaderInv
  /\ OwnerInv
  /\ OrderInv

--------------------------------------------------------------------------------
\* Nobody waits at first.
LEMMA InitInv == Init => FlightInv
  BY FlightAssumption
  DEF Init, FlightInv, TypeOK, LocalsInv, EntryInv, LeaderInv, OwnerInv,
      OrderInv, Executing

\* An outcome is never taken for one that has not been stored.
LEMMA OutcomeIsSet == ASSUME NEW o \in Outcomes PROVE o # "unset"
  BY FlightAssumption DEF Outcomes

\* What a goroutine dereferences is a call, and what a leader returns is set.
LEMMA TypeStep ==
  ASSUME FlightInv, [Next]_vars
  PROVE  TypeOK'
<1> USE DEF FlightInv, TypeOK, LocalsInv
<1>1. CASE UNCHANGED vars
  BY <1>1 DEF vars
<1>2. ASSUME NEW p \in Procs, NEW k \in Keys, Join(p, k) PROVE TypeOK'
  BY <1>2 DEF Join
<1>3. ASSUME NEW p \in Procs, NEW k \in Keys, Lead(p, k) PROVE TypeOK'
  BY <1>3 DEF Lead
<1>4. ASSUME NEW p \in Procs, NEW o \in Outcomes, FnEnds(p, o) PROVE TypeOK'
  BY <1>4 DEF FnEnds
<1>5. ASSUME NEW p \in Procs, Publish(p) PROVE TypeOK'
  BY <1>5 DEF Publish
<1>6. ASSUME NEW p \in Procs, Release(p) PROVE TypeOK'
  BY <1>6 DEF Release
<1>7. ASSUME NEW p \in Procs, Leave(p) PROVE TypeOK'
  <2>1. cur[p] \in Calls /\ outcome[cur[p]] \in Outcomes
    BY <1>7 DEF Leave, OrderInv
  <2>2. QED
    BY <1>7, <2>1 DEF Leave, Exit
<1>8. ASSUME NEW p \in Procs, Wake(p) PROVE TypeOK'
  <2>1. cur[p] \in Calls /\ outcome[cur[p]] \in Outcomes
    BY <1>8 DEF Wake, OrderInv
  <2>2. QED
    BY <1>8, <2>1 DEF Wake, Exit, Seen
<1>9. QED
  BY <1>1, <1>2, <1>3, <1>4, <1>5, <1>6, <1>7, <1>8 DEF Next, Step

\* Nothing that a goroutine holds, or that the map holds, is allocated again.
LEMMA LeadStep ==
  ASSUME FlightInv, TypeOK', NEW p \in Procs, NEW k \in Keys, Lead(p, k)
  PROVE  FlightInv'
<1> USE DEF FlightInv, TypeOK
<1>1. PICK c \in Calls :
        /\ Unreferenced(c)
        /\ m' = [m EXCEPT ![k] = c]
        /\ cur' = [cur EXCEPT ![p] = c]
        /\ outcome' = [outcome EXCEPT ![c] = "unset"]
        /\ done' = [done EXCEPT ![c] = FALSE]
  BY DEF Lead
<1>2. /\ pc[p] = "idle" /\ m[k] = NoCall
      /\ pc' = [pc EXCEPT ![p] = "running"]
      /\ key' = [key EXCEPT ![p] = k]
  BY DEF Lead
<1>3. \A q \in Procs : q # p =>
        /\ pc'[q] = pc[q] /\ key'[q] = key[q] /\ cur'[q] = cur[q] /\ cur[q] # c
        /\ cur[q] # NoCall =>
             outcome'[cur[q]] = outcome[cur[q]] /\ done'[cur[q]] = done[cur[q]]
  <2> SUFFICES ASSUME NEW q \in Procs, q # p
               PROVE  /\ pc'[q] = pc[q] /\ key'[q] = key[q]
                      /\ cur'[q] = cur[q] /\ cur[q] # c
                      /\ cur[q] # NoCall => /\ outcome'[cur[q]] = outcome[cur[q]]
                                            /\ done'[cur[q]] = done[cur[q]]
    OBVIOUS
  <2>1. pc'[q] = pc[q] /\ key'[q] = key[q] /\ cur'[q] = cur[q]
    BY <1>1, <1>2
  <2>2. cur[q] # c
    BY <1>1 DEF Unreferenced
  <2>3. cur[q] # NoCall => /\ outcome'[cur[q]] = outcome[cur[q]]
                           /\ done'[cur[q]] = done[cur[q]]
    BY <1>1, <2>2
  <2>4. QED
    BY <2>1, <2>2, <2>3
<1>4. /\ pc'[p] = "running" /\ key'[p] = k /\ cur'[p] = c /\ m'[k] = c
      /\ outcome'[c] = "unset" /\ done'[c] = FALSE
      /\ \A j \in Keys : j # k => m'[j] = m[j]
  BY <1>1, <1>2
<1>5. LocalsInv'
  BY <1>3, <1>4, FlightAssumption DEF LocalsInv
<1>6. EntryInv'
  <2> SUFFICES ASSUME NEW q \in Procs, q # p,
                      \/ pc'[q] \in {"running", "ended", "published"}
                      \/ pc'[q] = "waiting" /\ ~done'[cur'[q]]
               PROVE  m'[key'[q]] = cur'[q]
    BY <1>4 DEF EntryInv
  <2>1. cur[q] # NoCall /\ key[q] # NoKey
    BY <1>3 DEF LocalsInv
  <2>2. m[key[q]] = cur[q]
    BY <1>3, <2>1 DEF EntryInv
  <2>3. key[q] # k
    BY <1>2, <2>1, <2>2
  <2>4. QED
    BY <1>3, <1>4, <2>1, <2>2, <2>3
<1>7. LeaderInv'
  <2> SUFFICES ASSUME NEW j \in Keys, m'[j] # NoCall
               PROVE  \E q \in Leaders' : key'[q] = j /\ cur'[q] = m'[j]
    BY DEF LeaderInv
  <2>1. CASE j = k
    BY <1>4, <2>1 DEF Leaders
  <2>2. CASE j # k
    <3>1. PICK q \in Leaders : key[q] = j /\ cur[q] = m[j]
      BY <1>4, <2>2 DEF LeaderInv
    <3>2. q # p
      BY <1>2, <3>1 DEF Leaders
    <3>3. QED
      BY <1>3, <1>4, <2>2, <3>1, <3>2 DEF Leaders
  <2>3. QED
    BY <2>1, <2>2
<1>8. OwnerInv'
  BY <1>3, <1>4 DEF OwnerInv, Executing
<1>9. OrderInv'
  BY <1>3, <1>4 DEF OrderInv, LocalsInv
<1>10. QED
  BY <1>5, <1>6, <1>7, <1>8, <1>9

\* The remaining steps, none of which allocates.
LEMMA InvStep == FlightInv /\ [Next]_vars => FlightInv'
<1> SUFFICES ASSUME FlightInv, [Next]_vars PROVE FlightInv'
  OBVIOUS
<1>t. TypeOK'
  BY TypeStep
<1> USE <1>t DEF FlightInv, TypeOK
<1>1. CASE UNCHANGED vars
  BY <1>1 DEF vars, LocalsInv, EntryInv, LeaderInv, OwnerInv, OrderInv,
              Leaders, Executing
<1>2. ASSUME NEW p \in Procs, NEW k \in Keys, Join(p, k) PROVE FlightInv'
  <2> USE <1>2 DEF Join
  <2>0. PICK r \in Leaders : key[r] = k /\ cur[r] = m[k]
    BY DEF LeaderInv
  <2>1. LocalsInv'
    BY FlightAssumption DEF LocalsInv
  <2>2. EntryInv'
    BY DEF EntryInv
  <2>3. LeaderInv'
    BY DEF LeaderInv, Leaders
  <2>4. OwnerInv'
    BY DEF OwnerInv, Executing
  <2>5. OrderInv'
    BY <2>0 DEF OrderInv, Leaders
  <2>6. QED
    BY <2>1, <2>2, <2>3, <2>4, <2>5
<1>3. ASSUME NEW p \in Procs, NEW k \in Keys, Lead(p, k) PROVE FlightInv'
  BY <1>3, LeadStep
<1>4. ASSUME NEW p \in Procs, NEW o \in Outcomes, FnEnds(p, o) PROVE FlightInv'
  <2> USE <1>4, OutcomeIsSet DEF FnEnds
  <2>0. cur[p] \in Calls
    BY DEF LocalsInv
  <2>1. LocalsInv'
    BY DEF LocalsInv
  <2>2. EntryInv'
    BY DEF EntryInv
  <2>3. LeaderInv'
    BY DEF LeaderInv, Leaders
  <2>4. OwnerInv'
    BY DEF OwnerInv, Executing
  <2>5. OrderInv'
    BY <2>0 DEF OrderInv, OwnerInv, Executing, LocalsInv
  <2>6. QED
    BY <2>1, <2>2, <2>3, <2>4, <2>5
<1>5. ASSUME NEW p \in Procs, Publish(p) PROVE FlightInv'
  <2> USE <1>5 DEF Publish
  <2>0. cur[p] \in Calls
    BY DEF LocalsInv
  <2>1. LocalsInv'
    BY DEF LocalsInv
  <2>2. EntryInv'
    BY <2>0 DEF EntryInv, LocalsInv
  <2>3. LeaderInv'
    BY DEF LeaderInv, Leaders
  <2>4. OwnerInv'
    BY DEF OwnerInv, Executing
  <2>5. OrderInv'
    BY <2>0 DEF OrderInv, OwnerInv, Executing, LocalsInv
  <2>6. QED
    BY <2>1, <2>2, <2>3, <2>4, <2>5
<1>6. ASSUME NEW p \in Procs, Release(p) PROVE FlightInv'
  <2> USE <1>6 DEF Release
  <2>0. key[p] \in Keys /\ cur[p] \in Calls /\ m[key[p]] = cur[p]
    BY DEF LocalsInv, EntryInv
  <2>1. LocalsInv'
    BY DEF LocalsInv
  <2>2. EntryInv'
    <3> SUFFICES ASSUME NEW q \in Procs,
                        \/ pc'[q] \in {"running", "ended", "published"}
                        \/ pc'[q] = "waiting" /\ ~done'[cur'[q]]
                 PROVE  m'[key'[q]] = cur'[q]
      BY DEF EntryInv
    <3>1. q # p /\ pc'[q] = pc[q] /\ m[key[q]] = cur[q]
      BY DEF EntryInv
    <3>2. key[q] # key[p]
      <4>1. CASE pc[q] = "waiting"
        BY <2>0, <3>1, <4>1 DEF OrderInv
      <4>2. CASE pc[q] # "waiting"
        BY <2>0, <3>1, <4>2 DEF OwnerInv, Executing
      <4>3. QED
        BY <4>1, <4>2
    <3>3. key[q] \in Keys
      BY <3>1 DEF LocalsInv
    <3>4. QED
      BY <3>1, <3>2, <3>3
  <2>3. LeaderInv'
    BY <2>0 DEF LeaderInv, Leaders
  <2>4. OwnerInv'
    BY DEF OwnerInv, Executing
  <2>5. OrderInv'
    BY DEF OrderInv
  <2>6. QED
    BY <2>1, <2>2, <2>3, <2>4, <2>5
<1>7. ASSUME NEW p \in Procs, Leave(p) PROVE FlightInv'
  <2> USE <1>7 DEF Leave, Exit
  <2>1. LocalsInv'
    BY FlightAssumption DEF LocalsInv
  <2>2. EntryInv'
    BY DEF EntryInv
  <2>3. LeaderInv'
    BY DEF LeaderInv, Leaders
  <2>4. OwnerInv'
    BY DEF OwnerInv, Executing
  <2>5. OrderInv'
    BY DEF OrderInv
  <2>6. QED
    BY <2>1, <2>2, <2>3, <2>4, <2>5
<1>8. ASSUME NEW p \in Procs, Wake(p) PROVE FlightInv'
  <2> USE <1>8 DEF Wake, Exit
  <2>1. LocalsInv'
    BY FlightAssumption DEF LocalsInv
  <2>2. EntryInv'
    BY DEF EntryInv
  <2>3. LeaderInv'
    BY DEF LeaderInv, Leaders
  <2>4. OwnerInv'
    BY DEF OwnerInv, Executing
  <2>5. OrderInv'
    BY DEF OrderInv
  <2>6. QED
    BY <2>1, <2>2, <2>3, <2>4, <2>5
<1>9. QED
  BY <1>1, <1>2, <1>3, <1>4, <1>5, <1>6, <1>7, <1>8 DEF Next, Step

--------------------------------------------------------------------------------
\* The inductive invariant holds in every reachable state.
THEOREM Invariance == Spec => []FlightInv
<1>1. Init => FlightInv
  BY InitInv
<1>2. FlightInv /\ [Next]_vars => FlightInv'
  BY InvStep
<1>3. QED
  BY <1>1, <1>2, PTL DEF Spec

\* The variables keep their types (Group.Do never dereferences a nil call).
THEOREM TypeCorrect == Spec => []TypeOK
<1>1. FlightInv => TypeOK
  BY DEF FlightInv
<1>2. QED
  BY <1>1, Invariance, PTL

\* For every key, at most one execution of the supplied function at a time:
\* both goroutines' calls are the key's entry, and a call has one owner.
THEOREM MutualExclusion == Spec => []AtMostOneRun
<1>1. FlightInv => AtMostOneRun
  BY DEF FlightInv, EntryInv, OwnerInv, AtMostOneRun, Executing
<1>2. QED
  BY <1>1, Invariance, PTL

\* While a call is unpublished its waiters have a goroutine that will publish
\* it, and the entry of the map is that call.
THEOREM NoWaiterIsStranded == Spec => []NoStrandedWaiter
<1>1. FlightInv => NoStrandedWaiter
  <2> SUFFICES ASSUME FlightInv, NEW p \in Procs, pc[p] = "waiting", ~done[cur[p]]
               PROVE  /\ m[key[p]] = cur[p]
                      /\ \E q \in Procs : pc[q] \in {"running", "ended"} /\ cur[q] = cur[p]
    BY DEF NoStrandedWaiter
  <2>1. m[key[p]] = cur[p] /\ key[p] \in Keys /\ cur[p] # NoCall
    BY DEF FlightInv, TypeOK, EntryInv, LocalsInv
  <2>2. PICK q \in Leaders : cur[q] = m[key[p]]
    BY <2>1 DEF FlightInv, LeaderInv
  <2>3. QED
    BY <2>1, <2>2 DEF FlightInv, OrderInv, Leaders
<1>2. QED
  BY <1>1, Invariance, PTL

\* The leader's delete removes the leader's own entry and no other.
THEOREM ReleaseIsOwn == Spec => ReleaseRemovesOwnCall
<1>1. FlightInv /\ [Next]_vars =>
        [\A p \in Procs, k \in Keys :
           pc[p] = "published" /\ pc'[p] = "released" /\ m'[k] # m[k] => m[k] = cur[p]]_vars
  <2> SUFFICES ASSUME FlightInv, Next, NEW p \in Procs, NEW k \in Keys,
                      pc[p] = "published", pc'[p] = "released", m'[k] # m[k]
               PROVE  m[k] = cur[p]
    OBVIOUS
  <2>1. Release(p)
    BY DEF Next, Step, Join, Lead, FnEnds, Publish, Release, Leave, Wake, Exit,
           FlightInv, TypeOK
  <2>2. QED
    BY <2>1 DEF Release, FlightInv, TypeOK, EntryInv, LocalsInv
<1>2. QED
  BY <1>1, Invariance, PTL DEF Spec, ReleaseRemovesOwnCall
--------------------------------------------------------------------------------
(***************************************************************************)
(* Refinement: every step of Do is a step of the coalescer or a stutter.   *)
(***************************************************************************)

\* Marks of the abstract state are not outcomes.
LEMMA OutcomeIsNoMark ==
  ASSUME NEW o \in Outcomes
  PROVE  /\ o \notin {"unset", "zero", "none", "leading", "pending", "free", "running"}
         /\ Seen(o) \notin {"unset", "none", "leading", "pending", "free", "running"}
         /\ Seen(o) \in Outcomes \cup {"zero"}
  BY FlightAssumption DEF Outcomes, Seen

\* Two keys never share a call.
LEMMA EntriesDistinct ==
  ASSUME FlightInv, NEW j \in Keys, NEW k \in Keys, m[j] = m[k], m[j] # NoCall
  PROVE  j = k
<1>1. PICK p \in Leaders : key[p] = j /\ cur[p] = m[j]
  BY DEF FlightInv, LeaderInv
<1>2. PICK q \in Leaders : key[q] = k /\ cur[q] = m[k]
  BY DEF FlightInv, LeaderInv
<1>3. p = q
  BY <1>1, <1>2 DEF FlightInv, OwnerInv, Leaders, Executing
<1>4. QED
  BY <1>1, <1>2, <1>3

\* Joining is asking while the execution runs or is settled.
LEMMA JoinAsks ==
  ASSUME FlightInv, NEW p \in Procs, NEW k \in Keys, Join(p, k)
  PROVE  Promise!Ask(p, k)
<1> USE DEF FlightInv, TypeOK
<1>1. /\ pc[p] = "idle" /\ m[k] \in Calls /\ m[k] # NoCall /\ key[p] = NoKey
      /\ pc'[p] = "waiting" /\ cur'[p] = m[k] /\ m' = m /\ outcome' = outcome
      /\ \A q \in Procs : q # p => pc'[q] = pc[q] /\ cur'[q] = cur[q]
  BY FlightAssumption DEF Join, LocalsInv
<1>2. \A q \in Procs : q # p => AnswerOf(q)' = AnswerOf(q)
  BY <1>1 DEF AnswerOf
<1>3. \A j \in Keys : PhaseOf(j)' = PhaseOf(j)
  BY <1>1 DEF PhaseOf
<1>4. CASE outcome[m[k]] = "unset"
  <2>1. PhaseOf(k) = "running" /\ AnswerOf(p)' = "pending"
    BY <1>1, <1>4 DEF PhaseOf, AnswerOf
  <2>2. QED
    BY <1>1, <1>2, <1>3, <2>1 DEF Join, Promise!Ask
<1>5. CASE outcome[m[k]] # "unset"
  <2>1. /\ PhaseOf(k) = outcome[m[k]] /\ PhaseOf(k) \in Outcomes
        /\ AnswerOf(p)' = Seen(outcome[m[k]])
    BY <1>1, <1>5 DEF PhaseOf, AnswerOf
  <2>2. QED
    BY <1>1, <1>2, <1>3, <2>1, ZenonT(60) DEF Join, Promise!Ask, Promise!Seen, Seen,
       Promise!Outcomes, Outcomes
<1>6. QED
  BY <1>4, <1>5

\* Leading is asking while the key is free.
LEMMA LeadAsks ==
  ASSUME FlightInv, NEW p \in Procs, NEW k \in Keys, Lead(p, k)
  PROVE  Promise!Ask(p, k)
<1> USE DEF FlightInv, TypeOK
<1>1. PICK c \in Calls :
        /\ Unreferenced(c)
        /\ m' = [m EXCEPT ![k] = c]
        /\ cur' = [cur EXCEPT ![p] = c]
        /\ outcome' = [outcome EXCEPT ![c] = "unset"]
  BY DEF Lead
<1>2. /\ pc[p] = "idle" /\ key[p] = NoKey /\ m[k] = NoCall
      /\ pc'[p] = "running" /\ cur'[p] = c /\ m'[k] = c /\ outcome'[c] = "unset"
      /\ \A q \in Procs : q # p => pc'[q] = pc[q] /\ cur'[q] = cur[q] /\ cur[q] # c
  BY <1>1 DEF Lead, Unreferenced, LocalsInv
<1>3. \A q \in Procs : q # p => AnswerOf(q)' = AnswerOf(q)
  <2> SUFFICES ASSUME NEW q \in Procs, q # p PROVE AnswerOf(q)' = AnswerOf(q)
    OBVIOUS
  <2>1. pc[q] # "idle" => outcome'[cur[q]] = outcome[cur[q]]
    BY <1>1, <1>2 DEF LocalsInv
  <2>2. QED
    BY <1>2, <2>1 DEF AnswerOf
<1>4. \A j \in Keys : j # k => PhaseOf(j)' = PhaseOf(j)
  <2> SUFFICES ASSUME NEW j \in Keys, j # k PROVE PhaseOf(j)' = PhaseOf(j)
    OBVIOUS
  <2>1. m'[j] = m[j] /\ m[j] # c
    BY <1>1 DEF Unreferenced
  <2>2. m[j] # NoCall => outcome'[m[j]] = outcome[m[j]]
    BY <1>1, <2>1
  <2>3. QED
    BY <2>1, <2>2 DEF PhaseOf
<1>5. PhaseOf(k) = "free" /\ PhaseOf(k)' = "running" /\ AnswerOf(p)' = "leading"
  BY <1>2, FlightAssumption DEF PhaseOf, AnswerOf
<1>6. /\ key' = [key EXCEPT ![p] = k]
      /\ result' = [result EXCEPT ![p] = "none"]
  BY DEF Lead
<1>7. [j \in Keys |-> PhaseOf(j)]' = [[j \in Keys |-> PhaseOf(j)] EXCEPT ![k] = "running"]
  BY <1>4, <1>5
<1>8. [q \in Procs |-> AnswerOf(q)]' = [[q \in Procs |-> AnswerOf(q)] EXCEPT ![p] = "leading"]
  BY <1>3, <1>5
<1>9. QED
  BY <1>2, <1>5, <1>6, <1>7, <1>8 DEF Promise!Ask

\* The end of the function settles the key and answers the leader and every
\* waiter of its call at once.
LEMMA EndSettles ==
  ASSUME FlightInv, NEW p \in Procs, NEW o \in Outcomes, FnEnds(p, o)
  PROVE  Promise!Settle(key[p], o)
<1> USE DEF FlightInv, TypeOK
<1> DEFINE k == key[p]
           c == cur[p]
<1>1. /\ k \in Keys /\ c \in Calls /\ c # NoCall /\ m[k] = c
      /\ outcome[c] = "unset" /\ ~done[c] /\ pc[p] = "running"
  BY FlightAssumption DEF FnEnds, LocalsInv, EntryInv, OrderInv
<1>2. /\ outcome'[c] = o /\ o # "unset" /\ pc'[p] = "ended"
      /\ m' = m /\ key' = key /\ cur' = cur /\ result' = result
      /\ \A d \in Calls : d # c => outcome'[d] = outcome[d]
      /\ \A q \in Procs : q # p => pc'[q] = pc[q]
  BY <1>1, OutcomeIsSet DEF FnEnds
<1>3. PhaseOf(k) = "running" /\ PhaseOf(k)' = o
  BY <1>1, <1>2 DEF PhaseOf
<1>4. \A j \in Keys : j # k => PhaseOf(j)' = PhaseOf(j)
  <2> SUFFICES ASSUME NEW j \in Keys, j # k PROVE PhaseOf(j)' = PhaseOf(j)
    OBVIOUS
  <2>1. m[j] # NoCall => m[j] \in Calls /\ m[j] # c
    BY <1>1, EntriesDistinct
  <2>2. QED
    BY <1>2, <2>1 DEF PhaseOf
<1>5. AnswerOf(p) = "leading" /\ AnswerOf(p)' = o
  BY <1>1, <1>2 DEF AnswerOf
<1>6. ASSUME NEW q \in Procs, q # p, cur[q] = c
      PROVE  /\ key[q] = k
             /\ AnswerOf(q) = "pending" /\ AnswerOf(q)' = Seen(o)
  <2>1. pc[q] = "waiting"
    BY <1>1, <1>6 DEF OwnerInv, Executing, LocalsInv
  <2>2. m[key[q]] = c /\ key[q] \in Keys
    BY <1>1, <1>6, <2>1 DEF EntryInv, LocalsInv
  <2>3. key[q] = k
    BY <1>1, <2>2, EntriesDistinct
  <2>4. QED
    BY <1>1, <1>2, <1>6, <2>1, <2>3 DEF AnswerOf
<1>7. ASSUME NEW q \in Procs, q # p, cur[q] # c
      PROVE  /\ AnswerOf(q)' = AnswerOf(q)
             /\ ~(key[q] = k /\ AnswerOf(q) \in {"leading", "pending"})
  <2>1. CASE pc[q] = "idle"
    BY <1>1, <1>2, <1>7, <2>1 DEF AnswerOf
  <2>2. CASE pc[q] # "idle"
    <3>1. cur[q] \in Calls /\ outcome'[cur[q]] = outcome[cur[q]]
      BY <1>2, <1>7, <2>2 DEF LocalsInv
    <3>2. AnswerOf(q)' = AnswerOf(q)
      BY <1>2, <1>7, <2>2, <3>1 DEF AnswerOf
    <3>3. CASE outcome[cur[q]] = "unset"
      BY <1>1, <1>7, <2>2, <3>2, <3>3 DEF OrderInv, EntryInv
    <3>4. CASE outcome[cur[q]] # "unset"
      <4>1. outcome[cur[q]] \in Outcomes
        BY <3>1, <3>4
      <4>2. AnswerOf(q) \in {outcome[cur[q]], Seen(outcome[cur[q]])}
        BY <2>2, <3>4 DEF AnswerOf
      <4>3. QED
        BY <3>2, <4>1, <4>2, OutcomeIsNoMark
    <3>5. QED
      BY <3>3, <3>4
  <2>3. QED
    BY <2>1, <2>2
<1>8. \A q \in Procs :
        AnswerOf(q)' = CASE key[q] = k /\ AnswerOf(q) = "leading" -> o
                         [] key[q] = k /\ AnswerOf(q) = "pending" -> Seen(o)
                         [] OTHER -> AnswerOf(q)
  <2> SUFFICES ASSUME NEW q \in Procs
               PROVE  AnswerOf(q)' =
                        CASE key[q] = k /\ AnswerOf(q) = "leading" -> o
                          [] key[q] = k /\ AnswerOf(q) = "pending" -> Seen(o)
                          [] OTHER -> AnswerOf(q)
    OBVIOUS
  <2>1. CASE q = p
    BY <1>5, <2>1
  <2>2. CASE q # p /\ cur[q] = c
    BY <1>6, <2>2
  <2>3. CASE q # p /\ cur[q] # c
    BY <1>7, <2>3
  <2>4. QED
    BY <2>1, <2>2, <2>3
<1> HIDE DEF k, c
<1>9. QED
  BY <1>1, <1>2, <1>3, <1>4, <1>8 DEF Promise!Settle, Promise!Seen, Seen, k

\* Deleting the key frees it.
LEMMA ReleaseFrees ==
  ASSUME FlightInv, NEW p \in Procs, Release(p)
  PROVE  Promise!Free(key[p])
<1> USE DEF FlightInv, TypeOK
<1>1. /\ key[p] \in Keys /\ cur[p] \in Calls /\ cur[p] # NoCall
      /\ m[key[p]] = cur[p] /\ outcome[cur[p]] \in Outcomes
  BY FlightAssumption DEF Release, LocalsInv, EntryInv, OrderInv
<1>2. PhaseOf(key[p]) = outcome[cur[p]] /\ PhaseOf(key[p])' = "free"
  BY <1>1, OutcomeIsSet DEF Release, PhaseOf
<1>3. \A j \in Keys : j # key[p] => PhaseOf(j)' = PhaseOf(j)
  BY <1>1 DEF Release, PhaseOf
<1>4. \A q \in Procs : AnswerOf(q)' = AnswerOf(q)
  BY <1>1 DEF Release, AnswerOf
<1>5. QED
  BY <1>1, <1>2, <1>3, <1>4
     DEF Release, Promise!Free, Promise!Outcomes, Outcomes

\* Leaving with r is replying r when r is the mapped answer.
LEMMA ExitReplies ==
  ASSUME FlightInv, NEW p \in Procs, pc[p] # "idle", Exit(p, AnswerOf(p)),
         AnswerOf(p) \in Outcomes \cup {"zero"}, UNCHANGED <<m, outcome, done>>
  PROVE  Promise!Reply(p)
<1> USE DEF FlightInv, TypeOK
<1>1. \A j \in Keys : PhaseOf(j)' = PhaseOf(j)
  BY DEF PhaseOf
<1>2. AnswerOf(p)' = "none"
  BY DEF Exit, AnswerOf
<1>3. \A q \in Procs : q # p => AnswerOf(q)' = AnswerOf(q)
  BY DEF Exit, AnswerOf
<1>4. QED
  BY <1>1, <1>2, <1>3 DEF Exit, Promise!Reply, Promise!Outcomes, Outcomes

\* A step of the group is a step of the promise or none.
LEMMA StepRefines ==
  ASSUME FlightInv, [Next]_vars
  PROVE  [Promise!CNext]_(Promise!cvars)
<1> USE DEF FlightInv, TypeOK
<1>1. CASE UNCHANGED vars
  BY <1>1 DEF vars, Promise!cvars, PhaseOf, AnswerOf
<1>2. ASSUME NEW p \in Procs, NEW k \in Keys, Join(p, k)
      PROVE  Promise!CNext
  BY <1>2, JoinAsks DEF Promise!CNext
<1>3. ASSUME NEW p \in Procs, NEW k \in Keys, Lead(p, k)
      PROVE  Promise!CNext
  BY <1>3, LeadAsks DEF Promise!CNext
<1>4. ASSUME NEW p \in Procs, NEW o \in Outcomes, FnEnds(p, o)
      PROVE  Promise!CNext
  <2>1. key[p] \in Keys
    BY <1>4 DEF FnEnds, LocalsInv
  <2>2. QED
    BY <1>4, <2>1, EndSettles DEF Promise!CNext, Promise!Outcomes, Outcomes
<1>5. ASSUME NEW p \in Procs, Publish(p)
      PROVE  UNCHANGED Promise!cvars
  BY <1>5 DEF Publish, Promise!cvars, PhaseOf, AnswerOf
<1>6. ASSUME NEW p \in Procs, Release(p)
      PROVE  Promise!CNext
  <2>1. key[p] \in Keys
    BY <1>6 DEF Release, LocalsInv
  <2>2. QED
    BY <1>6, <2>1, ReleaseFrees DEF Promise!CNext
<1>7. ASSUME NEW p \in Procs, Leave(p)
      PROVE  Promise!CNext
  <2>1. cur[p] \in Calls /\ outcome[cur[p]] \in Outcomes /\ pc[p] = "released"
    BY <1>7 DEF Leave, LocalsInv, OrderInv
  <2>2. AnswerOf(p) = outcome[cur[p]]
    BY <2>1, OutcomeIsSet DEF AnswerOf
  <2>3. Promise!Reply(p)
    BY <1>7, <2>1, <2>2, ExitReplies DEF Leave
  <2>4. QED
    BY <2>3 DEF Promise!CNext
<1>8. ASSUME NEW p \in Procs, Wake(p)
      PROVE  Promise!CNext
  <2>1. cur[p] \in Calls /\ outcome[cur[p]] \in Outcomes /\ pc[p] = "waiting"
    BY <1>8 DEF Wake, LocalsInv, OrderInv
  <2>2. AnswerOf(p) = Seen(outcome[cur[p]])
    BY <2>1, OutcomeIsSet DEF AnswerOf
  <2>3. Promise!Reply(p)
    BY <1>8, <2>1, <2>2, ExitReplies, OutcomeIsNoMark DEF Wake
  <2>4. QED
    BY <2>3 DEF Promise!CNext
<1>9. QED
  BY <1>1, <1>2, <1>3, <1>4, <1>5, <1>6, <1>7, <1>8 DEF Next, Step

\* Do implements the safety part of the abstract coalescer: callers of one key
\* share one execution and everyone gets its outcome, never a half-written call.
THEOREM Refinement == Spec => Promise!CSafety
<1>1. Init => Promise!CInit
  BY FlightAssumption DEF Init, Promise!CInit, PhaseOf, AnswerOf
<1>2. QED
  BY <1>1, Invariance, StepRefines, PTL DEF Spec, Promise!CSafety
================================================================================
