------------------------------- MODULE MC_Flight -------------------------------
(* Three goroutines and two keys: a leader, a sharer and a goroutine that     *)
(* comes late or leads for the other key.  The function may return a value or *)
(* end its goroutine, the case in which nothing is stored for the waiters.    *)
EXTENDS Flight

CONSTANTS p1, p2, p3, k1, k2, c1, c2, c3, v1

MCProcs == {p1, p2, p3}
MCKeys == {k1, k2}
MCCalls == {c1, c2, c3}
MCValues == {v1}
MCFailures == {"goexit"}
================================================================================
