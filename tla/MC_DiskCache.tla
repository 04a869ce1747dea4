------------------------------ MODULE MC_DiskCache ------------------------------
(***************************************************************************)
(* Two goroutines, in one process, where they can share a load or prune at *)
(* the same time, or in two processes on one directory.  A page of size 2  *)
(* fits, two such pages do not, and a page of size 4 is never stored but   *)
(* may be there at the start.  One tick of the clock and one crash.        *)
(***************************************************************************)
EXTENDS DiskCache, TLC

CONSTANTS w1, w2

MCKeys == 1..2
MCWorkers == {w1, w2}
MCDeployments == {w1 :> 1 @@ w2 :> 1, w1 :> 1 @@ w2 :> 2}
================================================================================
