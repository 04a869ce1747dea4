------------------------------ MODULE MC_ByteCache -----------------------------
(***************************************************************************)
(* The caches in memory and the stores of the example programs, side by    *)
(* side: a behaviour is one of either part.                                *)
(*                                                                         *)
(* Cache: two goroutines; k1 is only loaded, by the others callers also    *)
(* put values.  A value costs one byte (sizeOf may return 0), the whole    *)
(* budget of two, or more than the budget, so that a store evicts nothing, *)
(* the oldest entry, or all of them and perhaps itself.                    *)
(*                                                                         *)
(* Stores: two requests for pages that share an asset; one has two assets  *)
(* of one block whose sources differ only in the query.                    *)
(***************************************************************************)
EXTENDS ByteCache, AssetStore, TLC

CONSTANTS p1, p2, k1, k2, k3, c1, c2, empty, full, huge

MCProcs == {p1, p2}
MCKeys == {k1, k2, k3}
MCCalls == {c1, c2}
MCValues == {empty, full, huge}
MCFailures == {"goexit"}
MCSize == [v \in MCValues |-> CASE v = empty -> 0 [] v = full -> 2 [] v = huge -> 3]
MCLoads == [k \in MCKeys |->
             CASE k = k1 -> {empty} [] k = k2 -> {full, empty} [] k = k3 -> {empty, huge}]
MCPutKeys == {k2, k3}

--------------------------------------------------------------------------------
CONSTANTS r1, r2, b1, b2, s, sq, sr

MCPlain == (s :> s) @@ (sq :> s) @@ (sr :> s)
A(b, src, signed) == [block |-> b, source |-> src, signed |-> signed]
MCPages ==
  {<<A(b1, sq, TRUE), A(b1, sr, TRUE)>>,
   <<A(b2, s, FALSE), A(b1, sq, TRUE)>>}

MCRequests == {r1, r2}

VARIABLE part

\* The stores rest when there is no request left; cli has one only.
RequestsAreOver ==
  \A r \in Requests : where[r] \in {"done", "failed"} \/ (app = "cli" /\ r = r2)

BothInit ==
  /\ part \in {"cache", "store"}
  /\ Init
  /\ StoreInit
  /\ part = "cache" => app = "server"
BothNext ==
  /\ UNCHANGED part
  /\ \/ part = "cache" /\ Next /\ UNCHANGED storeVars
     \/ part = "store" /\ StoreNext /\ UNCHANGED vars
     \/ part = "store" /\ RequestsAreOver /\ UNCHANGED <<vars, storeVars>>
BothSpec == BothInit /\ [][BothNext]_<<part, vars, storeVars>>
================================================================================
