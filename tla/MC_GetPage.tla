------------------------------- MODULE MC_GetPage ------------------------------
(***************************************************************************)
(* A page of four blocks: the root r holds a and b, a refers to c, and c   *)
(* back to a.  A limit of three is exceeded by the page, one of four only  *)
(* by records counted twice.  Two blocks are requested at a time.          *)
(***************************************************************************)
EXTENDS GetPage

CONSTANTS r, a, b, c

MCIds == {r, a, b, c}
MCLinks == [i \in MCIds |-> CASE i = r -> {a, b} [] i = a -> {c} [] i = c -> {a}
                              [] i = b -> {}]
MCRootAliased == {r}
Call(missing, collections, throw, max) ==
  [fetchMissing |-> missing, fetchCollections |-> collections, throw |-> throw,
   sign |-> collections, maxBlocks |-> max]
MCOptions ==
  {Call(TRUE, FALSE, FALSE, 0), Call(TRUE, TRUE, FALSE, 3), Call(TRUE, TRUE, TRUE, 4),
   Call(FALSE, TRUE, FALSE, 3)}
================================================================================
