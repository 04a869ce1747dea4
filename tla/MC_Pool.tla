--------------------------------- MODULE MC_Pool -------------------------------
(* Five views and the default concurrency of three.                           *)
EXTENDS Pool
================================================================================
