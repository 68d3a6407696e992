------------------------------ MODULE MCCache ------------------------------
(* Five clients of one cache entry, for JobCache: two in a process without *)
(* threads, two in a process with threads, one in a third process.         *)
EXTENDS JobCache, TLC

CONSTANTS c1, c2, c3, c4, c5, p1, p2, p3

ThreeProcesses == c1 :> p1 @@ c2 :> p1 @@ c3 :> p2 @@ c4 :> p2 @@ c5 :> p3
=============================================================================
