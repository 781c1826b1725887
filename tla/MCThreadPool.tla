---------------------------- MODULE MCThreadPool ----------------------------
(* Model values for ThreadPool: two of the tasks are submitted under the    *)
(* same name, one after the other is collected.                             *)
EXTENDS ThreadPool, TLC

CONSTANTS w1, w2, c1, c2, t1, t2, t3, n1, n2

MCNameOf == t1 :> n1 @@ t2 :> n1 @@ t3 :> n2
=============================================================================
