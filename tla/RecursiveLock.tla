----------------------------- MODULE RecursiveLock -----------------------------
(***************************************************************************)
(* What a recursive mutex promises the threads that use it: the number of  *)
(* times each of them has it locked, and never two of them at once.        *)
(***************************************************************************)
EXTENDS Naturals

CONSTANT Threads

VARIABLE depth      \* how many times each thread has the mutex locked

Init == depth = [t \in Threads |-> 0]

Lock(t) ==
    /\ \A u \in Threads \ {t} : depth[u] = 0
    /\ depth' = [depth EXCEPT ![t] = @ + 1]

Unlock(t) ==
    /\ depth[t] > 0
    /\ depth' = [depth EXCEPT ![t] = @ - 1]

Next == \E t \in Threads : Lock(t) \/ Unlock(t)

Spec == Init /\ [][Next]_depth
================================================================================
