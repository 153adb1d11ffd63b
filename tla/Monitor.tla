-------------------------------- MODULE Monitor --------------------------------
(***************************************************************************)
(* What a recursive mutex and a condition variable promise together: at    *)
(* most one thread is inside, waiting leaves the monitor altogether however *)
(* often the thread has locked it, and the wait returns inside, with the   *)
(* mutex locked as many times as before.                                    *)
(***************************************************************************)
EXTENDS Naturals

CONSTANT Threads

VARIABLES
    depth,      \* how many times each thread has the mutex locked
    waiting     \* the threads in a wait

Inside(t) == depth[t] > 0 /\ t \notin waiting

Init == depth = [t \in Threads |-> 0] /\ waiting = {}

Lock(t) ==
    /\ t \notin waiting
    /\ \A u \in Threads \ {t} : ~Inside(u)
    /\ depth' = [depth EXCEPT ![t] = @ + 1]
    /\ UNCHANGED waiting

Unlock(t) ==
    /\ Inside(t)
    /\ depth' = [depth EXCEPT ![t] = @ - 1]
    /\ UNCHANGED waiting

Wait(t) ==
    /\ Inside(t)
    /\ waiting' = waiting \cup {t}
    /\ UNCHANGED depth

Return(t) ==
    /\ t \in waiting
    /\ \A u \in Threads : ~Inside(u)
    /\ waiting' = waiting \ {t}
    /\ UNCHANGED depth

Next == \E t \in Threads : Lock(t) \/ Unlock(t) \/ Wait(t) \/ Return(t)

Spec == Init /\ [][Next]_<<depth, waiting>>
================================================================================
