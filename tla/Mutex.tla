--------------------------------- MODULE Mutex ---------------------------------
(***************************************************************************)
(* Mutex of core/mutex.h and core/mutex.cxx, used by threads that lock it, *)
(* recursively too, unlock it, try it and sleep, on the scheduler of       *)
(* Scheduler.tla.                                                           *)
(*                                                                         *)
(* Lock and TryLock run with interrupts disabled, except for the wait in   *)
(* Lock.  Unlock does not: a thread can be preempted between any two of    *)
(* its accesses, and stands there at "owner", "waiters" or "wake".  The    *)
(* assertions do nothing, as in a build without DEBUG, and are stated as   *)
(* properties instead.                                                      *)
(***************************************************************************)
EXTENDS Scheduler, FiniteSets

CONSTANTS
    Mtx,            \* the mutex, as the object its waiters wait for
    MaxDepth        \* bound on how many times a thread locks it at once

ASSUME MutexAssumption ==
    /\ Mtx \in Objects
    /\ NULL \notin Objects \cup Threads
    /\ MaxDepth \in Nat \ {0}

VARIABLES
    tid,            \* Mutex::_tid
    count,          \* Mutex::_count
    waiters,        \* Mutex::_waiters
    pc,             \* where a thread stands in its own code and in the mutex's
    depth           \* how many Scoped locks are on each thread's stack

mutexVars == <<tid, count, waiters>>
vars == <<schedVars, mutexVars, pc, depth>>

TypeOK ==
    /\ SchedTypeOK
    /\ tid \in Threads \cup {NULL}
    /\ count \in 0..MaxDepth
    /\ waiters \in 0..MaxThreads
    /\ pc \in [Threads -> {"out", "asleep", "lock", "owner", "waiters", "wake"}]
    /\ depth \in [Threads -> 0..MaxDepth]

Init ==
    /\ Settled
    /\ tid = NULL
    /\ count = 0
    /\ waiters = 0
    /\ pc = [t \in Threads |-> "out"]
    /\ depth = [t \in Threads |-> 0]

Go(where) == pc' = [pc EXCEPT ![cur] = where]
Runs(where) == InCode /\ pc[cur] = where

-----------------------------------------------------------------------------
(* Mutant of Taken: a mutex without an owner on record is free. *)
TakenByOwner == count # 0 /\ tid \notin {cur, NULL}

(* Lock with n waiters other than the caller: both ends of its loop. *)
Taken == count # 0 /\ tid # cur

Acquire(n) ==
    /\ ~Taken
    /\ tid' = cur
    /\ count' = count + 1
    /\ waiters' = n
    /\ Go("out")

(* Mutant of Await: the waiter is not counted. *)
AwaitUncounted(n) ==
    /\ Taken
    /\ waiters' = n
    /\ Wait(Mtx, 0)
    /\ Go("lock")
    /\ UNCHANGED <<tid, count>>

Await(n) ==
    /\ Taken
    /\ waiters' = n + 1
    /\ Wait(Mtx, 0)
    /\ Go("lock")
    /\ UNCHANGED <<tid, count>>

(* Lock is called, or its WaitFor returns and the same ScopedNoInt goes on. *)
LockCalled(enter) ==
    /\ Runs("out")
    /\ \/ Acquire(waiters) /\ enter /\ UNCHANGED schedVars
       \/ Await(waiters) /\ UNCHANGED depth

(* Mutants of LockWoken: waiters is not decremented; the condition is not  *)
(* tested again, as with an if in the place of the while.                   *)
LockWokenCounted(enter) ==
    /\ Woken
    /\ pc[cur] = "lock"
    /\ \/ Acquire(waiters) /\ enter /\ LeaveIdle
       \/ Await(waiters) /\ UNCHANGED depth

LockWokenOnce(enter) ==
    /\ Woken
    /\ pc[cur] = "lock"
    /\ tid' = cur
    /\ count' = count + 1
    /\ waiters' = waiters - 1
    /\ Go("out")
    /\ enter
    /\ LeaveIdle

LockWoken(enter) ==
    /\ Woken
    /\ pc[cur] = "lock"
    /\ \/ Acquire(waiters - 1) /\ enter /\ LeaveIdle
       \/ Await(waiters - 1) /\ UNCHANGED depth

Deeper == depth' = [depth EXCEPT ![cur] = @ + 1]

Lock == depth[cur] < MaxDepth /\ LockCalled(Deeper)
LockAgain == LockWoken(Deeper)

(* TryLock fails if the mutex is locked, even by the caller. *)
TryLock ==
    /\ Runs("out")
    /\ count = 0
    /\ Acquire(waiters)
    /\ Deeper
    /\ UNCHANGED schedVars

-----------------------------------------------------------------------------
(* Unlock: --_count; _tid = 0 if it got to zero; if there are waiters; wake. *)
Unlock ==
    /\ Runs("out")
    /\ depth[cur] > 0
    /\ count' = count - 1
    /\ depth' = [depth EXCEPT ![cur] = @ - 1]
    /\ Go(IF count' = 0 THEN "owner" ELSE "waiters")
    /\ UNCHANGED <<schedVars, tid, waiters>>

UnlockOwner ==
    /\ Runs("owner")
    /\ tid' = NULL
    /\ Go("waiters")
    /\ UNCHANGED <<schedVars, count, waiters, depth>>

(* Mutant of UnlockWaiters: one waiter alone is not woken. *)
UnlockWaitersBut1 ==
    /\ Runs("waiters")
    /\ Go(IF waiters > 1 THEN "wake" ELSE "out")
    /\ UNCHANGED <<schedVars, mutexVars, depth>>

UnlockWaiters ==
    /\ Runs("waiters")
    /\ Go(IF waiters # 0 THEN "wake" ELSE "out")
    /\ UNCHANGED <<schedVars, mutexVars, depth>>

UnlockWake ==
    /\ Runs("wake")
    /\ WakeSingle(Mtx)
    /\ Go("out")
    /\ UNCHANGED <<prio, waitob, cur, clockVars, iplVars, at, mutexVars, depth>>

UnlockOn == UnlockOwner \/ UnlockWaiters \/ UnlockWake

-----------------------------------------------------------------------------
Sleep(d) ==
    /\ Runs("out")
    /\ TimedWait(NULL, d, 0)
    /\ Go("asleep")
    /\ UNCHANGED <<mutexVars, depth>>

SleepOver ==
    /\ Woken
    /\ pc[cur] = "asleep"
    /\ LeaveIdle
    /\ Go("out")
    /\ UNCHANGED <<mutexVars, depth>>

(* What a thread's code may call, and what goes on by itself. *)
Call ==
    \/ Lock
    \/ TryLock
    \/ Unlock
    \/ \E d \in 1..MaxDelay : Sleep(d)

Next ==
    \/ Call
    \/ LockAgain
    \/ UnlockOn
    \/ SleepOver
    \/ System /\ UNCHANGED <<mutexVars, pc, depth>>

Spec == Init /\ [][Next]_vars

-----------------------------------------------------------------------------
(* The mutex keeps the promise of a recursive lock: never two threads in it, *)
(* however Unlock is preempted.                                             *)
Promise == INSTANCE RecursiveLock
ImplementsRecursiveLock == Promise!Spec

(* _count is how many times its holder has it locked, and zero if nobody has. *)
CountIsDepth ==
    /\ \A t \in Threads : depth[t] > 0 => count = depth[t]
    /\ count > 0 => \E t \in Threads : depth[t] > 0

(* _waiters counts the threads in Lock's wait, woken ones included, so      *)
(* Unlock never skips a wakeup that is due.                                 *)
InLockWait == {t \in Threads : pc[t] = "lock"}
WaitersCounted == waiters = Cardinality(InLockWait)

(* No lost wakeup: while a thread is blocked on a mutex that is free, some *)
(* thread has been woken to take it or is in Unlock, about to wake one.     *)
NoStrandedWaiter ==
    count = 0 /\ (\E t \in InLockWait : state[t] = "WAIT") =>
        \/ \E t \in InLockWait : state[t] = "RUN"
        \/ \E t \in Threads : pc[t] \in {"owner", "waiters", "wake"}

(* AssertLocked, that Unlock and CondVar::Wait start with, asserts that a   *)
(* thread that has the mutex locked is its owner.  Violated: when Unlock is *)
(* preempted between --_count and _tid = 0, the latter wipes out the next   *)
(* holder, who then blocks for ever if it locks the mutex again.            *)
HolderIsOwner == Runs("out") /\ depth[cur] > 0 => count # 0 /\ tid = cur
================================================================================
