----------------------------- MODULE CondVarProofs -----------------------------
(***************************************************************************)
(* First the mutex alone: it is a recursive lock for every number of        *)
(* threads, priorities and nested locks, although Unlock can be preempted   *)
(* anywhere, and a wakeup is never lost.                                    *)
(*                                                                          *)
(* Then the mutex with a condition variable: they are a monitor, although   *)
(* CondVar::Wait calls Unlock, WaitFor and Lock one after the other and can *)
(* be preempted in between, and each of those anywhere it enables           *)
(* interrupts.  The resolver of core/dns.cxx is a client of it, so it is    *)
(* used by one thread at once.                                              *)
(***************************************************************************)
EXTENDS Dns, SchedulerProofs

(* The inductive invariant.  What a thread does shows in its state and in  *)
(* what it waits for.                                                       *)
Stands(t) ==
    /\ pc[t] \notin {"lock", "asleep"} => state[t] = "RUN"
    /\ pc[t] = "lock" => state[t] \in {"RUN", "WAIT"} /\ waitob[t] = Mtx
    /\ pc[t] = "asleep" => state[t] \in {"RUN", "TWAIT"} /\ waitob[t] = NULL
Standing == \A t \in Threads : Stands(t)

(* There is one holder, and an owner on record is the holder.  The owner   *)
(* may be missing, since a preempted Unlock wipes out the next one.         *)
OneHolder ==
    /\ \A t, u \in Threads : depth[t] > 0 /\ depth[u] > 0 => t = u
    /\ \A t \in Threads : count > 0 /\ tid = t => depth[t] > 0
    /\ \A t \in Threads : pc[t] = "lock" => depth[t] < MaxDepth

Standpoints == {"out", "asleep", "lock", "owner", "waiters", "wake"}

MutexTypes ==
    /\ tid \in Threads \cup {NULL}
    /\ count \in 0..MaxDepth
    /\ pc \in [Threads -> Standpoints]
    /\ depth \in [Threads -> 0..MaxDepth]

Lockable == MutexTypes /\ CountIsDepth /\ OneHolder
IInv == SchedInv /\ Standing /\ Lockable /\ WaitersCounted /\ NoStrandedWaiter

(* The processor is always given to some thread. *)
LEMMA CurIsThread ==
    ASSUME SchedInv
    PROVE  cur \in Threads /\ SchedTypeOK /\ MaxDepth \in Nat /\ MaxDepth > 0
BY MutexAssumption DEF SchedInv, SchedTypeOK, MutexAssumption

(* With the mutex free and nobody waiting the invariant holds. *)
LEMMA InitIInv ==
    ASSUME Init
    PROVE  IInv
<1>1. SchedInv
  BY SchedulerAssumption, SettledInv DEF Init
<1>2. Standing
  BY DEF Init, Settled, Standing, Stands
<1>3. MutexTypes
  BY MutexAssumption DEF Init, MutexTypes, MutexAssumption, Standpoints
<1>4. CountIsDepth
  BY DEF Init, CountIsDepth
<1>5. OneHolder
  BY DEF Init, OneHolder
<1>6. WaitersCounted
  <2>1. InLockWait = {}
    BY DEF Init, InLockWait
  <2> QED BY <2>1, FS_EmptySet DEF Init, WaitersCounted
<1>7. NoStrandedWaiter
  BY DEF Init, NoStrandedWaiter, InLockWait
<1> QED BY <1>1, <1>2, <1>3, <1>4, <1>5, <1>6, <1>7 DEF IInv, Lockable

-----------------------------------------------------------------------------
(* The steps of the mutex and of the scheduler, whatever becomes of depth:  *)
(* what its clients do, a condition variable among them, is made of these.  *)
Locking == LockCalled(TRUE) \/ LockWoken(TRUE)
Sleeping == SleepOver \/ \E d \in 1..MaxDelay : Sleep(d)
CoreStep ==
    \/ Locking \/ Unlock \/ UnlockOn \/ Sleeping
    \/ System /\ UNCHANGED <<mutexVars, pc>>
    \/ UNCHANGED <<schedVars, mutexVars, pc>>

LEMMA NextIsCore ==
    ASSUME [Next]_vars
    PROVE  CoreStep
<1>1. Lock \/ TryLock => LockCalled(TRUE)
  BY DEF Lock, TryLock, LockCalled
<1>2. LockAgain => LockWoken(TRUE)
  BY DEF LockAgain, LockWoken
<1> QED BY <1>1, <1>2 DEF Next, Call, CoreStep, Locking, Sleeping, vars

(* The scheduler's invariant. *)
LEMMA SchedStep ==
    ASSUME SchedInv, CoreStep
    PROVE  SchedInv'
<1> USE SchedulerAssumption
<1>1. /\ Mtx \in Objects \cup Threads \cup {NULL} /\ 0 \in 0..(IplModulus - 1)
      /\ \A d \in 1..MaxDelay : d \in 0..MaxDelay
  BY MutexAssumption DEF MutexAssumption, SchedulerAssumption
<1>2. ASSUME NEW n, Await(n) PROVE SchedInv'
  BY <1>1, <1>2, WaitKeeps DEF Await
<1>3. CASE Locking
  BY <1>2, <1>3, StutterKeeps, LeaveIdleKeeps DEF Locking, LockCalled, LockWoken
<1>4. CASE Unlock \/ UnlockOwner \/ UnlockWaiters
  BY <1>4, StutterKeeps DEF Unlock, UnlockOwner, UnlockWaiters
<1>5. CASE UnlockWake
  <2>1. at' \in [Threads -> Places]
    BY <1>5 DEF UnlockWake, SchedInv, SchedTypeOK, Places
  <2> QED BY <1>5, <2>1, WakeSingleKeeps DEF UnlockWake
<1>6. CASE Sleeping
  BY <1>1, <1>6, TimedWaitKeeps, LeaveIdleKeeps DEF Sleeping, Sleep, SleepOver
<1>7. CASE System
  BY <1>7, SystemKeeps
<1>8. CASE UNCHANGED schedVars
  BY <1>8, StutterKeeps
<1> QED BY <1>3, <1>4, <1>5, <1>6, <1>7, <1>8 DEF CoreStep, UnlockOn

(* No step moves a thread but the current one, or changes what it waits    *)
(* for: at most it is released from a wait.                                 *)
LEMMA OthersMove ==
    ASSUME SchedInv, pc \in [Threads -> Standpoints], CoreStep, NEW t \in Threads, t # cur
    PROVE  /\ pc'[t] = pc[t] /\ waitob'[t] = waitob[t]
           /\ state'[t] = state[t] \/ (state[t] \in Blocked /\ state'[t] = "RUN")
<1> DEFINE Kept == /\ pc'[t] = pc[t] /\ waitob'[t] = waitob[t]
                   /\ state'[t] = state[t] \/ (state[t] \in Blocked /\ state'[t] = "RUN")
<1>1. /\ cur \in Threads /\ SchedTypeOK
      /\ waitob \in [Threads -> Objects \cup Threads \cup {NULL}]
  BY CurIsThread DEF SchedTypeOK
<1>2. \A where : Go(where) => pc'[t] = pc[t]
  BY <1>1 DEF Go
<1>3. ASSUME NEW n, Await(n) PROVE Kept
  BY <1>1, <1>2, <1>3, WaitBlocks DEF Await, Blocked
<1>4. ASSUME NEW n, Acquire(n), UNCHANGED schedVars \/ LeaveIdle PROVE Kept
  BY <1>1, <1>2, <1>4 DEF Acquire, LeaveIdle, schedVars
<1>5. CASE Locking
  BY <1>3, <1>4, <1>5 DEF Locking, LockCalled, LockWoken
<1>6. CASE Unlock \/ UnlockOwner \/ UnlockWaiters
  BY <1>2, <1>6 DEF Unlock, UnlockOwner, UnlockWaiters, schedVars
<1>7. CASE UnlockWake
  <2>1. WakeSingle(Mtx) /\ Go("out") /\ waitob' = waitob
    BY <1>7 DEF UnlockWake
  <2>2. state \in [Threads -> States]
    BY <1>1 DEF SchedTypeOK, States
  <2> QED BY <1>1, <1>2, <2>1, <2>2, SchedulerAssumption, WakeSingleWakes DEF Waiters
<1>8. ASSUME NEW d \in 1..MaxDelay, Sleep(d) PROVE Kept
  BY <1>1, <1>2, <1>8, TimedWaitBlocks DEF Sleep, Blocked
<1>9. CASE SleepOver
  BY <1>1, <1>2, <1>9 DEF SleepOver, LeaveIdle
<1>10. CASE System /\ UNCHANGED pc
  BY <1>1, <1>10, SystemReleases DEF Blocked
<1>11. CASE UNCHANGED <<schedVars, pc>>
  BY <1>11 DEF schedVars
<1> QED BY <1>5, <1>6, <1>7, <1>8, <1>9, <1>10, <1>11 DEF CoreStep, Sleeping, UnlockOn

-----------------------------------------------------------------------------
(* One holder: a thread gets the mutex only when no other has it. *)
LEMMA TakerIsAlone ==
    ASSUME SchedInv, Lockable, ~Taken
    PROVE  /\ \A u \in Threads \ {cur} : depth[u] = 0
           /\ depth[cur] = count
<1>1. cur \in Threads /\ count \in Nat /\ \A t \in Threads : depth[t] \in Nat
  BY CurIsThread DEF Lockable, MutexTypes
<1>2. CASE count = 0
  BY <1>1, <1>2 DEF Lockable, CountIsDepth
<1>3. CASE count # 0 /\ tid = cur
  <2>1. depth[cur] > 0
    BY <1>1, <1>3 DEF Lockable, OneHolder
  <2> QED BY <1>1, <2>1 DEF Lockable, OneHolder, CountIsDepth
<1> QED BY <1>2, <1>3 DEF Taken

(* Taking a mutex that is free, or one's own, counts one lock more. *)
LEMMA AcquireKeeps ==
    ASSUME SchedInv, Lockable, NEW n, Acquire(n), Deeper, depth[cur] < MaxDepth
    PROVE  Lockable'
<1>1. cur \in Threads /\ MaxDepth \in Nat
  BY CurIsThread
<1>2. /\ tid' = cur /\ count' = count + 1 /\ pc' = [pc EXCEPT ![cur] = "out"]
      /\ depth' = [depth EXCEPT ![cur] = depth[cur] + 1]
  BY DEF Acquire, Go, Deeper
<1>3. /\ \A u \in Threads \ {cur} : depth[u] = 0
      /\ depth[cur] = count
  BY TakerIsAlone DEF Acquire
<1>4. /\ count \in Nat /\ \A t \in Threads : depth[t] \in Nat
      /\ pc \in [Threads -> Standpoints] /\ depth \in [Threads -> 0..MaxDepth]
  BY <1>1 DEF Lockable, MutexTypes
<1>5. /\ depth'[cur] = count' /\ count' > 0
      /\ \A u \in Threads \ {cur} : depth'[u] = 0
  BY <1>1, <1>2, <1>3, <1>4
<1>6. MutexTypes'
  <2>1. count + 1 \in 0..MaxDepth
    BY <1>1, <1>3, <1>4
  <2> QED BY <1>1, <1>2, <1>3, <1>4, <2>1 DEF MutexTypes, Standpoints
<1>7. CountIsDepth'
  BY <1>1, <1>5 DEF CountIsDepth
<1>8. OneHolder'
  <2>1. \A t \in Threads : pc'[t] = "lock" => t # cur /\ depth'[t] < MaxDepth
    BY <1>1, <1>2, <1>4, <1>5
  <2> QED BY <1>1, <1>2, <1>5, <2>1 DEF OneHolder
<1> QED BY <1>6, <1>7, <1>8 DEF Lockable

(* What leaves the mutex to its holder: the owner on record may go away,   *)
(* and no thread comes to wait that has it locked as often as it may.       *)
LEMMA HolderStays ==
    ASSUME Lockable, UNCHANGED <<count, depth>>, tid' \in {tid, NULL},
           pc' \in [Threads -> Standpoints],
           \A t \in Threads : pc'[t] = "lock" => pc[t] = "lock" \/ depth[t] < MaxDepth
    PROVE  Lockable'
<1>1. MutexTypes' /\ CountIsDepth'
  BY DEF Lockable, MutexTypes, CountIsDepth
<1>2. NULL \notin Threads
  BY MutexAssumption DEF MutexAssumption
<1>3. OneHolder'
  BY <1>2 DEF Lockable, OneHolder
<1> QED BY <1>1, <1>3 DEF Lockable

(* The invariant of the lock itself, through every step of Lock and Unlock. *)
LEMMA LockableStep ==
    ASSUME SchedInv, Lockable, [Next]_vars
    PROVE  Lockable'
<1>1. cur \in Threads /\ MaxDepth \in Nat /\ MaxDepth > 0
  BY CurIsThread
<1>2. /\ count \in Nat /\ \A t \in Threads : depth[t] \in Nat /\ depth[t] <= MaxDepth
      /\ pc \in [Threads -> Standpoints] /\ depth \in [Threads -> 0..MaxDepth]
  BY <1>1 DEF Lockable, MutexTypes
<1>3. \A where \in Standpoints : Go(where) => pc' \in [Threads -> Standpoints]
  BY <1>1, <1>2 DEF Go
<1>4. ASSUME NEW n, Await(n), UNCHANGED depth, depth[cur] < MaxDepth PROVE Lockable'
  <2>1. UNCHANGED <<tid, count>> /\ Go("lock")
    BY <1>4 DEF Await
  <2>2. \A t \in Threads : pc'[t] = "lock" => pc[t] = "lock" \/ depth[t] < MaxDepth
    BY <1>1, <1>2, <1>4, <2>1 DEF Go
  <2> QED BY <1>3, <1>4, <2>1, <2>2, HolderStays DEF Standpoints
<1>5. CASE Lock
  BY <1>4, <1>5, AcquireKeeps DEF Lock, LockCalled
<1>6. CASE LockAgain
  <2>1. depth[cur] < MaxDepth
    BY <1>1, <1>6 DEF LockAgain, LockWoken, Lockable, OneHolder
  <2> QED BY <1>4, <1>6, <2>1, AcquireKeeps DEF LockAgain, LockWoken
<1>7. CASE TryLock
  <2>1. depth[cur] < MaxDepth
    BY <1>1, <1>2, <1>7 DEF TryLock, Lockable, CountIsDepth
  <2> QED BY <1>7, <2>1, AcquireKeeps DEF TryLock
<1>8. CASE Unlock
  <2>1. /\ depth[cur] > 0 /\ count' = count - 1 /\ tid' = tid
        /\ depth' = [depth EXCEPT ![cur] = depth[cur] - 1]
        /\ pc' = [pc EXCEPT ![cur] = IF count' = 0 THEN "owner" ELSE "waiters"]
    BY <1>8 DEF Unlock, Go
  <2>2. count = depth[cur] /\ \A u \in Threads \ {cur} : depth[u] = 0
    BY <1>1, <1>2, <2>1 DEF Lockable, CountIsDepth, OneHolder
  <2>3. depth'[cur] = count' /\ \A u \in Threads \ {cur} : depth'[u] = 0
    BY <1>1, <1>2, <2>1, <2>2
  <2>4. MutexTypes'
    <3>1. count' \in 0..MaxDepth /\ depth[cur] - 1 \in 0..MaxDepth
      BY <1>1, <1>2, <2>1, <2>2
    <3> QED BY <1>1, <1>2, <2>1, <3>1 DEF MutexTypes, Standpoints, Lockable
  <2>5. CountIsDepth'
    BY <1>1, <2>3 DEF CountIsDepth
  <2>6. OneHolder'
    <3>1. \A t \in Threads : pc'[t] = "lock" => t # cur /\ depth'[t] < MaxDepth
      BY <1>1, <1>2, <2>1, <2>3
    <3>2. \A t \in Threads : count' > 0 /\ tid' = t => depth'[t] > 0
      <4> SUFFICES ASSUME NEW t \in Threads, count' > 0, tid' = t PROVE t = cur
        BY <2>3
      <4>1. count > 0 /\ tid = t
        BY <1>2, <2>1
      <4>2. depth[t] > 0
        BY <4>1 DEF Lockable, OneHolder
      <4> QED BY <2>2, <4>2
    <3> QED BY <1>1, <2>3, <3>1, <3>2 DEF OneHolder
  <2> QED BY <2>4, <2>5, <2>6 DEF Lockable
<1>9. CASE UnlockOwner \/ UnlockWaiters \/ UnlockWake
  <2>1. UNCHANGED <<count, depth>> /\ tid' \in {tid, NULL}
    BY <1>9 DEF UnlockOwner, UnlockWaiters, UnlockWake, mutexVars
  <2>2. PICK where \in Standpoints \ {"lock"} : Go(where)
    BY <1>9 DEF UnlockOwner, UnlockWaiters, UnlockWake, Standpoints
  <2>3. \A t \in Threads : pc'[t] = "lock" => pc[t] = "lock"
    BY <1>1, <1>2, <2>2 DEF Go
  <2> QED BY <1>3, <2>1, <2>2, <2>3, HolderStays
<1>10. ASSUME NEW d \in 1..MaxDelay, Sleep(d) PROVE Lockable'
  <2>1. UNCHANGED mutexVars /\ UNCHANGED depth /\ Go("asleep")
    BY <1>10 DEF Sleep
  <2>2. \A t \in Threads : pc'[t] = "lock" => pc[t] = "lock"
    BY <1>1, <1>2, <2>1 DEF Go
  <2> QED BY <1>3, <2>1, <2>2, HolderStays DEF Standpoints, mutexVars
<1>11. CASE SleepOver
  <2>1. UNCHANGED mutexVars /\ UNCHANGED depth /\ Go("out")
    BY <1>11 DEF SleepOver
  <2>2. \A t \in Threads : pc'[t] = "lock" => pc[t] = "lock"
    BY <1>1, <1>2, <2>1 DEF Go
  <2> QED BY <1>3, <2>1, <2>2, HolderStays DEF Standpoints, mutexVars
<1>12. CASE UNCHANGED <<mutexVars, pc, depth>>
  BY <1>2, <1>12, HolderStays DEF mutexVars
<1>13. CASE UNCHANGED vars
  BY <1>12, <1>13 DEF vars
<1> QED BY <1>5, <1>6, <1>7, <1>8, <1>9, <1>10, <1>11, <1>12, <1>13 DEF Next, Call, UnlockOn

-----------------------------------------------------------------------------
(* Where a thread stands agrees with its state, through every step. *)
LEMMA StandsStep ==
    ASSUME SchedInv, pc \in [Threads -> Standpoints], CoreStep, NEW t \in Threads, Stands(t)
    PROVE  Stands(t)'
<1>1. CASE t # cur
  BY <1>1, OthersMove DEF Stands, Blocked
<1> SUFFICES ASSUME t = cur PROVE Stands(t)'
  BY <1>1
<1>2. /\ cur \in Threads /\ SchedTypeOK /\ state \in [Threads -> States]
      /\ waitob \in [Threads -> Objects \cup Threads \cup {NULL}]
      /\ \A where : Go(where) => pc'[t] = where
  BY CurIsThread DEF Go, SchedTypeOK, States
<1>3. ASSUME NEW where \in Standpoints \ {"lock", "asleep"}, Go(where), state'[t] = "RUN"
      PROVE  Stands(t)'
  BY <1>2, <1>3 DEF Stands
<1>4. pc[t] \notin {"lock", "asleep"} => state[t] = "RUN"
  BY DEF Stands
<1>5. ASSUME NEW n, Await(n) PROVE Stands(t)'
  BY <1>2, <1>5, WaitBlocks DEF Await, Stands
<1>6. CASE LockCalled(TRUE)
  BY <1>3, <1>4, <1>5, <1>6 DEF LockCalled, Acquire, Runs, Standpoints, schedVars
<1>7. CASE LockWoken(TRUE)
  BY <1>3, <1>5, <1>7 DEF LockWoken, Acquire, Woken, LeaveIdle, Standpoints
<1>8. CASE Unlock \/ UnlockOwner \/ UnlockWaiters
  <2>1. state' = state /\ pc[t] \notin {"lock", "asleep"}
        /\ \E where \in Standpoints \ {"lock", "asleep"} : Go(where)
    BY <1>8 DEF Unlock, UnlockOwner, UnlockWaiters, Runs, Standpoints, schedVars
  <2> QED BY <1>3, <1>4, <2>1
<1>9. CASE UnlockWake
  <2>1. WakeSingle(Mtx) /\ Go("out") /\ state[t] = "RUN"
    BY <1>4, <1>9 DEF UnlockWake, Runs
  <2>2. state'[t] = "RUN"
    BY <1>2, <2>1, SchedulerAssumption, WakeSingleWakes
  <2> QED BY <1>3, <2>1, <2>2 DEF Standpoints
<1>10. ASSUME NEW d \in 1..MaxDelay, Sleep(d) PROVE Stands(t)'
  <2>1. TimedWait(NULL, d, 0) /\ Go("asleep")
    BY <1>10 DEF Sleep
  <2>2. state'[t] \in {"TWAIT", "RUN"} /\ waitob'[t] = NULL
    BY <1>2, <2>1, TimedWaitBlocks
  <2> QED BY <1>2, <2>1, <2>2 DEF Stands
<1>11. CASE SleepOver
  BY <1>3, <1>11 DEF SleepOver, Woken, LeaveIdle, Standpoints
<1>12. CASE System /\ UNCHANGED pc
  BY <1>2, <1>12, SystemReleases DEF Stands
<1>13. CASE UNCHANGED <<schedVars, pc>>
  BY <1>13 DEF Stands, schedVars
<1> QED BY <1>6, <1>7, <1>8, <1>9, <1>10, <1>11, <1>12, <1>13
        DEF CoreStep, Locking, Sleeping, UnlockOn

-----------------------------------------------------------------------------
(* The count of waiters goes up with each thread that starts to wait in     *)
(* Lock and down with each that comes back.                                 *)
LEMMA CountedStep ==
    ASSUME SchedInv, pc \in [Threads -> Standpoints], WaitersCounted, CoreStep
    PROVE  WaitersCounted'
<1>1. cur \in Threads
  BY CurIsThread
<1>2. /\ IsFiniteSet(InLockWait) /\ waiters = Cardinality(InLockWait) /\ waiters \in Nat
  BY SchedulerAssumption, WaitersFinite DEF InLockWait, WaitersCounted, SchedulerAssumption
<1>3. ASSUME NEW where \in Standpoints, Go(where), where # "lock", pc[cur] # "lock",
             waiters' = waiters
      PROVE  WaitersCounted'
  <2>1. InLockWait' = InLockWait
    BY <1>1, <1>3 DEF Go, InLockWait
  <2> QED BY <1>3, <2>1 DEF WaitersCounted
<1>4. CASE LockCalled(TRUE)
  <2>1. CASE Acquire(waiters)
    BY <1>3, <1>4, <2>1 DEF Acquire, LockCalled, Runs, Standpoints
  <2>2. CASE Await(waiters)
    <3>1. cur \notin InLockWait /\ InLockWait' = InLockWait \cup {cur}
      BY <1>1, <1>4, <2>2 DEF Await, Go, InLockWait, LockCalled, Runs
    <3>2. Cardinality(InLockWait') = Cardinality(InLockWait) + 1
      BY <1>2, <3>1, FS_AddElement
    <3> QED BY <1>2, <2>2, <3>2 DEF WaitersCounted, Await
  <2> QED BY <1>4, <2>1, <2>2 DEF LockCalled
<1>5. CASE LockWoken(TRUE)
  <2>1. cur \in InLockWait
    BY <1>1, <1>5 DEF LockWoken, InLockWait
  <2>2. CASE Acquire(waiters - 1)
    <3>1. InLockWait' = InLockWait \ {cur}
      BY <1>1, <2>2 DEF Acquire, Go, InLockWait
    <3>2. Cardinality(InLockWait') = Cardinality(InLockWait) - 1
      BY <1>2, <2>1, <3>1, FS_RemoveElement
    <3> QED BY <1>2, <2>2, <3>2 DEF WaitersCounted, Acquire
  <2>3. CASE Await(waiters - 1)
    <3>1. InLockWait' = InLockWait
      BY <1>1, <2>1, <2>3 DEF Await, Go, InLockWait
    <3>2. waiters' = waiters
      BY <1>2, <2>3 DEF Await
    <3> QED BY <3>1, <3>2 DEF WaitersCounted
  <2> QED BY <1>5, <2>2, <2>3 DEF LockWoken
<1>6. CASE Unlock \/ UnlockOn \/ Sleeping
  <2>1. waiters' = waiters /\ pc[cur] # "lock" /\ \E where \in Standpoints \ {"lock"} : Go(where)
    BY <1>6 DEF Unlock, UnlockOn, UnlockOwner, UnlockWaiters, UnlockWake, Sleeping, Sleep,
                SleepOver, Runs, mutexVars, Standpoints
  <2> QED BY <1>3, <2>1
<1>7. CASE UNCHANGED <<mutexVars, pc>>
  BY <1>7 DEF WaitersCounted, InLockWait, mutexVars
<1> QED BY <1>4, <1>5, <1>6, <1>7 DEF CoreStep, Locking

-----------------------------------------------------------------------------
(* No lost wakeup.  A step that neither frees the mutex nor takes a waiter *)
(* or an Unlock away strands nobody.                                        *)
LEMMA NobodyStranded ==
    ASSUME NoStrandedWaiter, count' = count, InLockWait' = InLockWait,
           \A t \in InLockWait : state'[t] = state[t] \/ state'[t] = "RUN",
           \A t \in Threads : pc[t] \in {"owner", "waiters", "wake"} => pc'[t] = pc[t]
    PROVE  NoStrandedWaiter'
BY DEF NoStrandedWaiter

(* The threads that are blocked on the mutex are those that stand in Lock. *)
LockBlocks == \A t \in Threads : state[t] \in Blocked => (waitob[t] = Mtx <=> pc[t] = "lock")

(* No step of Lock, Unlock or the scheduler leaves a waiter stranded. *)
LEMMA StrandedStep ==
    ASSUME SchedInv, pc \in [Threads -> Standpoints], count \in Nat, LockBlocks,
           WaitersCounted, NoStrandedWaiter, CoreStep
    PROVE  NoStrandedWaiter'
<1>1. cur \in Threads /\ SchedTypeOK /\ state \in [Threads -> States] /\ InLockWait \in SUBSET Threads
  BY CurIsThread DEF SchedTypeOK, States, InLockWait
<1>2. \A where \in Standpoints : Go(where) =>
        pc'[cur] = where /\ \A t \in Threads \ {cur} : pc'[t] = pc[t]
  BY <1>1 DEF Go
<1>3. count' # 0 => NoStrandedWaiter'
  BY DEF NoStrandedWaiter
<1>4. CASE Locking
  BY <1>3, <1>4 DEF Locking, LockCalled, LockWoken, Acquire, Await, Taken
<1>5. CASE Unlock
  <2>1. CASE count' = 0
    BY <1>1, <1>2, <1>5, <2>1 DEF Unlock, NoStrandedWaiter, Standpoints
  <2> QED BY <1>3, <2>1
<1>6. CASE UnlockOwner
  BY <1>1, <1>2, <1>6 DEF UnlockOwner, NoStrandedWaiter, Standpoints
<1>7. CASE UnlockWaiters
  <2>1. CASE waiters # 0
    BY <1>1, <1>2, <1>7, <2>1 DEF UnlockWaiters, NoStrandedWaiter, Standpoints
  <2>2. CASE waiters = 0
    <3>1. InLockWait = {}
      BY <1>1, <2>2, SchedulerAssumption, WaitersFinite, FS_EmptySet DEF WaitersCounted
    <3>2. InLockWait' = {}
      BY <1>1, <1>2, <1>7, <2>2, <3>1 DEF UnlockWaiters, InLockWait, Standpoints
    <3> QED BY <3>2 DEF NoStrandedWaiter
  <2> QED BY <2>1, <2>2
<1>8. CASE UnlockWake
  <2>1. WakeSingle(Mtx) /\ Go("out") /\ pc[cur] = "wake"
    BY <1>8 DEF UnlockWake, Runs
  <2>2. \A t \in Threads : pc'[t] = "lock" <=> pc[t] = "lock"
    BY <1>1, <1>2, <2>1 DEF Standpoints
  <2>3. CASE Waiters(Mtx) = {} /\ state' = state
    <3>1. \A t \in InLockWait' : state'[t] # "WAIT"
      BY <2>2, <2>3 DEF InLockWait, Waiters, LockBlocks, Blocked
    <3> QED BY <3>1 DEF NoStrandedWaiter
  <2>4. ASSUME NEW t \in Waiters(Mtx), state' = [state EXCEPT ![t] = "RUN"]
        PROVE  NoStrandedWaiter'
    <3>1. t \in Threads /\ pc[t] = "lock"
      BY DEF Waiters, LockBlocks
    <3>2. t \in InLockWait' /\ state'[t] = "RUN"
      BY <1>1, <2>2, <2>4, <3>1 DEF InLockWait
    <3> QED BY <3>2 DEF NoStrandedWaiter
  <2> QED BY <1>1, <2>1, <2>3, <2>4, SchedulerAssumption, WakeSingleWakes
<1>9. CASE Sleeping
  <2>1. /\ UNCHANGED mutexVars /\ pc[cur] \in {"out", "asleep"}
        /\ Go("asleep") \/ Go("out")
    BY <1>9 DEF Sleeping, Sleep, SleepOver, Runs
  <2>2. /\ InLockWait' = InLockWait /\ cur \notin InLockWait
        /\ \A t \in Threads : pc[t] \in {"owner", "waiters", "wake"} => pc'[t] = pc[t]
    BY <1>1, <1>2, <2>1 DEF InLockWait, Standpoints
  <2>3. \A t \in InLockWait : state'[t] = state[t] \/ state'[t] = "RUN"
    BY <1>1, <2>2, OthersMove
  <2> QED BY <2>1, <2>2, <2>3, NobodyStranded DEF mutexVars
<1>10. CASE System /\ UNCHANGED <<mutexVars, pc>>
  <2>1. \A t \in InLockWait : state'[t] = state[t] \/ state'[t] = "RUN"
    BY <1>1, <1>10, SystemReleases
  <2> QED BY <1>10, <2>1, NobodyStranded DEF InLockWait, mutexVars
<1>11. CASE UNCHANGED <<schedVars, mutexVars, pc>>
  BY <1>11, NobodyStranded DEF InLockWait, schedVars, mutexVars
<1> QED BY <1>4, <1>5, <1>6, <1>7, <1>8, <1>9, <1>10, <1>11 DEF CoreStep, UnlockOn

-----------------------------------------------------------------------------
(* The invariant all that follows is drawn from: the scheduler's, and the *)
(* mutex's count, waiters and wakeups.                                      *)
THEOREM InvariantHolds == Spec => []IInv
<1>1. Init => IInv
  BY InitIInv
<1>2. IInv /\ [Next]_vars => IInv'
  <2> SUFFICES ASSUME IInv, [Next]_vars PROVE IInv'
    OBVIOUS
  <2>1. /\ SchedInv /\ pc \in [Threads -> Standpoints] /\ count \in Nat /\ CoreStep
        /\ Standing /\ Lockable /\ WaitersCounted /\ NoStrandedWaiter
    BY NextIsCore, MutexAssumption DEF IInv, Lockable, MutexTypes, MutexAssumption
  <2>2. Standing'
    BY <2>1, StandsStep DEF Standing
  <2>3. LockBlocks
    BY <2>1, MutexAssumption DEF MutexAssumption, Standing, Stands, LockBlocks, Blocked
  <2> QED BY <2>1, <2>2, <2>3, SchedStep, LockableStep, CountedStep, StrandedStep DEF IInv
<1> QED BY <1>1, <1>2, PTL DEF Spec

(* The mutex and the scheduler under it keep their types: the counters stay *)
(* within the number of threads and of nested locks.                        *)
THEOREM TypesHold == Spec => []TypeOK
<1>1. IInv => TypeOK
  <2> SUFFICES ASSUME IInv PROVE TypeOK
    OBVIOUS
  <2>1. InLockWait \in SUBSET Threads
    BY DEF InLockWait
  <2>2. waiters \in 0..MaxThreads
    BY <2>1, SchedulerAssumption, WaitersFinite DEF IInv, WaitersCounted
  <2> QED BY <2>2 DEF IInv, SchedInv, Lockable, MutexTypes, Standpoints, TypeOK
<1> QED BY <1>1, InvariantHolds, PTL

(* _count is the number of locks of the one thread that has any. *)
THEOREM CountHolds == Spec => []CountIsDepth
<1>1. IInv => CountIsDepth
  BY DEF IInv, Lockable
<1> QED BY <1>1, InvariantHolds, PTL

(* _waiters is the number of threads in Lock's wait, which is why Unlock    *)
(* may skip the wakeup when it reads zero.                                  *)
THEOREM WaitersHold == Spec => []WaitersCounted
<1>1. IInv => WaitersCounted
  BY DEF IInv
<1> QED BY <1>1, InvariantHolds, PTL

(* However Unlock is preempted, no thread stays blocked on a free mutex    *)
(* without another that is on its way to take it or to wake it.             *)
THEOREM NoLostWakeup == Spec => []NoStrandedWaiter
<1>1. IInv => NoStrandedWaiter
  BY DEF IInv
<1> QED BY <1>1, InvariantHolds, PTL

(* Mutex implements a recursive lock: two threads never have it at once. *)
THEOREM MutexImplementsRecursiveLock == Spec => ImplementsRecursiveLock
<1>1. Init => Promise!Init
  BY DEF Init, Promise!Init
<1>2. ASSUME IInv, [Next]_vars PROVE [Promise!Next]_depth
  <2>1. /\ cur \in Threads /\ SchedInv /\ Lockable
    BY <1>2, CurIsThread DEF IInv
  <2>2. ASSUME NEW n, Acquire(n), Deeper PROVE Promise!Next
    <3>1. \A u \in Threads \ {cur} : depth[u] = 0
      BY <2>1, <2>2, TakerIsAlone DEF Acquire
    <3>2. Promise!Lock(cur)
      BY <2>2, <3>1 DEF Deeper, Promise!Lock
    <3> QED BY <2>1, <3>2 DEF Promise!Next
  <2>3. CASE Lock
    BY <2>2, <2>3 DEF Lock, LockCalled
  <2>4. CASE LockAgain
    BY <2>2, <2>4 DEF LockAgain, LockWoken
  <2>5. CASE TryLock
    BY <2>2, <2>5 DEF TryLock
  <2>6. CASE Unlock
    <3>1. Promise!Unlock(cur)
      BY <2>6 DEF Unlock, Promise!Unlock
    <3> QED BY <2>1, <3>1 DEF Promise!Next
  <2>7. CASE UNCHANGED depth
    BY <2>7
  <2> QED BY <1>2, <2>3, <2>4, <2>5, <2>6, <2>7
          DEF Next, Call, UnlockOn, UnlockOwner, UnlockWaiters, UnlockWake, Sleep,
              SleepOver, vars
<1> QED BY <1>1, <1>2, InvariantHolds, PTL DEF Spec, ImplementsRecursiveLock, Promise!Spec

-----------------------------------------------------------------------------
(* The condition variable, and the mutex under it. *)
CvPoints == {"none", "release", "wait", "relock", "restore", "signal", "broadcast"}
Away == {"release", "wait", "relock"}

CvTypes ==
    /\ MutexTypes
    /\ cv \in [Threads -> CvPoints]
    /\ kept \in [Threads -> 0..MaxDepth]

(* Where a thread stands, in the mutex's code and in the condition          *)
(* variable's, agrees with its state and with what it waits for.            *)
CvStands(t) ==
    /\ cv[t] # "wait" => Stands(t)
    /\ cv[t] = "wait" => pc[t] = "out" /\ state[t] \in {"RUN"} \cup Blocked /\ waitob[t] = Cv
    /\ cv[t] = "release" => pc[t] \notin {"lock", "asleep"}
    /\ cv[t] = "relock" => pc[t] \in {"out", "lock"}
    /\ cv[t] \in {"restore", "signal", "broadcast"} => pc[t] = "out"
CvStanding == \A t \in Threads : CvStands(t)

(* One thread at most is inside, and _count is how often it has the mutex   *)
(* locked, but for the moment in which it is back from Wait's Lock.  Wait's *)
(* local variable has the depth to go back to.                              *)
Inside(t) == depth[t] > 0 /\ cv[t] \notin Away
Held ==
    /\ \A t, u \in Threads : Inside(t) /\ Inside(u) => t = u
    /\ \A t \in Threads : Inside(t) => count = IF cv[t] = "restore" THEN 1 ELSE depth[t]
    /\ count > 0 => \E t \in Threads : Inside(t)
    /\ \A t \in Threads : count > 0 /\ tid = t => Inside(t)
    /\ \A t \in Threads : cv[t] \in Away \cup {"restore"} => kept[t] = depth[t] /\ depth[t] > 0
    /\ \A t \in Threads : pc[t] = "lock" /\ cv[t] = "none" => depth[t] < MaxDepth

CvInv ==
    /\ SchedInv /\ CvTypes /\ CvStanding /\ Held
    /\ WaitersCounted /\ CondCounted /\ NoStrandedWaiter

-----------------------------------------------------------------------------
(* The steps of CvNext are steps of the mutex and the scheduler, or one of  *)
(* five of CondVar's own.                                                   *)
LEMMA CvNextIsCore ==
    ASSUME [CvNext]_cvVars
    PROVE  CoreStep \/ WaitBegin \/ WaitBlock \/ WaitOver \/ WaitRestore \/ SignalWake
<1>1. Call => CoreStep
  BY NextIsCore DEF Next
<1>2. LockAgain \/ SleepOver \/ UnlockOn => CoreStep
  BY NextIsCore DEF Next
<1>3. WaitRelock => CoreStep
  BY DEF WaitRelock, LockCalled, LockWoken, CoreStep, Locking
<1>4. System /\ UNCHANGED <<mutexVars, pc>> => CoreStep
  BY DEF CoreStep
<1>5. (\E how \in {"signal", "broadcast"} : SignalBegin(how)) \/ UNCHANGED cvVars => CoreStep
  BY DEF SignalBegin, CoreStep, cvVars, vars
<1> QED BY <1>1, <1>2, <1>3, <1>4, <1>5 DEF CvNext, CvOn

(* WaitBlock waits, or leaves the scheduler alone. *)
LEMMA BlockWaits ==
    ASSUME SchedInv, WaitBlock
    PROVE  \/ Wait(Cv, 0)
           \/ \E d \in 1..MaxDelay : TimedWait(Cv, d, 0)
           \/ UNCHANGED schedVars
BY DEF WaitBlock

(* The scheduler's invariant. *)
LEMMA CvSchedStep ==
    ASSUME SchedInv, [CvNext]_cvVars
    PROVE  SchedInv'
<1> USE SchedulerAssumption
<1>1. /\ Cv \in Objects \cup Threads \cup {NULL} /\ 0 \in 0..(IplModulus - 1)
      /\ \A d \in 1..MaxDelay : d \in 0..MaxDelay
  BY CondVarAssumption DEF CondVarAssumption, SchedulerAssumption
<1>2. CASE CoreStep
  BY <1>2, SchedStep
<1>3. CASE WaitBegin \/ WaitRestore
  BY <1>3, StutterKeeps DEF WaitBegin, WaitRestore
<1>4. CASE WaitBlock
  BY <1>1, <1>4, BlockWaits, WaitKeeps, TimedWaitKeeps, StutterKeeps
<1>5. CASE WaitOver
  BY <1>5, LeaveIdleKeeps DEF WaitOver
<1>6. CASE SignalWake
  <2>1. at' \in [Threads -> Places]
    BY <1>6 DEF SignalWake, SchedInv, SchedTypeOK, Places
  <2> QED BY <1>6, <2>1, WakeSingleKeeps, WakeAllKeeps DEF SignalWake
<1> QED BY <1>2, <1>3, <1>4, <1>5, <1>6, CvNextIsCore

(* No step moves a thread but the current one, in either object's code: at *)
(* most it is released from a wait.                                         *)
LEMMA CvOthersMove ==
    ASSUME SchedInv, CvTypes, [CvNext]_cvVars, NEW t \in Threads, t # cur
    PROVE  /\ pc'[t] = pc[t] /\ waitob'[t] = waitob[t]
           /\ cv'[t] = cv[t] /\ kept'[t] = kept[t] /\ depth'[t] = depth[t]
           /\ state'[t] = state[t] \/ (state[t] \in Blocked /\ state'[t] = "RUN")
<1> DEFINE Kept == /\ pc'[t] = pc[t] /\ waitob'[t] = waitob[t]
                   /\ state'[t] = state[t] \/ (state[t] \in Blocked /\ state'[t] = "RUN")
<1>1. /\ cur \in Threads /\ SchedTypeOK /\ state \in [Threads -> States]
      /\ waitob \in [Threads -> Objects \cup Threads \cup {NULL}]
  BY CurIsThread DEF SchedTypeOK, States
<1>2. /\ \A where : (CvGo(where) => cv'[t] = cv[t]) /\ (Go(where) => pc'[t] = pc[t])
      /\ Deeper => depth'[t] = depth[t]
  BY <1>1 DEF CvGo, Go, CvTypes, MutexTypes, Deeper
<1>3. cv'[t] = cv[t]
  BY <1>2 DEF CvNext, CvOn, WaitBegin, WaitBlock, WaitOver, WaitRelock, WaitRestore,
              SignalBegin, SignalWake, condVars, cvVars
<1>4. kept'[t] = kept[t]
  BY <1>1 DEF CvTypes, CvNext, CvOn, WaitBegin, WaitBlock, WaitOver, WaitRelock,
      WaitRestore,
              SignalBegin, SignalWake, condVars, cvVars
<1>5. depth'[t] = depth[t]
  <2>1. Call \/ LockAgain \/ SleepOver \/ UnlockOn => depth'[t] = depth[t]
    BY <1>1, <1>2 DEF Call, Lock, TryLock, Unlock, Sleep, LockCalled, LockAgain, LockWoken,
              SleepOver, UnlockOn, UnlockOwner, UnlockWaiters, UnlockWake, CvTypes, MutexTypes
  <2>2. WaitRelock => depth'[t] = depth[t]
    BY DEF WaitRelock, LockCalled, LockWoken
  <2> QED BY <2>1, <2>2 DEF CvNext, CvOn, WaitBegin, WaitBlock, WaitOver, WaitRestore,
              SignalBegin, SignalWake, vars, cvVars
<1>6. CASE CoreStep
  BY <1>3, <1>4, <1>5, <1>6, OthersMove DEF CvTypes, MutexTypes
<1> SUFFICES Kept
  BY <1>3, <1>4, <1>5
<1>7. CASE WaitBegin \/ WaitRestore
  BY <1>2, <1>7 DEF WaitBegin, WaitRestore, schedVars
<1>8. CASE WaitBlock
  <2>1. pc' = pc
    BY <1>8 DEF WaitBlock
  <2>2. ASSUME Wait(Cv, 0) PROVE Kept
    BY <1>1, <2>1, <2>2, WaitBlocks DEF Blocked
  <2>3. ASSUME NEW d, TimedWait(Cv, d, 0) PROVE Kept
    BY <1>1, <2>1, <2>3, TimedWaitBlocks DEF Blocked
  <2>4. ASSUME UNCHANGED schedVars PROVE Kept
    BY <2>1, <2>4 DEF schedVars
  <2> QED BY <1>8, <2>2, <2>3, <2>4, BlockWaits
<1>9. CASE WaitOver
  BY <1>1, <1>9 DEF WaitOver, LeaveIdle
<1>10. CASE SignalWake
  <2>1. pc' = pc /\ waitob' = waitob
    BY <1>10 DEF SignalWake
  <2>2. state'[t] = state[t] \/ (state[t] \in Blocked /\ state'[t] = "RUN")
    BY <1>1, <1>10, SchedulerAssumption, WakeSingleWakes, WakeAllWakes DEF SignalWake,
        Waiters
  <2> QED BY <2>1, <2>2
<1> QED BY <1>6, <1>7, <1>8, <1>9, <1>10, CvNextIsCore

-----------------------------------------------------------------------------
(* Where a thread stands in the two objects' code agrees with its state,    *)
(* through every step.                                                      *)
LEMMA CvStandsStep ==
    ASSUME SchedInv, CvTypes, CvStanding, [CvNext]_cvVars, NEW t \in Threads
    PROVE  CvStands(t)'
<1>1. CvStands(t)
  BY DEF CvStanding
<1>2. CASE t # cur
  BY <1>1, <1>2, CvOthersMove DEF CvStands, Stands, Blocked
<1> SUFFICES ASSUME t = cur PROVE CvStands(t)'
  BY <1>2
<1>3. /\ cur \in Threads /\ SchedTypeOK /\ state \in [Threads -> States]
      /\ waitob \in [Threads -> Objects \cup Threads \cup {NULL}]
      /\ pc \in [Threads -> Standpoints] /\ cv \in [Threads -> CvPoints]
  BY CurIsThread DEF SchedTypeOK, States, CvTypes, MutexTypes
<1>4. \A where : (CvGo(where) => cv'[t] = where) /\ (Go(where) => pc'[t] = where)
  BY <1>3 DEF CvGo, Go
<1>5. CoreStep /\ cv[t] # "wait" => Stands(t)'
  BY <1>1, <1>3, StandsStep DEF CvStands
<1>6. CASE cv[t] = "none" /\ (Call \/ LockAgain \/ SleepOver) /\ UNCHANGED condVars
  <2>1. Stands(t)'
    BY <1>5, <1>6, NextIsCore DEF Next
  <2> QED BY <1>6, <2>1 DEF CvStands, condVars
<1>7. CASE UnlockOn /\ UNCHANGED condVars
  <2>1. /\ cv[t] \in {"none", "release"} /\ cv'[t] = cv[t]
        /\ pc'[t] \in {"waiters", "wake", "out"}
    BY <1>1, <1>3, <1>4, <1>7 DEF CvStands, CvPoints, UnlockOn, UnlockOwner, UnlockWaiters,
              UnlockWake, Runs, condVars
  <2>2. Stands(t)'
    BY <1>5, <1>7, <2>1 DEF CoreStep
  <2> QED BY <2>1, <2>2 DEF CvStands
<1>8. CASE WaitBegin
  BY <1>1, <1>4, <1>8 DEF WaitBegin, CvRuns, Runs, CvStands, Stands, schedVars
<1>9. CASE WaitBlock
  <2>1. pc[t] = "out" /\ pc' = pc /\ state[t] = "RUN"
    BY <1>1, <1>9 DEF WaitBlock, CvRuns, Runs, CvStands, Stands
  <2>2. ASSUME Wait(Cv, 0), CvGo("wait") PROVE CvStands(t)'
    BY <1>3, <1>4, <2>1, <2>2, WaitBlocks DEF CvStands, Blocked
  <2>3. ASSUME NEW d, TimedWait(Cv, d, 0), CvGo("wait") PROVE CvStands(t)'
    BY <1>3, <1>4, <2>1, <2>3, TimedWaitBlocks DEF CvStands, Blocked
  <2>4. ASSUME CvGo("relock"), UNCHANGED schedVars PROVE CvStands(t)'
    BY <1>4, <2>1, <2>4 DEF CvStands, Stands, schedVars
  <2> QED BY <1>9, <2>2, <2>3, <2>4 DEF WaitBlock
<1>10. CASE WaitOver
  BY <1>1, <1>4, <1>10 DEF WaitOver, Woken, LeaveIdle, CvStands, Stands
<1>11. CASE WaitRelock
  <2>1. Stands(t)'
    BY <1>5, <1>11 DEF WaitRelock, LockCalled, LockWoken, CoreStep, Locking
  <2>2. pc'[t] \in {"out", "lock"} /\ cv'[t] = IF pc'[t] = "lock" THEN "relock" ELSE "restore"
    <3>1. cur' = cur
      BY <1>11 DEF WaitRelock, LockCalled, LockWoken, Await, Wait, EnterIdle, LeaveIdle,
          schedVars
    <3> QED BY <1>4, <1>11, <3>1 DEF WaitRelock, LockCalled, LockWoken, Acquire, Await
  <2> QED BY <2>1, <2>2 DEF CvStands
<1>12. CASE WaitRestore
  BY <1>1, <1>4, <1>12 DEF WaitRestore, CvRuns, Runs, CvStands, Stands, schedVars
<1>13. CASE \E how \in {"signal", "broadcast"} : SignalBegin(how)
  BY <1>1, <1>4, <1>13 DEF SignalBegin, CvRuns, Runs, CvStands, Stands, vars, schedVars
<1>14. CASE SignalWake
  <2>1. pc'[t] = "out" /\ cv'[t] = "none" /\ state[t] = "RUN"
    BY <1>1, <1>4, <1>14 DEF SignalWake, CvRuns, Runs, CvStands, Stands
  <2>2. state'[t] = "RUN"
    BY <1>3, <1>14, <2>1, SchedulerAssumption, WakeSingleWakes, WakeAllWakes DEF SignalWake
  <2> QED BY <2>1, <2>2 DEF CvStands, Stands
<1>15. CASE System /\ UNCHANGED <<mutexVars, pc, depth, condVars>>
  <2>1. cv[t] # "wait" => Stands(t)'
    BY <1>5, <1>15 DEF CoreStep
  <2>2. /\ cv' = cv /\ pc' = pc /\ waitob' = waitob
        /\ state'[t] = state[t] \/ state'[t] = "RUN"
    BY <1>3, <1>15, SystemReleases DEF condVars
  <2> QED BY <1>1, <2>1, <2>2 DEF CvStands, Blocked
<1>16. CASE UNCHANGED cvVars
  BY <1>1, <1>16 DEF CvStands, Stands, cvVars, vars, schedVars, condVars
<1> QED BY <1>6, <1>7, <1>8, <1>9, <1>10, <1>11, <1>12, <1>13, <1>14, <1>15, <1>16
        DEF CvNext, CvOn

-----------------------------------------------------------------------------
(* A thread gets the mutex only when no other is inside. *)
Entered == CvTypes /\ Held

LEMMA CvTakerIsAlone ==
    ASSUME SchedInv, Entered, ~Taken
    PROVE  /\ \A u \in Threads \ {cur} : ~Inside(u)
           /\ IF Inside(cur) THEN tid = cur ELSE count = 0
<1>1. cur \in Threads /\ count \in Nat /\ \A t \in Threads : depth[t] \in Nat
  BY CurIsThread DEF Entered, CvTypes, MutexTypes
<1>2. CASE count = 0
  BY <1>1, <1>2 DEF Entered, Held, Inside
<1>3. CASE count # 0 /\ tid = cur
  BY <1>1, <1>3 DEF Entered, Held
<1> QED BY <1>2, <1>3 DEF Taken

(* What leaves count and the holders alone: the owner on record may go      *)
(* away, and no thread comes to wait that has the mutex as often as it may. *)
LEMMA HeldStays ==
    ASSUME Entered, UNCHANGED <<count, depth, kept>>, tid' \in {tid, NULL},
           pc' \in [Threads -> Standpoints], cv' \in [Threads -> CvPoints],
           \A t \in Threads : \/ cv'[t] = cv[t]
                             \/ {cv[t], cv'[t]} \subseteq Away
                             \/ {cv[t], cv'[t]} \subseteq {"none", "signal", "broadcast"},
           \A t \in Threads : pc'[t] = "lock" /\ cv'[t] = "none" =>
                             (pc[t] = "lock" /\ cv[t] = "none") \/ depth[t] < MaxDepth
    PROVE  Entered'
<1>1. CvTypes'
  BY DEF Entered, CvTypes, MutexTypes
<1>2. NULL \notin Threads
  BY MutexAssumption DEF MutexAssumption
<1>3. ASSUME NEW t \in Threads
      PROVE  /\ (cv'[t] \in Away) = (cv[t] \in Away)
             /\ (cv'[t] = "restore") = (cv[t] = "restore")
             /\ (cv'[t] \in Away \cup {"restore"}) = (cv[t] \in Away \cup {"restore"})
  BY DEF Away
<1>4. \A t \in Threads : Inside(t)' = Inside(t)
  BY <1>3 DEF Inside
<1>5. Held'
  BY <1>2, <1>3, <1>4 DEF Entered, Held
<1> QED BY <1>1, <1>5 DEF Entered

(* A lock taken outside of Wait counts one more. *)
LEMMA CvAcquireKeeps ==
    ASSUME SchedInv, Entered, NEW n, Acquire(n), Deeper, depth[cur] < MaxDepth,
           cv[cur] = "none", UNCHANGED condVars
    PROVE  Entered'
<1>1. /\ MaxDepth \in Nat /\ cv \in [Threads -> CvPoints] /\ kept \in [Threads -> 0..MaxDepth]
      /\ pc \in [Threads -> Standpoints] /\ depth \in [Threads -> 0..MaxDepth]
  BY CurIsThread DEF Entered, CvTypes, MutexTypes
<1>2. PICK me \in Threads : me = cur
  BY CurIsThread
<1>3. /\ tid' = me /\ count' = count + 1 /\ pc' = [pc EXCEPT ![me] = "out"]
      /\ depth' = [depth EXCEPT ![me] = depth[me] + 1] /\ cv' = cv /\ kept' = kept
  BY <1>2 DEF Acquire, Go, Deeper, condVars
<1>4. \A u \in Threads \ {me} : ~Inside(u)
  BY <1>2, CvTakerIsAlone DEF Acquire
<1>5. count = depth[me]
  BY <1>1, <1>2, CvTakerIsAlone DEF Acquire, Inside, Away, Entered, Held
<1>6. /\ depth'[me] = count' /\ count' > 0 /\ count' \in 0..MaxDepth
      /\ \A u \in Threads \ {me} : depth'[u] = depth[u]
  BY <1>1, <1>2, <1>3, <1>5
<1>7. CvTypes'
  BY <1>1, <1>3, <1>6 DEF CvTypes, MutexTypes, Standpoints
<1>8. Inside(me)' /\ \A u \in Threads \ {me} : ~Inside(u)'
  BY <1>2, <1>3, <1>4, <1>6 DEF Inside, Away
<1>9. Held'
  <2>1. \A t \in Threads : cv'[t] \in Away \cup {"restore"} =>
                             kept'[t] = depth'[t] /\ depth'[t] > 0
    BY <1>2, <1>3, <1>6 DEF Entered, Held, Away
  <2>2. \A t \in Threads : pc'[t] = "lock" /\ cv'[t] = "none" => depth'[t] < MaxDepth
    BY <1>1, <1>3, <1>6 DEF Entered, Held
  <2> QED BY <1>2, <1>3, <1>6, <1>8, <2>1, <2>2 DEF Held
<1> QED BY <1>7, <1>9 DEF Entered

(* The lock that Wait takes back counts one, whatever the depth is. *)
LEMMA RelockKeeps ==
    ASSUME SchedInv, Entered, NEW n, Acquire(n), UNCHANGED <<depth, kept>>,
           cv[cur] = "relock", CvGo("restore")
    PROVE  Entered'
<1>1. /\ MaxDepth \in Nat /\ MaxDepth > 0
      /\ cv \in [Threads -> CvPoints] /\ kept \in [Threads -> 0..MaxDepth]
      /\ pc \in [Threads -> Standpoints] /\ depth \in [Threads -> 0..MaxDepth]
  BY CurIsThread DEF Entered, CvTypes, MutexTypes
<1>2. PICK me \in Threads : me = cur
  BY CurIsThread
<1>3. /\ tid' = me /\ count' = count + 1 /\ pc' = [pc EXCEPT ![me] = "out"]
      /\ depth' = depth /\ cv' = [cv EXCEPT ![me] = "restore"] /\ kept' = kept
  BY <1>2 DEF Acquire, Go, CvGo
<1>4. (\A u \in Threads : ~Inside(u)) /\ count = 0
  BY <1>2, CvTakerIsAlone DEF Acquire, Inside, Away
<1>5. count' = 1 /\ depth[me] > 0 /\ kept[me] = depth[me]
  BY <1>2, <1>3, <1>4 DEF Entered, Held, Away
<1>6. CvTypes'
  BY <1>1, <1>3, <1>5 DEF CvTypes, MutexTypes, Standpoints, CvPoints
<1>7. Inside(me)' /\ \A u \in Threads \ {me} : ~Inside(u)'
  BY <1>1, <1>3, <1>4, <1>5 DEF Inside, Away
<1>8. Held'
  <2>1. \A t \in Threads : cv'[t] \in Away \cup {"restore"} =>
                             kept'[t] = depth'[t] /\ depth'[t] > 0
    BY <1>1, <1>3, <1>5 DEF Entered, Held, Away
  <2>2. \A t \in Threads : pc'[t] = "lock" /\ cv'[t] = "none" => depth'[t] < MaxDepth
    BY <1>1, <1>3 DEF Entered, Held
  <2> QED BY <1>1, <1>3, <1>5, <1>7, <2>1, <2>2 DEF Held
<1> QED BY <1>6, <1>8 DEF Entered

(* Unlock counts one less, until the holder has none left. *)
LEMMA CvUnlockKeeps ==
    ASSUME SchedInv, Entered, Unlock, cv[cur] = "none", UNCHANGED condVars
    PROVE  Entered'
<1>1. /\ MaxDepth \in Nat /\ cv \in [Threads -> CvPoints] /\ kept \in [Threads -> 0..MaxDepth]
      /\ pc \in [Threads -> Standpoints] /\ depth \in [Threads -> 0..MaxDepth]
  BY CurIsThread DEF Entered, CvTypes, MutexTypes
<1>2. PICK me \in Threads : me = cur
  BY CurIsThread
<1>3. /\ tid' = tid /\ count' = count - 1 /\ depth[me] > 0
      /\ pc' = [pc EXCEPT ![me] = IF count' = 0 THEN "owner" ELSE "waiters"]
      /\ depth' = [depth EXCEPT ![me] = depth[me] - 1] /\ cv' = cv /\ kept' = kept
  BY <1>2 DEF Unlock, Go, condVars
<1>4. Inside(me) /\ \A u \in Threads \ {me} : ~Inside(u)
  BY <1>2, <1>3 DEF Inside, Away, Entered, Held
<1>5. count = depth[me]
  BY <1>2, <1>4 DEF Entered, Held
<1>6. /\ depth'[me] = count' /\ count' \in 0..MaxDepth
      /\ \A u \in Threads \ {me} : depth'[u] = depth[u]
  BY <1>1, <1>2, <1>3, <1>5
<1>7. CvTypes'
  BY <1>1, <1>3, <1>6 DEF CvTypes, MutexTypes, Standpoints, Entered
<1>8. /\ Inside(me)' <=> count' > 0
      /\ \A u \in Threads \ {me} : ~Inside(u)'
  BY <1>2, <1>3, <1>4, <1>6 DEF Inside, Away
<1>9. Held'
  <2>1. \A t \in Threads : cv'[t] \in Away \cup {"restore"} =>
                             kept'[t] = depth'[t] /\ depth'[t] > 0
    BY <1>2, <1>3, <1>6 DEF Entered, Held, Away
  <2>2. \A t \in Threads : pc'[t] = "lock" /\ cv'[t] = "none" => depth'[t] < MaxDepth
    BY <1>1, <1>3, <1>6 DEF Entered, Held
  <2>3. \A t \in Threads : count' > 0 /\ tid' = t => Inside(t)'
    <3> SUFFICES ASSUME NEW t \in Threads, count' > 0, tid' = t PROVE t = me
      BY <1>8
    <3>1. count > 0
      BY <1>1, <1>3, <1>5
    <3> QED BY <1>3, <1>4, <3>1 DEF Entered, Held
  <2> QED BY <1>1, <1>2, <1>3, <1>6, <1>8, <2>1, <2>2, <2>3 DEF Held
<1> QED BY <1>7, <1>9 DEF Entered

(* Wait puts the count away, and gives it back before it returns. *)
LEMMA WaitKeepsDepth ==
    ASSUME SchedInv, Entered, WaitBegin \/ WaitRestore
    PROVE  Entered'
<1>1. /\ MaxDepth \in Nat /\ cv \in [Threads -> CvPoints] /\ kept \in [Threads -> 0..MaxDepth]
      /\ pc \in [Threads -> Standpoints] /\ depth \in [Threads -> 0..MaxDepth]
      /\ tid \in Threads \cup {NULL} /\ count \in 0..MaxDepth
  BY CurIsThread DEF Entered, CvTypes, MutexTypes
<1>2. PICK me \in Threads : me = cur
  BY CurIsThread
<1>3. /\ Inside(me) /\ depth[me] > 0 /\ \A u \in Threads \ {me} : ~Inside(u)
      /\ tid' = tid /\ depth' = depth
  BY <1>2 DEF Inside, Away, Entered, Held, WaitBegin, WaitRestore, CvRuns
<1>4. CASE WaitBegin
  <2>1. /\ kept' = [kept EXCEPT ![me] = count] /\ count' = 0
        /\ pc' = [pc EXCEPT ![me] = "owner"] /\ cv' = [cv EXCEPT ![me] = "release"]
    BY <1>2, <1>4 DEF WaitBegin, Go, CvGo
  <2>2. count = depth[me]
    BY <1>2, <1>3, <1>4 DEF WaitBegin, CvRuns, Entered, Held
  <2>3. CvTypes'
    BY <1>1, <1>3, <2>1 DEF CvTypes, MutexTypes, Standpoints, CvPoints
  <2>4. \A u \in Threads : ~Inside(u)'
    BY <1>1, <1>3, <2>1 DEF Inside, Away
  <2>5. \A t \in Threads : cv'[t] \in Away \cup {"restore"} =>
                             kept'[t] = depth'[t] /\ depth'[t] > 0
    BY <1>1, <1>3, <2>1, <2>2 DEF Entered, Held, Away
  <2>6. \A t \in Threads : pc'[t] = "lock" /\ cv'[t] = "none" => depth'[t] < MaxDepth
    BY <1>1, <1>3, <2>1 DEF Entered, Held
  <2>7. Held'
    BY <2>1, <2>4, <2>5, <2>6 DEF Held
  <2> QED BY <2>3, <2>7 DEF Entered
<1>5. CASE WaitRestore
  <2>1. /\ count' = kept[me] /\ kept' = [kept EXCEPT ![me] = 0]
        /\ pc' = pc /\ cv' = [cv EXCEPT ![me] = "none"] /\ cv[me] = "restore" /\ pc[me] = "out"
    BY <1>2, <1>5 DEF WaitRestore, CvGo, CvRuns, Runs
  <2>2. count' = depth[me] /\ count = 1
    BY <1>3, <2>1 DEF Entered, Held
  <2>3. CvTypes'
    BY <1>1, <1>3, <2>1 DEF CvTypes, MutexTypes, Standpoints, CvPoints
  <2>4. Inside(me)' /\ \A u \in Threads \ {me} : ~Inside(u)'
    BY <1>1, <1>3, <2>1 DEF Inside, Away
  <2>5. \A t \in Threads : cv'[t] \in Away \cup {"restore"} =>
                             kept'[t] = depth'[t] /\ depth'[t] > 0
    BY <1>1, <1>3, <2>1 DEF Entered, Held, Away
  <2>6. \A t \in Threads : pc'[t] = "lock" /\ cv'[t] = "none" => depth'[t] < MaxDepth
    BY <1>1, <1>3, <2>1 DEF Entered, Held
  <2>7. \A t \in Threads : count' > 0 /\ tid' = t => Inside(t)'
    BY <1>3, <2>2, <2>4 DEF Entered, Held
  <2>8. Held'
    BY <1>1, <1>3, <2>1, <2>2, <2>4, <2>5, <2>6, <2>7 DEF Held
  <2> QED BY <2>3, <2>8 DEF Entered
<1> QED BY <1>4, <1>5

(* One thread inside, with the count it should have, through every step. *)
LEMMA HeldStep ==
    ASSUME SchedInv, Entered, CvStanding, [CvNext]_cvVars
    PROVE  Entered'
<1>1. /\ cur \in Threads /\ MaxDepth \in Nat /\ MaxDepth > 0
      /\ pc \in [Threads -> Standpoints] /\ cv \in [Threads -> CvPoints]
      /\ depth \in [Threads -> 0..MaxDepth] /\ count \in 0..MaxDepth
  BY CurIsThread DEF Entered, CvTypes, MutexTypes
<1>2. ASSUME NEW where \in Standpoints, Go(where)
      PROVE  pc' \in [Threads -> Standpoints] /\ \A t \in Threads \ {cur} : pc'[t] = pc[t]
  BY <1>1, <1>2 DEF Go
<1>3. ASSUME NEW where \in CvPoints, CvGo(where)
      PROVE  /\ cv' \in [Threads -> CvPoints] /\ cv'[cur] = where
             /\ \A t \in Threads \ {cur} : cv'[t] = cv[t]
  BY <1>1, <1>3 DEF CvGo
<1>4. ASSUME UNCHANGED <<count, depth, condVars>>, tid' \in {tid, NULL},
             NEW where \in Standpoints, Go(where),
             where = "lock" /\ cv[cur] = "none" => depth[cur] < MaxDepth
      PROVE  Entered'
  <2>1. pc'[cur] = where
    BY <1>1, <1>4 DEF Go
  <2>2. \A t \in Threads : pc'[t] = "lock" /\ cv'[t] = "none" =>
                          (pc[t] = "lock" /\ cv[t] = "none") \/ depth[t] < MaxDepth
    BY <1>2, <1>4, <2>1 DEF condVars
  <2> QED BY <1>1, <1>2, <1>4, <2>2, HeldStays DEF condVars
<1>5. ASSUME UNCHANGED <<mutexVars, pc, depth, kept>>, NEW where \in CvPoints, CvGo(where),
             \/ {cv[cur], where} \subseteq Away
             \/ {cv[cur], where} \subseteq {"none", "signal", "broadcast"},
             where = "none" => pc[cur] # "lock"
      PROVE  Entered'
  <2>1. \A t \in Threads : \/ cv'[t] = cv[t]
                          \/ {cv[t], cv'[t]} \subseteq Away
                          \/ {cv[t], cv'[t]} \subseteq {"none", "signal", "broadcast"}
    BY <1>3, <1>5
  <2>2. \A t \in Threads : pc'[t] = "lock" /\ cv'[t] = "none" =>
                          (pc[t] = "lock" /\ cv[t] = "none") \/ depth[t] < MaxDepth
    BY <1>3, <1>5
  <2> QED BY <1>1, <1>3, <1>5, <2>1, <2>2, HeldStays DEF mutexVars
<1>6. CASE cv[cur] = "none" /\ (Lock \/ LockAgain) /\ UNCHANGED condVars
  <2>1. depth[cur] < MaxDepth
    BY <1>1, <1>6 DEF Lock, LockAgain, LockWoken, Entered, Held
  <2>2. ASSUME NEW n, Await(n), UNCHANGED depth PROVE Entered'
    BY <1>4, <1>6, <2>1, <2>2 DEF Await, Standpoints
  <2> QED BY <1>6, <2>1, <2>2, CvAcquireKeeps DEF Lock, LockCalled, LockAgain, LockWoken
<1>7. CASE cv[cur] = "none" /\ TryLock /\ UNCHANGED condVars
  <2>1. depth[cur] < MaxDepth
    BY <1>1, <1>7 DEF TryLock, Entered, Held, Inside, Away
  <2> QED BY <1>7, <2>1, CvAcquireKeeps DEF TryLock
<1>8. CASE cv[cur] = "none" /\ Unlock /\ UNCHANGED condVars
  BY <1>8, CvUnlockKeeps
<1>9. CASE cv[cur] = "none" /\ Sleeping /\ UNCHANGED condVars
  <2>1. UNCHANGED mutexVars /\ UNCHANGED depth /\ (Go("asleep") \/ Go("out"))
    BY <1>9 DEF Sleeping, Sleep, SleepOver
  <2> QED BY <1>4, <1>9, <2>1 DEF Standpoints, mutexVars
<1>10. CASE UnlockOn /\ UNCHANGED condVars
  <2>1. UNCHANGED <<count, depth>> /\ tid' \in {tid, NULL}
    BY <1>10 DEF UnlockOn, UnlockOwner, UnlockWaiters, UnlockWake, mutexVars
  <2>2. PICK where \in Standpoints \ {"lock"} : Go(where)
    BY <1>10 DEF UnlockOn, UnlockOwner, UnlockWaiters, UnlockWake, Standpoints
  <2> QED BY <1>4, <1>10, <2>1, <2>2
<1>11. CASE WaitBegin \/ WaitRestore
  BY <1>11, WaitKeepsDepth
<1>12. CASE WaitBlock
  BY <1>5, <1>12 DEF WaitBlock, CvRuns, CvPoints, Away
<1>13. CASE WaitOver
  BY <1>5, <1>13 DEF WaitOver, CvPoints, Away
<1>14. CASE WaitRelock
  <2>1. cur' = cur
    BY <1>14 DEF WaitRelock, LockCalled, LockWoken, Await, Wait, EnterIdle, LeaveIdle,
        schedVars
  <2>2. ASSUME NEW n, Acquire(n), UNCHANGED depth PROVE Entered'
    BY <1>1, <1>14, <2>1, <2>2, RelockKeeps DEF WaitRelock, Acquire, Go
  <2>3. ASSUME NEW n, Await(n), UNCHANGED depth PROVE Entered'
    <3>1. pc'[cur] = "lock" /\ CvGo("relock")
      BY <1>1, <1>14, <2>1, <2>3 DEF WaitRelock, Await, Go
    <3>2. cv' = cv
      BY <1>1, <1>14, <3>1 DEF CvGo, WaitRelock
    <3> QED BY <1>4, <1>14, <2>3, <3>2 DEF Await, WaitRelock, condVars, Standpoints
  <2> QED BY <1>14, <2>2, <2>3 DEF WaitRelock, LockCalled, LockWoken
<1>15. CASE \E how \in {"signal", "broadcast"} : SignalBegin(how)
  BY <1>5, <1>15 DEF SignalBegin, CvRuns, CvPoints, vars
<1>16. CASE SignalWake
  BY <1>5, <1>16 DEF SignalWake, CvRuns, Runs, CvPoints
<1>17. CASE UNCHANGED <<mutexVars, pc, depth, condVars>>
  BY <1>1, <1>17, HeldStays DEF mutexVars, condVars
<1>18. CASE UNCHANGED cvVars
  BY <1>17, <1>18 DEF cvVars, vars
<1> QED BY <1>6, <1>7, <1>8, <1>9, <1>10, <1>11, <1>12, <1>13, <1>14, <1>15, <1>16,
            <1>17, <1>18
        DEF CvNext, CvOn, Call, Sleeping

-----------------------------------------------------------------------------
(* The mutex's count of waiters: CondVar's own steps leave it alone. *)
LEMMA CvCountedStep ==
    ASSUME SchedInv, CvTypes, CvStanding, WaitersCounted, [CvNext]_cvVars
    PROVE  WaitersCounted'
<1>1. cur \in Threads /\ pc \in [Threads -> Standpoints]
  BY CurIsThread DEF CvTypes, MutexTypes
<1>2. CASE CoreStep
  BY <1>1, <1>2, CountedStep
<1>3. CASE WaitBegin
  <2>1. pc[cur] = "out" /\ waiters' = waiters /\ Go("owner")
    BY <1>3 DEF WaitBegin, CvRuns, Runs
  <2>2. InLockWait' = InLockWait
    BY <1>1, <2>1 DEF InLockWait, Go
  <2> QED BY <2>1, <2>2 DEF WaitersCounted
<1>4. CASE WaitBlock \/ WaitOver \/ WaitRestore \/ SignalWake
  BY <1>4 DEF WaitBlock, WaitOver, WaitRestore, SignalWake, WaitersCounted, InLockWait,
      mutexVars
<1> QED BY <1>2, <1>3, <1>4, CvNextIsCore

(* The condition variable's goes up when a thread starts to wait and down   *)
(* when it is done.                                                         *)
InCv == {t \in Threads : cv[t] = "restore"} \cup InWait

LEMMA CondCountedStep ==
    ASSUME SchedInv, CvTypes, CondCounted, [CvNext]_cvVars
    PROVE  CondCounted'
<1>1. cur \in Threads /\ cv \in [Threads -> CvPoints] /\ InCv \in SUBSET Threads
  BY CurIsThread DEF CvTypes, InCv, InWait
<1>2. IsFiniteSet(InCv) /\ condCount = Cardinality(InCv)
  BY <1>1, SchedulerAssumption, WaitersFinite DEF CondCounted, InCv
<1>3. ASSUME NEW where, CvGo(where)
      PROVE  /\ where \in Away \cup {"restore"} => InCv' = InCv \cup {cur}
             /\ where \notin Away \cup {"restore"} => InCv' = InCv \ {cur}
  BY <1>1, <1>3 DEF CvGo, InCv, InWait, Away
<1>4. cur \in InCv <=> cv[cur] \in Away \cup {"restore"}
  BY <1>1 DEF InCv, InWait, Away
<1>5. CASE WaitBegin
  <2>1. condCount' = condCount + 1 /\ InCv' = InCv \cup {cur} /\ cur \notin InCv
    BY <1>3, <1>4, <1>5 DEF WaitBegin, CvRuns, Away
  <2> QED BY <1>2, <2>1, FS_AddElement DEF CondCounted, InCv
<1>6. CASE WaitRestore
  <2>1. condCount' = condCount - 1 /\ InCv' = InCv \ {cur} /\ cur \in InCv
    BY <1>3, <1>4, <1>6 DEF WaitRestore, CvRuns, Away
  <2> QED BY <1>2, <2>1, FS_RemoveElement DEF CondCounted, InCv
<1>7. ASSUME condCount' = condCount, InCv' = InCv
      PROVE  CondCounted'
  BY <1>7 DEF CondCounted, InCv
<1>8. CASE WaitBlock \/ WaitOver \/ WaitRelock
  <2>1. cur \in InCv /\ condCount' = condCount
    BY <1>4, <1>8 DEF WaitBlock, WaitOver, WaitRelock, CvRuns, Away
  <2>2. \E where \in Away \cup {"restore"} : CvGo(where)
    BY <1>8 DEF WaitBlock, WaitOver, WaitRelock, Away
  <2> QED BY <1>3, <1>7, <2>1, <2>2
<1>9. CASE SignalWake \/ \E how \in {"signal", "broadcast"} : SignalBegin(how)
  <2>1. cur \notin InCv /\ condCount' = condCount
    BY <1>4, <1>9 DEF SignalBegin, SignalWake, CvRuns, Away
  <2>2. \E where \in CvPoints \ (Away \cup {"restore"}) : CvGo(where)
    BY <1>9 DEF SignalBegin, SignalWake, Away, CvPoints
  <2> QED BY <1>3, <1>7, <2>1, <2>2
<1>10. CASE UNCHANGED condVars
  BY <1>7, <1>10 DEF InCv, InWait, condVars
<1> QED BY <1>5, <1>6, <1>8, <1>9, <1>10 DEF CvNext, CvOn, cvVars

(* No lost wakeup of the mutex: Wait gives it up through Unlock. *)
LEMMA CvStrandedStep ==
    ASSUME SchedInv, Entered, CvStanding, WaitersCounted, NoStrandedWaiter, [CvNext]_cvVars
    PROVE  NoStrandedWaiter'
<1>1. /\ cur \in Threads /\ count \in Nat
      /\ pc \in [Threads -> Standpoints] /\ cv \in [Threads -> CvPoints]
      /\ kept \in [Threads -> 0..MaxDepth]
  BY CurIsThread DEF Entered, CvTypes, MutexTypes
<1>2. LockBlocks
  BY <1>1, MutexAssumption, CondVarAssumption
     DEF CvStanding, CvStands, Stands, LockBlocks, Blocked, MutexAssumption,
         CondVarAssumption
<1>3. CASE CoreStep
  BY <1>1, <1>2, <1>3, StrandedStep
<1>4. CASE WaitBegin
  <2>1. pc'[cur] = "owner"
    BY <1>1, <1>4 DEF WaitBegin, Go
  <2> QED BY <1>1, <2>1 DEF NoStrandedWaiter
<1>5. CASE WaitRestore
  <2>1. count' > 0
    BY <1>1, <1>5 DEF WaitRestore, CvRuns, Entered, Held, Away
  <2> QED BY <2>1 DEF NoStrandedWaiter
<1>6. CASE WaitBlock \/ WaitOver \/ SignalWake
  <2>1. UNCHANGED <<mutexVars, pc>> /\ InLockWait' = InLockWait
    BY <1>6 DEF WaitBlock, WaitOver, SignalWake, InLockWait
  <2>2. pc[cur] = "out"
    BY <1>1, <1>6 DEF WaitBlock, WaitOver, SignalWake, CvRuns, Runs, CvStanding, CvStands
  <2>3. \A t \in InLockWait : state'[t] = state[t] \/ state'[t] = "RUN"
    BY <1>1, <2>2, CvOthersMove DEF InLockWait, Entered
  <2> QED BY <2>1, <2>3, NobodyStranded DEF mutexVars
<1> QED BY <1>3, <1>4, <1>5, <1>6, CvNextIsCore

-----------------------------------------------------------------------------
(* With the mutex free and nobody waiting the invariant holds. *)
LEMMA CvInitInv ==
    ASSUME CvInit
    PROVE  CvInv
<1>1. IInv
  BY InitIInv DEF CvInit
<1>2. CvTypes
  BY <1>1, MutexAssumption DEF CvInit, CvTypes, CvPoints, IInv, Lockable, MutexAssumption
<1>3. CvStanding
  BY <1>1 DEF CvInit, Init, CvStanding, CvStands, IInv, Standing
<1>4. Held
  BY MutexAssumption DEF CvInit, Init, Held, Inside, Away, MutexAssumption
<1>5. CondCounted
  <2>1. {t \in Threads : cv[t] = "restore"} \cup InWait = {}
    BY DEF CvInit, InWait
  <2> QED BY <2>1, FS_EmptySet DEF CvInit, CondCounted
<1> QED BY <1>1, <1>2, <1>3, <1>4, <1>5 DEF CvInv, IInv

(* The invariant all that follows is drawn from: who is inside, what the    *)
(* two counts of waiters are, and that no wakeup of the mutex is lost.      *)
THEOREM CvInvariantHolds == CvSpec => []CvInv
<1>1. CvInit => CvInv
  BY CvInitInv
<1>2. CvInv /\ [CvNext]_cvVars => CvInv'
  <2> SUFFICES ASSUME CvInv, [CvNext]_cvVars PROVE CvInv'
    OBVIOUS
  <2>1. CvStanding'
    BY CvStandsStep DEF CvInv, CvStanding
  <2>2. Entered'
    BY HeldStep DEF CvInv, Entered
  <2> QED BY <2>1, <2>2, CvSchedStep, CvCountedStep, CondCountedStep, CvStrandedStep
          DEF CvInv, Entered
<1> QED BY <1>1, <1>2, PTL DEF CvSpec

(* The mutex, the condition variable and the scheduler under them keep      *)
(* their types: _count stays within the number of threads.                  *)
THEOREM CvTypesHold == CvSpec => []CvTypeOK
<1>1. CvInv => CvTypeOK
  <2> SUFFICES ASSUME CvInv PROVE CvTypeOK
    OBVIOUS
  <2>1. InLockWait \in SUBSET Threads /\ InCv \in SUBSET Threads
    BY DEF InLockWait, InCv, InWait
  <2>2. waiters \in 0..MaxThreads /\ condCount \in 0..MaxThreads
    BY <2>1, SchedulerAssumption, WaitersFinite DEF CvInv, WaitersCounted, CondCounted, InCv
  <2> QED BY <2>2 DEF CvInv, SchedInv, CvTypes, CvPoints, MutexTypes, Standpoints,
              TypeOK, CvTypeOK
<1> QED BY <1>1, CvInvariantHolds, PTL

(* CondVar's _count is the number of threads between the two ends of Wait,  *)
(* which is why Signal and Broadcast may do nothing when it reads zero.     *)
THEOREM CondCountHolds == CvSpec => []CondCounted
<1>1. CvInv => CondCounted
  BY DEF CvInv
<1> QED BY <1>1, CvInvariantHolds, PTL

(* However Wait, Signal and Unlock are preempted, no thread stays blocked   *)
(* on a free mutex without another on its way to take it or to wake it.     *)
THEOREM MonitorLosesNoWakeup == CvSpec => []NoStrandedWaiter
<1>1. CvInv => NoStrandedWaiter
  BY DEF CvInv
<1> QED BY <1>1, CvInvariantHolds, PTL

(* Mutex and condition variable implement a monitor: Wait, though it sets   *)
(* the mutex's count and gives it back by hand, leaves the monitor however  *)
(* often the thread has locked it, and returns alone inside.                *)
THEOREM CondVarImplementsMonitor == CvSpec => ImplementsMonitor
<1>1. CvInit => Abstract!Init
  BY DEF CvInit, Init, Abstract!Init, InWait
<1>2. ASSUME CvInv, [CvNext]_cvVars PROVE [Abstract!Next]_<<depth, InWait>>
  <2>1. PICK me \in Threads : me = cur
    BY <1>2, CurIsThread DEF CvInv
  <2>2. /\ SchedInv /\ Entered /\ CvStanding
        /\ cv \in [Threads -> CvPoints] /\ \A t \in Threads : depth[t] \in Nat
    BY <1>2, CurIsThread DEF CvInv, Entered, CvTypes, MutexTypes
  <2>3. \A t \in Threads : Abstract!Inside(t) = Inside(t)
    BY DEF Abstract!Inside, Inside, InWait, Away
  <2>4. ASSUME NEW n, Acquire(n), Deeper, cv[me] = "none", UNCHANGED condVars
        PROVE  Abstract!Next
    <3>1. \A u \in Threads \ {me} : ~Abstract!Inside(u)
      BY <2>1, <2>2, <2>3, <2>4, CvTakerIsAlone DEF Acquire
    <3>2. me \notin InWait /\ InWait' = InWait /\ depth' = [depth EXCEPT ![me] = @ + 1]
      BY <2>1, <2>4 DEF InWait, condVars, Deeper
    <3> QED BY <3>1, <3>2 DEF Abstract!Lock, Abstract!Next
  <2>5. ASSUME depth' = depth, \A t \in Threads : cv'[t] = cv[t] \/ (cv[t] \in Away) = (cv'[t] \in Away)
        PROVE  UNCHANGED <<depth, InWait>>
    <3>1. InWait' = InWait
      BY <2>5 DEF InWait, Away
    <3> QED BY <2>5, <3>1
  <2>6. \A where : CvGo(where) => /\ \A t \in Threads \ {me} : cv'[t] = cv[t]
                                /\ cv'[me] = where
    BY <2>1, <2>2 DEF CvGo
  <2>7. CASE cv[cur] = "none" /\ (Lock \/ TryLock \/ LockAgain) /\ UNCHANGED condVars
    <3>1. CASE UNCHANGED depth
      BY <2>5, <2>7, <3>1 DEF condVars
    <3>2. CASE Deeper /\ \E n : Acquire(n)
      BY <2>1, <2>4, <2>7, <3>2
    <3> QED BY <2>7, <3>1, <3>2 DEF Lock, TryLock, LockCalled, LockAgain, LockWoken
  <2>8. CASE cv[cur] = "none" /\ Unlock /\ UNCHANGED condVars
    <3>1. Abstract!Inside(me) /\ InWait' = InWait /\ depth' = [depth EXCEPT ![me] = @ - 1]
      BY <2>1, <2>3, <2>8 DEF Unlock, Inside, Away, InWait, condVars
    <3> QED BY <3>1 DEF Abstract!Unlock, Abstract!Next
  <2>9. CASE WaitBegin
    <3>1. Abstract!Inside(me) /\ depth' = depth
      BY <2>1, <2>3, <2>9 DEF WaitBegin, CvRuns, Inside, Away
    <3>2. InWait' = InWait \cup {me}
      BY <2>6, <2>9 DEF WaitBegin, InWait
    <3> QED BY <3>1, <3>2 DEF Abstract!Wait, Abstract!Next
  <2>10. CASE WaitRelock
    <3>1. cur' = cur /\ cv[me] = "relock" /\ depth' = depth
      BY <2>1, <2>10 DEF WaitRelock, LockCalled, LockWoken, Await, Wait, EnterIdle,
          LeaveIdle, schedVars
    <3>2. CASE CvGo("relock")
      BY <2>5, <2>6, <3>1, <3>2
    <3>3. CASE CvGo("restore") /\ \E n : Acquire(n)
      <4>1. \A u \in Threads : ~Abstract!Inside(u)
        BY <2>1, <2>2, <2>3, <3>1, <3>3, CvTakerIsAlone DEF Acquire, Inside, Away
      <4>2. me \in InWait /\ InWait' = InWait \ {me}
        BY <2>6, <3>1, <3>3 DEF InWait
      <4> QED BY <3>1, <4>1, <4>2 DEF Abstract!Return, Abstract!Next
    <3>4. pc \in [Threads -> Standpoints]
      BY <2>2 DEF Entered, CvTypes, MutexTypes
    <3> QED BY <2>1, <2>10, <3>1, <3>2, <3>3, <3>4 DEF WaitRelock, LockCalled, LockWoken,
                Await, Go
  <2>11. CASE WaitBlock \/ WaitOver
    BY <2>1, <2>5, <2>6, <2>11 DEF WaitBlock, WaitOver, CvRuns, Away
  <2>12. CASE WaitRestore \/ SignalWake \/ \E how \in {"signal", "broadcast"} : SignalBegin(how)
    BY <2>1, <2>5, <2>6, <2>12 DEF WaitRestore, SignalWake, SignalBegin, CvRuns, Away, vars
  <2>13. CASE UNCHANGED <<depth, cv>>
    BY <2>5, <2>13
  <2>14. CASE UNCHANGED cvVars
    BY <2>13, <2>14 DEF cvVars, vars, condVars
  <2> QED BY <1>2, <2>7, <2>8, <2>9, <2>10, <2>11, <2>12, <2>13, <2>14
          DEF CvNext, CvOn, Call, UnlockOn, UnlockOwner, UnlockWaiters, UnlockWake, Sleep,
              SleepOver, condVars
<1> QED BY <1>1, <1>2, CvInvariantHolds, PTL DEF CvSpec, ImplementsMonitor, Abstract!Spec

-----------------------------------------------------------------------------
(* The resolver of core/dns.cxx calls the mutex and the condition variable  *)
(* as any code may, so what is proved of them holds in it.                  *)
LEMMA DnsStepIsCvStep ==
    ASSUME [DnsNext]_dnsVars
    PROVE  [CvNext]_cvVars
<1>1. ASSUME NEW from, NEW to, Enter(from, to) PROVE CvNext
  <2>1. Lock /\ cv[cur] = "none" /\ UNCHANGED condVars
    BY <1>1, MutexAssumption DEF Enter, TaskRuns, CvRuns, Lock, MutexAssumption
  <2> QED BY <2>1 DEF CvNext, Call
<1>2. Signal => [CvNext]_cvVars
  BY DEF Signal, CvNext
<1>3. AcquireTakes \/ Leave \/ Pause => CvNext
  BY DEF AcquireTakes, Leave, Pause, TaskRuns, CvRuns, CvNext, Call
<1> QED BY <1>1, <1>2, <1>3 DEF DnsNext, Acquire1, Release1, SetNS1, AcquireWaits,
        ReleaseSignals, SetNSSignals, SetDomain, CvNext, dnsVars

(* The resolver is a monitor: of all the threads that call GetAddrByName,   *)
(* SetNS and SetDomain one at a time is inside.                             *)
THEOREM ResolverIsMonitor == DnsSpec => ImplementsMonitor
<1>1. DnsInit => CvInit
  BY DEF DnsInit
<1>2. [DnsNext]_dnsVars => [CvNext]_cvVars
  BY DnsStepIsCvStep
<1>3. DnsSpec => CvSpec
  BY <1>1, <1>2, PTL DEF DnsSpec, CvSpec
<1> QED BY <1>3, CondVarImplementsMonitor, PTL

(* What a thread does in Dns's code. *)
Tasks == {"out", "acquire", "resolve", "release", "setns", "unlock"}
ResolverInv == SchedInv /\ task \in [Threads -> Tasks] /\ OneResolver

(* Only AcquireTakes makes a thread the resolver, from idle, and only       *)
(* ReleaseSignals makes it idle, by the thread that has it.                 *)
LEMMA ResolverStep ==
    ASSUME ResolverInv, [DnsNext]_dnsVars
    PROVE  ResolverInv'
<1>1. SchedInv'
  BY DnsStepIsCvStep, CvSchedStep DEF ResolverInv
<1> SUFFICES task' \in [Threads -> Tasks] /\ OneResolver'
  BY <1>1 DEF ResolverInv
<1>2. cur \in Threads /\ task \in [Threads -> Tasks] /\ OneResolver
  BY CurIsThread DEF ResolverInv
<1>3. ASSUME NEW where \in Tasks, TaskGo(where)
      PROVE  /\ task' \in [Threads -> Tasks]
             /\ where \in {"resolve", "release"} => Resolving' = Resolving \cup {cur}
             /\ where \notin {"resolve", "release"} => Resolving' = Resolving \ {cur}
  BY <1>2, <1>3 DEF TaskGo, Resolving
<1>4. cur \in Resolving <=> task[cur] \in {"resolve", "release"}
  BY <1>2 DEF Resolving
<1>5. ASSUME task' \in [Threads -> Tasks], Resolving' = Resolving, resolver' = resolver
      PROVE  task' \in [Threads -> Tasks] /\ OneResolver'
  BY <1>2, <1>5 DEF OneResolver
<1>6. CASE Acquire1 \/ Release1 \/ SetNS1
  BY <1>3, <1>4, <1>5, <1>6 DEF Acquire1, Release1, SetNS1, Enter, TaskRuns, Tasks
<1>7. CASE AcquireTakes
  BY <1>2, <1>3, <1>7 DEF AcquireTakes, OneResolver, Tasks
<1>8. CASE ReleaseSignals
  BY <1>2, <1>3, <1>4, <1>8 DEF ReleaseSignals, TaskRuns, OneResolver, Tasks
<1>9. CASE SetNSSignals \/ Leave
  BY <1>3, <1>4, <1>5, <1>9 DEF SetNSSignals, Leave, TaskRuns, Tasks
<1>10. CASE UNCHANGED <<resolver, task>>
  BY <1>2, <1>5, <1>10 DEF Resolving
<1> QED BY <1>6, <1>7, <1>8, <1>9, <1>10 DEF DnsNext, AcquireWaits, SetDomain, Pause,
            dnsVars

(* The one socket of the resolver is used by one thread at a time, and      *)
(* _state tells whether it is, for every number of threads.                 *)
THEOREM ResolverAlone == DnsSpec => []OneResolver
<1>1. DnsInit => ResolverInv
  BY SchedulerAssumption, SettledInv
     DEF DnsInit, CvInit, Init, ResolverInv, Tasks, OneResolver, Resolving
<1>2. ResolverInv /\ [DnsNext]_dnsVars => ResolverInv'
  BY ResolverStep
<1>3. ResolverInv => OneResolver
  BY DEF ResolverInv
<1> QED BY <1>1, <1>2, <1>3, PTL DEF DnsSpec
==============================================================================
