--------------------------- MODULE EventObjectProofs ---------------------------
(***************************************************************************)
(* An event object keeps its promise, counts its waiters and loses no      *)
(* wakeup for every number of threads, priorities and values, although a   *)
(* thread in Set can be preempted before it tests the count and before it  *)
(* wakes anybody, and interrupts set the event too.                         *)
(***************************************************************************)
EXTENDS EventObject, SchedulerProofs

Standpoints == {"out", "asleep", "wait", "timed", "set", "wake"}

EventTypes ==
    /\ mode \in {"SELF_RESET", "MANUAL_RESET"}
    /\ value \in 0..MaxValue
    /\ pc \in [Threads -> Standpoints]

(* What a thread does shows in its state and in what it waits for. *)
Stands(t) ==
    /\ pc[t] \in {"out", "set", "wake"} => state[t] = "RUN"
    /\ pc[t] = "wait" => state[t] \in {"RUN", "WAIT"} /\ waitob[t] = Ev
    /\ pc[t] = "timed" => state[t] \in {"RUN", "TWAIT"} /\ waitob[t] = Ev
    /\ pc[t] = "asleep" => state[t] \in {"RUN", "TWAIT"} /\ waitob[t] = NULL
Standing == \A t \in Threads : Stands(t)

IInv == SchedInv /\ EventTypes /\ Standing /\ WaitersCounted /\ NoStrandedWaiter

(* The processor is always given to some thread. *)
LEMMA CurIsThread ==
    ASSUME SchedInv, EventTypes
    PROVE  /\ cur \in Threads /\ SchedTypeOK
           /\ state \in [Threads -> States] /\ pc \in [Threads -> Standpoints]
           /\ waitob \in [Threads -> Objects \cup Threads \cup {NULL}]
BY DEF SchedInv, SchedTypeOK, States, EventTypes

(* With the event clear and nobody waiting the invariant holds. *)
LEMMA InitIInv ==
    ASSUME Init
    PROVE  IInv
<1>1. SchedInv
  BY SchedulerAssumption, SettledInv DEF Init
<1>2. EventTypes
  BY EventAssumption DEF EventAssumption, EventTypes, Init, Standpoints
<1>3. Standing
  BY DEF Init, Settled, Standing, Stands
<1>4. WaitersCounted
  <2>1. InWait = {}
    BY DEF Init, InWait, InTimedWait
  <2> QED BY <2>1, FS_EmptySet DEF Init, WaitersCounted
<1>5. NoStrandedWaiter
  BY DEF Init, NoStrandedWaiter
<1> QED BY <1>1, <1>2, <1>3, <1>4, <1>5 DEF IInv

-----------------------------------------------------------------------------
(* The operations of the event. *)

(* WakeSingle or WakeAll: of the threads blocked on the event one or all   *)
(* become runnable, and no other thread's state changes.                    *)
LEMMA WakeWaitersWakes ==
    ASSUME SchedTypeOK, WakeWaiters
    PROVE  /\ \A t \in Threads :
                state'[t] = state[t] \/ (t \in Waiters(Ev) /\ state'[t] = "RUN")
           /\ \/ \A t \in Waiters(Ev) : state'[t] = "RUN"
              \/ mode = "SELF_RESET" /\ \E t \in Waiters(Ev) : state'[t] = "RUN"
<1>1. state \in [Threads -> States] /\ Waiters(Ev) \in SUBSET Threads
  BY DEF SchedTypeOK, States, Waiters
<1>2. CASE mode = "SELF_RESET"
  <2>1. WakeSingle(Ev)
    BY <1>2 DEF WakeWaiters
  <2> QED BY <1>1, <1>2, <2>1, SchedulerAssumption, WakeSingleWakes
<1>3. CASE mode # "SELF_RESET"
  <2>1. WakeAll(Ev)
    BY <1>3 DEF WakeWaiters
  <2> QED BY <1>1, <2>1, WakeAllWakes
<1> QED BY <1>2, <1>3

(* No step moves a thread but the current one, or changes what it waits    *)
(* for: at most it is released from a wait.                                 *)
LEMMA OthersMove ==
    ASSUME SchedInv, EventTypes, [Next]_vars, NEW t \in Threads, t # cur
    PROVE  /\ pc'[t] = pc[t] /\ waitob'[t] = waitob[t]
           /\ state'[t] = state[t] \/ (state[t] \in Blocked /\ state'[t] = "RUN")
<1> DEFINE Kept == /\ pc'[t] = pc[t] /\ waitob'[t] = waitob[t]
                   /\ state'[t] = state[t] \/ (state[t] \in Blocked /\ state'[t] = "RUN")
<1>1. /\ cur \in Threads /\ SchedTypeOK /\ pc \in [Threads -> Standpoints]
      /\ waitob \in [Threads -> Objects \cup Threads \cup {NULL}]
  BY CurIsThread
<1>2. \A where : Go(where) => pc'[t] = pc[t]
  BY <1>1 DEF Go
<1>3. ASSUME NEW n, Await(n) PROVE Kept
  BY <1>1, <1>2, <1>3, WaitBlocks DEF Await, Blocked
<1>4. ASSUME NEW n, NEW d, AwaitUntil(n, d) PROVE Kept
  BY <1>1, <1>2, <1>4, TimedWaitBlocks DEF AwaitUntil, Blocked
<1>5. ASSUME NEW n, Return(n), UNCHANGED schedVars \/ LeaveIdle PROVE Kept
  BY <1>1, <1>2, <1>5 DEF Return, LeaveIdle, schedVars
<1>6. CASE WaitCalled \/ WaitWoken
  BY <1>3, <1>5, <1>6 DEF WaitCalled, WaitWoken
<1>7. ASSUME NEW d \in 0..MaxDelay, TimedWaitCalled(d) PROVE Kept
  BY <1>4, <1>5, <1>7 DEF TimedWaitCalled
<1>8. CASE TimedWaitWoken
  BY <1>4, <1>5, <1>8 DEF TimedWaitWoken
<1>9. ASSUME NEW v \in 0..MaxValue, Set(v) PROVE Kept
  BY <1>2, <1>9 DEF Set, schedVars
<1>10. CASE SetTest
  BY <1>2, <1>10 DEF SetTest, schedVars
<1>11. CASE SetWake
  BY <1>1, <1>2, <1>11, WakeWaitersWakes DEF SetWake, Waiters
<1>12. ASSUME NEW v \in 0..MaxValue, SetByInterrupt(v) PROVE Kept
  <2>1. UNCHANGED <<pc, waitob>>
    BY <1>12 DEF SetByInterrupt
  <2>2. WakeWaiters \/ UNCHANGED state
    BY <1>12 DEF SetByInterrupt
  <2> QED BY <1>1, <2>1, <2>2, WakeWaitersWakes DEF Waiters
<1>13. ASSUME NEW d \in 1..MaxDelay, Sleep(d) PROVE Kept
  BY <1>1, <1>2, <1>13, TimedWaitBlocks DEF Sleep, Blocked
<1>14. CASE SleepOver
  BY <1>1, <1>2, <1>14 DEF SleepOver, LeaveIdle
<1>15. CASE System /\ UNCHANGED <<eventVars, pc>>
  BY <1>1, <1>15, SystemReleases DEF Blocked
<1>16. CASE UNCHANGED vars
  BY <1>16 DEF vars, schedVars
<1> QED BY <1>6, <1>7, <1>8, <1>9, <1>10, <1>11, <1>12, <1>13, <1>14, <1>15, <1>16 DEF Next

-----------------------------------------------------------------------------
(* The scheduler's invariant. *)
LEMMA SchedStep ==
    ASSUME SchedInv, EventTypes, [Next]_vars
    PROVE  SchedInv'
<1> USE SchedulerAssumption
<1>1. /\ Ev \in Objects \cup Threads \cup {NULL} /\ 0 \in 0..(IplModulus - 1)
      /\ \A d \in 1..MaxDelay : d \in 0..MaxDelay
  BY EventAssumption DEF EventAssumption, SchedulerAssumption
<1>2. ASSUME NEW n, Await(n) PROVE SchedInv'
  BY <1>1, <1>2, WaitKeeps DEF Await
<1>3. ASSUME NEW n, NEW d \in 0..MaxDelay, AwaitUntil(n, d) PROVE SchedInv'
  BY <1>1, <1>3, TimedWaitKeeps DEF AwaitUntil
<1>4. CASE WaitCalled \/ WaitWoken
  BY <1>2, <1>4, StutterKeeps, LeaveIdleKeeps DEF WaitCalled, WaitWoken
<1>5. ASSUME NEW d \in 0..MaxDelay, TimedWaitCalled(d) PROVE SchedInv'
  BY <1>3, <1>5, StutterKeeps DEF TimedWaitCalled
<1>6. CASE TimedWaitWoken
  <2>1. waittime[cur] \in 0..MaxDelay
    BY DEF SchedInv, SchedTypeOK
  <2> QED BY <1>3, <1>6, <2>1, LeaveIdleKeeps DEF TimedWaitWoken
<1>7. ASSUME WakeWaiters, at' \in [Threads -> Places],
             UNCHANGED <<prio, waitob, cur, clockVars, iplVars>>
      PROVE  SchedInv'
  BY <1>7, WakeSingleKeeps, WakeAllKeeps DEF WakeWaiters
<1>8. at \in [Threads -> Places]
  BY DEF SchedInv, SchedTypeOK, Places
<1>9. CASE SetWake
  BY <1>7, <1>8, <1>9 DEF SetWake
<1>10. ASSUME NEW v \in 0..MaxValue, SetByInterrupt(v) PROVE SchedInv'
  <2>1. at' \in [Threads -> Places] /\ UNCHANGED <<prio, waitob, cur, clockVars, iplVars>>
    BY <1>8, <1>10 DEF SetByInterrupt, EndWfi, Places
  <2>2. CASE UNCHANGED <<state, pendVars>>
    <3>1. SchedTypeOK'
      BY <2>1, <2>2 DEF SchedInv, SchedTypeOK, Places, clockVars, pendVars, iplVars
    <3>2. TimerCoversDeadlines' /\ HigherPriorityPending'
      BY <2>1, <2>2 DEF SchedInv, TimerCoversDeadlines, HigherPriorityPending, Outranked,
                        clockVars, pendVars
    <3> QED BY <3>1, <3>2 DEF SchedInv
  <2> QED BY <1>7, <1>10, <2>1, <2>2 DEF SetByInterrupt
<1>11. ASSUME NEW d \in 1..MaxDelay, Sleep(d) PROVE SchedInv'
  BY <1>1, <1>11, TimedWaitKeeps DEF Sleep
<1>12. CASE SleepOver
  BY <1>12, LeaveIdleKeeps DEF SleepOver
<1>13. CASE System
  BY <1>13, SystemKeeps
<1>14. CASE UNCHANGED schedVars
  BY <1>14, StutterKeeps
<1> QED BY <1>4, <1>5, <1>6, <1>9, <1>10, <1>11, <1>12, <1>13, <1>14 DEF Next, Set,
            SetTest, vars

(* The types of the event's own state. *)
LEMMA TypesStep ==
    ASSUME SchedInv, EventTypes, [Next]_vars
    PROVE  EventTypes'
<1>1. /\ \A where \in Standpoints : Go(where) => pc' \in [Threads -> Standpoints]
      /\ 0 \in 0..MaxValue
  BY CurIsThread, EventAssumption DEF Go, EventAssumption
<1>2. ASSUME UNCHANGED eventVars, pc' \in [Threads -> Standpoints] PROVE EventTypes'
  BY <1>2 DEF EventTypes, eventVars
<1>3. ASSUME NEW n, Await(n) PROVE EventTypes'
  BY <1>1, <1>3 DEF Await, EventTypes, Standpoints
<1>4. ASSUME NEW n, NEW d, AwaitUntil(n, d) PROVE EventTypes'
  BY <1>1, <1>4 DEF AwaitUntil, EventTypes, Standpoints
<1>5. ASSUME NEW n, Return(n) PROVE EventTypes'
  BY <1>1, <1>5 DEF Return, EventTypes, Standpoints
<1>6. ASSUME NEW v \in 0..MaxValue, Set(v) PROVE EventTypes'
  BY <1>1, <1>6 DEF Set, EventTypes, Standpoints
<1>7. ASSUME NEW v \in 0..MaxValue, SetByInterrupt(v) PROVE EventTypes'
  BY <1>7 DEF SetByInterrupt, EventTypes
<1>8. CASE WaitCalled \/ WaitWoken \/ TimedWaitWoken \/ \E d \in 0..MaxDelay : TimedWaitCalled(d)
  BY <1>3, <1>4, <1>5, <1>8 DEF WaitCalled, WaitWoken, TimedWaitCalled, TimedWaitWoken
<1>9. CASE SetTest \/ SetWake \/ SleepOver \/ \E d \in 1..MaxDelay : Sleep(d)
  BY <1>1, <1>2, <1>9 DEF SetTest, SetWake, Sleep, SleepOver, Standpoints
<1>10. CASE UNCHANGED <<eventVars, pc>>
  BY <1>2, <1>10 DEF EventTypes
<1> QED BY <1>6, <1>7, <1>8, <1>9, <1>10 DEF Next, vars

(* Where a thread stands agrees with its state, through every step: the     *)
(* current thread moves and waits in one.                                   *)
LEMMA StandingStep ==
    ASSUME SchedInv, EventTypes, Standing, [Next]_vars
    PROVE  Standing'
<1>1. \A t \in Threads \ {cur} : Stands(t)'
  BY OthersMove DEF Standing, Stands, Blocked
<1> SUFFICES ASSUME NEW t \in Threads, t = cur PROVE Stands(t)'
  BY <1>1 DEF Standing
<1>2. /\ cur \in Threads /\ SchedTypeOK /\ state \in [Threads -> States]
      /\ waitob \in [Threads -> Objects \cup Threads \cup {NULL}]
      /\ \A where : Go(where) => pc'[t] = where
  BY CurIsThread DEF Go
<1>3. Stands(t)
  BY DEF Standing
<1>4. ASSUME NEW n, Await(n) PROVE Stands(t)'
  BY <1>2, <1>3, <1>4, WaitBlocks DEF Await, Stands
<1>5. ASSUME NEW n, NEW d, AwaitUntil(n, d) PROVE Stands(t)'
  BY <1>2, <1>3, <1>5, TimedWaitBlocks DEF AwaitUntil, Stands
<1>6. ASSUME NEW where \in {"out", "set", "wake"}, Go(where), state'[t] = "RUN" PROVE Stands(t)'
  BY <1>2, <1>3, <1>6 DEF Stands
<1>7. pc[t] \in {"out", "set", "wake"} => state[t] = "RUN"
  BY <1>3 DEF Stands
<1>8. CASE WaitCalled
  BY <1>4, <1>6, <1>7, <1>8 DEF WaitCalled, Return, Runs, schedVars
<1>9. CASE WaitWoken
  BY <1>4, <1>6, <1>9 DEF WaitWoken, Return, Woken, LeaveIdle
<1>10. ASSUME NEW d \in 0..MaxDelay, TimedWaitCalled(d) PROVE Stands(t)'
  BY <1>5, <1>6, <1>7, <1>10 DEF TimedWaitCalled, Return, Runs, schedVars
<1>11. CASE TimedWaitWoken
  BY <1>5, <1>6, <1>11 DEF TimedWaitWoken, Return, Woken, LeaveIdle
<1>12. ASSUME NEW v \in 0..MaxValue, Set(v) PROVE Stands(t)'
  BY <1>6, <1>7, <1>12 DEF Set, Runs, schedVars
<1>13. CASE SetTest
  BY <1>6, <1>7, <1>13 DEF SetTest, Runs, schedVars
<1>14. CASE SetWake
  <2>1. WakeWaiters /\ Go("out") /\ state[t] = "RUN"
    BY <1>7, <1>14 DEF SetWake, Runs
  <2> QED BY <1>2, <1>6, <2>1, WakeWaitersWakes
<1>15. ASSUME NEW v \in 0..MaxValue, SetByInterrupt(v) PROVE Stands(t)'
  <2>1. UNCHANGED <<pc, waitob>> /\ (WakeWaiters \/ state' = state)
    BY <1>15 DEF SetByInterrupt
  <2>2. state'[t] = state[t] \/ state'[t] = "RUN"
    BY <1>2, <2>1, WakeWaitersWakes
  <2> QED BY <1>2, <1>3, <2>1, <2>2 DEF Stands
<1>16. ASSUME NEW d \in 1..MaxDelay, Sleep(d) PROVE Stands(t)'
  <2>1. TimedWait(NULL, d, 0) /\ Go("asleep")
    BY <1>16 DEF Sleep
  <2>2. state'[t] \in {"TWAIT", "RUN"} /\ waitob'[t] = NULL
    BY <1>2, <2>1, TimedWaitBlocks
  <2> QED BY <1>2, <1>3, <2>1, <2>2 DEF Stands
<1>17. CASE SleepOver
  BY <1>6, <1>17 DEF SleepOver, Woken, LeaveIdle
<1>18. CASE System /\ UNCHANGED <<eventVars, pc>>
  BY <1>2, <1>3, <1>18, SystemReleases DEF Stands
<1>19. CASE UNCHANGED vars
  BY <1>2, <1>3, <1>19 DEF Stands, vars, schedVars
<1> QED BY <1>8, <1>9, <1>10, <1>11, <1>12, <1>13, <1>14, <1>15, <1>16, <1>17, <1>18,
            <1>19 DEF Next

-----------------------------------------------------------------------------
(* The count of waiters, and the threads in a wait. *)
Waitpoints == {"wait", "timed"}

(* The current thread may enter a wait or leave one. *)
LEMMA WaitMoves ==
    ASSUME SchedInv, EventTypes, NEW where \in Standpoints, Go(where)
    PROVE  InWait' = IF where \in Waitpoints THEN InWait \cup {cur} ELSE InWait \ {cur}
BY CurIsThread DEF Go, InWait, InTimedWait, Waitpoints

(* _count goes up with each thread that starts a wait and down with each    *)
(* that comes back, whether it then returns or waits again.                 *)
LEMMA CountedStep ==
    ASSUME SchedInv, EventTypes, WaitersCounted, [Next]_vars
    PROVE  WaitersCounted'
<1>1. cur \in Threads /\ (cur \in InWait <=> pc[cur] \in Waitpoints)
  BY CurIsThread DEF InWait, InTimedWait, Waitpoints
<1>2. IsFiniteSet(InWait) /\ evCount = Cardinality(InWait) /\ evCount \in Nat
  BY SchedulerAssumption, WaitersFinite DEF InWait, InTimedWait, WaitersCounted,
      SchedulerAssumption
<1>3. /\ cur \notin InWait => Cardinality(InWait \cup {cur}) = evCount + 1
      /\ cur \in InWait => Cardinality(InWait \ {cur}) = evCount - 1
  BY <1>2, FS_AddElement, FS_RemoveElement
<1>4. /\ cur \in InWait => InWait \cup {cur} = InWait
      /\ cur \notin InWait => InWait \ {cur} = InWait
  OBVIOUS
<1>5. ASSUME NEW where \in Standpoints \ Waitpoints, Go(where), cur \notin InWait, evCount' = evCount
      PROVE  WaitersCounted'
  BY <1>2, <1>4, <1>5, WaitMoves DEF WaitersCounted
<1>6. ASSUME NEW where \in Waitpoints, Go(where),
             evCount' = IF cur \in InWait THEN evCount ELSE evCount + 1
      PROVE  WaitersCounted'
  BY <1>2, <1>3, <1>4, <1>6, WaitMoves DEF WaitersCounted, Standpoints, Waitpoints
<1>7. ASSUME cur \in InWait, Return(evCount - 1) PROVE WaitersCounted'
  BY <1>3, <1>7, WaitMoves DEF WaitersCounted, Return, Standpoints, Waitpoints
<1>8. CASE WaitCalled
  <2>1. cur \notin InWait
    BY <1>1, <1>8 DEF WaitCalled, Runs, Waitpoints
  <2> QED BY <1>5, <1>6, <1>8, <2>1 DEF WaitCalled, Return, Await, Standpoints, Waitpoints
<1>9. CASE WaitWoken
  <2>1. cur \in InWait /\ evCount - 1 + 1 = evCount
    BY <1>1, <1>2, <1>9 DEF WaitWoken, Waitpoints
  <2> QED BY <1>6, <1>7, <1>9, <2>1 DEF WaitWoken, Await, Waitpoints
<1>10. ASSUME NEW d \in 0..MaxDelay, TimedWaitCalled(d) PROVE WaitersCounted'
  <2>1. cur \notin InWait
    BY <1>1, <1>10 DEF TimedWaitCalled, Runs, Waitpoints
  <2> QED BY <1>5, <1>6, <1>10, <2>1 DEF TimedWaitCalled, Return, AwaitUntil,
              Standpoints, Waitpoints
<1>11. CASE TimedWaitWoken
  <2>1. cur \in InWait /\ evCount - 1 + 1 = evCount
    BY <1>1, <1>2, <1>11 DEF TimedWaitWoken, Waitpoints
  <2> QED BY <1>6, <1>7, <1>11, <2>1 DEF TimedWaitWoken, AwaitUntil, Waitpoints
<1>12. CASE SetTest \/ SetWake \/ SleepOver \/ (\E v \in 0..MaxValue : Set(v))
                    \/ (\E d \in 1..MaxDelay : Sleep(d))
  <2>1. evCount' = evCount /\ pc[cur] \notin Waitpoints
        /\ \E where \in Standpoints \ Waitpoints : Go(where)
    BY <1>12 DEF SetTest, SetWake, Set, Sleep, SleepOver, Runs, eventVars, Standpoints,
        Waitpoints
  <2> QED BY <1>1, <1>5, <2>1
<1>13. CASE UNCHANGED <<evCount, pc>>
  BY <1>13 DEF WaitersCounted, InWait, InTimedWait
<1> QED BY <1>8, <1>9, <1>10, <1>11, <1>12, <1>13 DEF Next, SetByInterrupt, eventVars, vars

-----------------------------------------------------------------------------
(* No lost wakeup.  A step that changes neither the value nor who is in a  *)
(* wait or in Set, and blocks nobody, strands nobody.                       *)
LEMMA NobodyStranded ==
    ASSUME NoStrandedWaiter, UNCHANGED <<value, mode>>, InWait' = InWait,
           \A t \in InWait : state'[t] = state[t] \/ state'[t] = "RUN",
           \A t \in Threads : pc[t] \in {"set", "wake"} => pc'[t] = pc[t]
    PROVE  NoStrandedWaiter'
<1>1. BlockedWaiter' => BlockedWaiter
  BY DEF BlockedWaiter, Blocked
<1>2. Setting => Setting'
  BY DEF Setting
<1> QED BY <1>1, <1>2 DEF NoStrandedWaiter

(* The wakeup is enough: with a reset one waiter that runs will take the    *)
(* value, without one all of them run.                                      *)
LEMMA WakeWaitersSaves ==
    ASSUME SchedInv, EventTypes, Standing, WakeWaiters, UNCHANGED mode, InWait' = InWait
    PROVE  NoStrandedWaiter'
<1>1. SchedTypeOK /\ InWait \in SUBSET Threads
  BY DEF SchedInv, InWait, InTimedWait
<1>2. \A t \in InWait : state[t] \in Blocked => t \in Waiters(Ev)
  BY DEF InWait, InTimedWait, Standing, Stands, Waiters
<1>3. \A t \in Waiters(Ev) : t \in InWait
  BY EventAssumption
     DEF EventAssumption, EventTypes, Standpoints, InWait, InTimedWait, Standing, Stands,
         Waiters, Blocked
<1>4. CASE \A t \in Waiters(Ev) : state'[t] = "RUN"
  <2>1. \A t \in InWait : state'[t] \notin Blocked
    BY <1>1, <1>2, <1>4, WakeWaitersWakes DEF Blocked
  <2> QED BY <2>1 DEF NoStrandedWaiter, BlockedWaiter
<1>5. CASE mode = "SELF_RESET" /\ \E t \in Waiters(Ev) : state'[t] = "RUN"
  BY <1>3, <1>5 DEF NoStrandedWaiter
<1> QED BY <1>1, <1>4, <1>5, WakeWaitersWakes

(* Nobody is stranded where nobody waits. *)
LEMMA NobodyWaits ==
    ASSUME WaitersCounted, evCount = 0
    PROVE  InWait = {}
<1>1. InWait \in SUBSET Threads
  BY DEF InWait, InTimedWait
<1> QED BY <1>1, SchedulerAssumption, WaitersFinite, FS_EmptySet DEF WaitersCounted

(* No step leaves a waiter stranded. *)
LEMMA StrandedStep ==
    ASSUME IInv, [Next]_vars
    PROVE  NoStrandedWaiter'
<1>1. /\ SchedInv /\ EventTypes /\ Standing /\ WaitersCounted /\ NoStrandedWaiter
      /\ cur \in Threads /\ pc \in [Threads -> Standpoints]
  BY CurIsThread DEF IInv
<1>2. \A where \in Standpoints : Go(where) =>
        pc'[cur] = where /\ \A t \in Threads \ {cur} : pc'[t] = pc[t]
  BY <1>1 DEF Go
<1>3. value' = 0 => NoStrandedWaiter'
  BY DEF NoStrandedWaiter
<1>4. \A t \in Threads \ {cur} : state'[t] = state[t] \/ state'[t] = "RUN"
  BY <1>1, OthersMove
<1>5. ASSUME NEW where \in Standpoints \ Waitpoints, Go(where), pc[cur] \in Standpoints \ Waitpoints,
             pc[cur] \notin {"set", "wake"}, UNCHANGED <<value, mode>>
      PROVE  NoStrandedWaiter'
  <2>1. cur \notin InWait /\ InWait' = InWait /\ InWait \in SUBSET Threads
    BY <1>1, <1>5, WaitMoves DEF InWait, InTimedWait, Waitpoints
  <2> QED BY <1>1, <1>2, <1>4, <1>5, <2>1, NobodyStranded
<1>6. ASSUME NEW n, Return(n), pc[cur] \notin {"set", "wake"} PROVE NoStrandedWaiter'
  <2>1. CASE mode = "SELF_RESET"
    BY <1>3, <1>6, <2>1 DEF Return
  <2>2. CASE mode # "SELF_RESET" /\ value # 0
    <3>1. UNCHANGED <<mode, value>> /\ InWait' = InWait \ {cur}
      BY <1>1, <1>6, <2>2, WaitMoves DEF Return, Standpoints, Waitpoints
    <3>2. BlockedWaiter' => BlockedWaiter
      BY <1>4, <3>1 DEF BlockedWaiter, Blocked, InWait, InTimedWait
    <3>3. Setting => Setting'
      BY <1>2, <1>6 DEF Setting, Return, Standpoints
    <3> QED BY <1>1, <2>2, <3>1, <3>2, <3>3 DEF NoStrandedWaiter
  <2>3. CASE mode # "SELF_RESET" /\ value = 0
    BY <1>3, <1>6, <2>3 DEF Return
  <2> QED BY <2>1, <2>2, <2>3
<1>7. ASSUME NEW n, Await(n) PROVE NoStrandedWaiter'
  BY <1>3, <1>7 DEF Await
<1>8. ASSUME NEW n, NEW d, AwaitUntil(n, d) PROVE NoStrandedWaiter'
  BY <1>3, <1>8 DEF AwaitUntil
<1>9. CASE WaitCalled \/ WaitWoken \/ TimedWaitWoken \/ \E d \in 0..MaxDelay : TimedWaitCalled(d)
  BY <1>6, <1>7, <1>8, <1>9 DEF WaitCalled, WaitWoken, TimedWaitCalled, TimedWaitWoken, Runs
<1>10. ASSUME NEW v \in 0..MaxValue, Set(v) PROVE NoStrandedWaiter'
  <2>1. CASE Changes(v)
    <3>1. pc'[cur] = "set"
      BY <1>2, <1>10, <2>1 DEF Set, Standpoints
    <3> QED BY <1>1, <1>10, <3>1 DEF NoStrandedWaiter, Setting, Set, schedVars
  <2>2. CASE ~Changes(v)
    <3>1. v = 0 \/ UNCHANGED <<value, mode>>
      BY <1>10, <2>2 DEF Set, Changes
    <3>2. Go("out") /\ pc[cur] = "out" /\ value' = v
      BY <1>10, <2>2 DEF Set, Runs
    <3> QED BY <1>3, <1>5, <3>1, <3>2 DEF Standpoints, Waitpoints
  <2> QED BY <2>1, <2>2
<1>11. CASE SetTest
  <2>1. CASE evCount # 0
    <3>1. pc'[cur] = "wake" /\ cur' = cur
      BY <1>2, <1>11, <2>1 DEF SetTest, Standpoints, schedVars
    <3> QED BY <1>1, <3>1 DEF NoStrandedWaiter, Setting
  <2>2. CASE evCount = 0
    <3>1. InWait' = {}
      BY <1>1, <1>11, <2>2, NobodyWaits, WaitMoves DEF SetTest, Standpoints, Waitpoints
    <3> QED BY <3>1 DEF NoStrandedWaiter, BlockedWaiter
  <2> QED BY <2>1, <2>2
<1>12. CASE SetWake
  <2>1. WakeWaiters /\ UNCHANGED mode /\ Go("out") /\ pc[cur] = "wake"
    BY <1>12 DEF SetWake, Runs, eventVars
  <2>2. InWait' = InWait
    BY <1>1, <2>1, WaitMoves DEF InWait, InTimedWait, Standpoints, Waitpoints
  <2> QED BY <1>1, <2>1, <2>2, WakeWaitersSaves
<1>13. ASSUME NEW v \in 0..MaxValue, SetByInterrupt(v) PROVE NoStrandedWaiter'
  <2>1. UNCHANGED <<mode, evCount, pc>> /\ value' = v /\ InWait' = InWait
    BY <1>13 DEF SetByInterrupt, InWait, InTimedWait
  <2>2. CASE Changes(v) /\ evCount # 0
    BY <1>1, <1>13, <2>1, <2>2, WakeWaitersSaves DEF SetByInterrupt
  <2>3. CASE evCount = 0
    BY <1>1, <2>1, <2>3, NobodyWaits DEF NoStrandedWaiter, BlockedWaiter
  <2>4. CASE ~Changes(v)
    <3>1. v = 0 \/ value' = value
      BY <2>1, <2>4 DEF Changes
    <3>2. state' = state
      BY <1>13, <2>4 DEF SetByInterrupt
    <3> QED BY <1>1, <1>3, <2>1, <3>1, <3>2, NobodyStranded
  <2> QED BY <2>2, <2>3, <2>4
<1>14. CASE SleepOver \/ \E d \in 1..MaxDelay : Sleep(d)
  BY <1>5, <1>14 DEF Sleep, SleepOver, Runs, eventVars, Standpoints, Waitpoints
<1>15. CASE System /\ UNCHANGED <<eventVars, pc>>
  <2>1. UNCHANGED <<value, mode, pc>> /\ InWait' = InWait /\ InWait \in SUBSET Threads
    BY <1>15 DEF eventVars, InWait, InTimedWait
  <2>2. \A t \in Threads : state'[t] = state[t] \/ state'[t] = "RUN"
    BY <1>1, <1>15, SystemReleases DEF SchedInv
  <2> QED BY <1>1, <2>1, <2>2, NobodyStranded
<1>16. CASE UNCHANGED vars
  BY <1>1, <1>16, NobodyStranded DEF vars, eventVars, schedVars, InWait, InTimedWait
<1> QED BY <1>9, <1>10, <1>11, <1>12, <1>13, <1>14, <1>15, <1>16 DEF Next

-----------------------------------------------------------------------------
(* The invariant all that follows is drawn from: the scheduler's, and the   *)
(* event's count and wakeups.                                               *)
THEOREM InvariantHolds == Spec => []IInv
<1>1. Init => IInv
  BY InitIInv
<1>2. IInv /\ [Next]_vars => IInv'
  BY SchedStep, TypesStep, StandingStep, CountedStep, StrandedStep DEF IInv
<1> QED BY <1>1, <1>2, PTL DEF Spec

(* The event and the scheduler under it keep their types: the counter stays *)
(* within the number of threads.                                            *)
THEOREM TypesHold == Spec => []TypeOK
<1>1. IInv => TypeOK
  <2> SUFFICES ASSUME IInv PROVE TypeOK
    OBVIOUS
  <2>1. InWait \in SUBSET Threads
    BY DEF InWait, InTimedWait
  <2>2. evCount \in 0..MaxThreads
    BY <2>1, SchedulerAssumption, WaitersFinite DEF IInv, WaitersCounted
  <2> QED BY <2>2 DEF IInv, SchedInv, EventTypes, Standpoints, TypeOK
<1> QED BY <1>1, InvariantHolds, PTL

(* _count is the number of threads in Wait, timed or not, woken or not,     *)
(* which is why Set may skip the wakeup when it reads zero.                 *)
THEOREM WaitersHold == Spec => []WaitersCounted
<1>1. IInv => WaitersCounted
  BY DEF IInv
<1> QED BY <1>1, InvariantHolds, PTL

(* However a thread in Set is preempted, and whatever interrupts set, no    *)
(* thread stays blocked on a value that nobody is on its way to take or to  *)
(* announce.                                                                *)
THEOREM NoLostWakeup == Spec => []NoStrandedWaiter
<1>1. IInv => NoStrandedWaiter
  BY DEF IInv
<1> QED BY <1>1, InvariantHolds, PTL

(* EventObject implements an event: a wait returns on a value that nobody   *)
(* has cleared, or times out on zero.                                       *)
THEOREM EventObjectImplementsEvent == Spec => ImplementsEvent
<1> DEFINE Quiet == UNCHANGED <<mode, value, InWait, InTimedWait>>
           Moves == Promise!Next \/ Quiet
<1>1. Init => Promise!Init
  BY DEF Init, Promise!Init, InWait, InTimedWait
<1>2. ASSUME IInv, [Next]_vars PROVE Moves
  <2>1. cur \in Threads /\ EventTypes /\ pc \in [Threads -> Standpoints]
    BY <1>2, CurIsThread DEF IInv
  <2>2. ASSUME NEW where \in Standpoints, Go(where)
        PROVE  /\ InWait' = IF where \in Waitpoints THEN InWait \cup {cur} ELSE InWait \ {cur}
               /\ InTimedWait' = IF where = "timed" THEN InTimedWait \cup {cur} ELSE InTimedWait \ {cur}
    BY <2>1, <2>2 DEF Go, InWait, InTimedWait, Waitpoints
  <2>3. /\ cur \in InWait <=> pc[cur] \in Waitpoints
        /\ cur \in InTimedWait <=> pc[cur] = "timed"
    BY <2>1 DEF InWait, InTimedWait, Waitpoints
  <2>4. ASSUME NEW n, Return(n), value # 0 PROVE Promise!Next
    <3>1. Promise!Return(cur) /\ UNCHANGED mode
      BY <2>2, <2>4 DEF Return, Promise!Return, Promise!Cleared, Standpoints, Waitpoints
    <3> QED BY <2>1, <3>1 DEF Promise!Next
  <2>5. ASSUME NEW where \in Standpoints, Go(where), UNCHANGED <<mode, value>>,
               where \in Waitpoints <=> pc[cur] \in Waitpoints,
               where = "timed" <=> pc[cur] = "timed"
        PROVE  Quiet
    BY <2>2, <2>3, <2>5
  <2>6. ASSUME NEW where \in Waitpoints, Go(where), UNCHANGED <<mode, value>>, value = 0,
               pc[cur] = "out"
        PROVE  Promise!Next
    <3>1. /\ cur \notin InWait /\ InWait' = InWait \cup {cur}
          /\ InTimedWait' \in {InTimedWait, InTimedWait \cup {cur}}
      BY <2>2, <2>3, <2>6 DEF Standpoints, Waitpoints
    <3>2. Promise!Wait(cur)
      BY <2>6, <3>1 DEF Promise!Wait
    <3> QED BY <2>1, <2>6, <3>2 DEF Promise!Next
  <2>7. CASE WaitCalled
    BY <2>4, <2>6, <2>7 DEF WaitCalled, Await, Runs, Waitpoints
  <2>8. CASE WaitWoken
    BY <2>4, <2>5, <2>8 DEF WaitWoken, Await, Standpoints, Waitpoints
  <2>9. ASSUME NEW d \in 0..MaxDelay, TimedWaitCalled(d) PROVE Moves
    <3>1. CASE value # 0
      BY <2>4, <2>9, <3>1 DEF TimedWaitCalled, AwaitUntil
    <3>2. CASE value = 0 /\ Return(evCount)
      BY <2>5, <2>9, <3>2 DEF TimedWaitCalled, Return, Runs, Standpoints, Waitpoints
    <3>3. CASE AwaitUntil(evCount, d)
      BY <2>6, <2>9, <3>3 DEF TimedWaitCalled, AwaitUntil, Runs, Waitpoints
    <3> QED BY <2>9, <3>1, <3>2, <3>3 DEF TimedWaitCalled
  <2>10. CASE TimedWaitWoken
    <3>1. CASE value # 0
      BY <2>4, <2>10, <3>1 DEF TimedWaitWoken, AwaitUntil
    <3>2. CASE value = 0 /\ Return(evCount - 1)
      <4>1. Promise!TimeOut(cur) /\ UNCHANGED mode
        BY <2>2, <2>3, <2>10, <3>2
           DEF TimedWaitWoken, Return, Promise!TimeOut, Standpoints, Waitpoints
      <4> QED BY <2>1, <4>1 DEF Promise!Next
    <3>3. CASE AwaitUntil(evCount - 1, waittime[cur])
      BY <2>5, <2>10, <3>3 DEF TimedWaitWoken, AwaitUntil, Standpoints, Waitpoints
    <3> QED BY <2>10, <3>1, <3>2, <3>3 DEF TimedWaitWoken
  <2>11. ASSUME NEW v \in 0..MaxValue, Set(v) \/ SetByInterrupt(v) PROVE Promise!Next
    <3>1. value' = v /\ UNCHANGED mode
      BY <2>11 DEF Set, SetByInterrupt
    <3>2. UNCHANGED <<InWait, InTimedWait>>
      <4>1. CASE Set(v)
        BY <2>2, <2>3, <4>1 DEF Set, Runs, Standpoints, Waitpoints
      <4>2. CASE SetByInterrupt(v)
        BY <4>2 DEF SetByInterrupt, InWait, InTimedWait
      <4> QED BY <2>11, <4>1, <4>2
    <3> QED BY <3>1, <3>2 DEF Promise!Next, Promise!Set
  <2>12. CASE SetTest \/ SetWake \/ SleepOver \/ \E d \in 1..MaxDelay : Sleep(d)
    <3>1. UNCHANGED <<mode, value>> /\ pc[cur] \notin Waitpoints
          /\ \E where \in Standpoints \ Waitpoints : Go(where)
      BY <2>12 DEF SetTest, SetWake, Sleep, SleepOver, Runs, eventVars, Standpoints,
          Waitpoints
    <3> QED BY <2>5, <3>1 DEF Waitpoints
  <2>13. CASE UNCHANGED <<eventVars, pc>>
    BY <2>13 DEF eventVars, InWait, InTimedWait
  <2> QED BY <1>2, <2>7, <2>8, <2>9, <2>10, <2>11, <2>12, <2>13 DEF Next, vars
<1>3. Quiet => UNCHANGED <<mode = "SELF_RESET", value, InWait, InTimedWait>>
  OBVIOUS
<1> QED BY <1>1, <1>2, <1>3, InvariantHolds, PTL DEF Spec, ImplementsEvent, Promise!Spec
================================================================================
