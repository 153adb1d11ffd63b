----------------------------- MODULE ThreadProofs -----------------------------
(***************************************************************************)
(* The scheduler's safety properties hold of the thread API however        *)
(* threads and interrupts use it, for every number of threads, priorities, *)
(* IPLs and every length of quantum and wait.                               *)
(***************************************************************************)
EXTENDS Thread, SchedulerProofs

(* The inductive invariant: the scheduler's, and the number of IPL objects *)
(* on each stack is in its bounds.                                          *)
HeldOK == held \in [Threads -> 0..MaxNesting]
IInv == SchedInv /\ HeldOK

(* Bootstrap establishes the invariant, with no IPL held. *)
LEMMA InitIInv ==
    ASSUME Init
    PROVE  IInv
<1>1. SchedInv
  BY SchedulerAssumption, BootstrapInv DEF Init
<1>2. HeldOK
  BY ThreadAssumption, SchedulerAssumption DEF HeldOK, Init, ThreadAssumption,
      SchedulerAssumption
<1> QED BY <1>1, <1>2 DEF IInv

(* The calls that make a thread runnable or change priorities post a       *)
(* switch, so that whatever they changed is looked at.                      *)
LEMMA CreateKeeps ==
    ASSUME SchedInv, Create
    PROVE  SchedInv'
<1>1. SchedTypeOK /\ pendSV' = TRUE /\ pendCsw' = FALSE
  BY DEF SchedInv, Create, ContextSwitch
<1>2. UNCHANGED <<prio, waitob, cur, clockVars, iplVars, at>>
  BY DEF Create
<1>3. state' \in [Threads -> States]
  BY <1>1 DEF Create, SchedTypeOK, States
<1>4. SchedTypeOK'
  BY <1>1, <1>2, <1>3 DEF SchedTypeOK, States, clockVars, iplVars
<1> QED BY <1>1, <1>4 DEF SchedInv, TimerCoversDeadlines, HigherPriorityPending

(* SetPriority posts a switch as well. *)
LEMMA SetPriorityKeeps ==
    ASSUME SchedInv, NEW p \in 0..MaxPrio, SetPriority(p)
    PROVE  SchedInv'
<1>1. SchedTypeOK /\ pendSV' = TRUE /\ pendCsw' = FALSE
  BY DEF SchedInv, SetPriority, ContextSwitch
<1>2. UNCHANGED <<state, waitob, cur, clockVars, iplVars, at>>
  BY DEF SetPriority
<1>3. prio' \in [Threads -> 0..MaxPrio]
  BY <1>1 DEF SetPriority, SchedTypeOK
<1>4. SchedTypeOK'
  BY <1>1, <1>2, <1>3 DEF SchedTypeOK, clockVars, iplVars
<1> QED BY <1>1, <1>4 DEF SchedInv, TimerCoversDeadlines, HigherPriorityPending

(* IPLs change the count only, and a switch they release stays posted. *)
LEMMA RaiseIPLKeeps ==
    ASSUME IInv, RaiseIPL
    PROVE  IInv'
<1>1. SchedTypeOK /\ HeldOK
  BY DEF IInv, SchedInv
<1>2. UNCHANGED <<state, prio, waitob, cur, clockVars, pendVars, saved, masked, at>>
  BY DEF RaiseIPL
<1>3. iplCount' \in 0..(IplModulus - 1)
  <2>1. iplCount \in Int /\ IplModulus \in Int /\ IplModulus > 0
    BY <1>1, SchedulerAssumption DEF SchedTypeOK, SchedulerAssumption
  <2> QED BY <2>1 DEF RaiseIPL
<1>4. SchedTypeOK'
  BY <1>1, <1>2, <1>3 DEF SchedTypeOK, clockVars, pendVars
<1>5. TimerCoversDeadlines' /\ HigherPriorityPending'
  BY <1>2 DEF IInv, SchedInv, TimerCoversDeadlines, HigherPriorityPending, Outranked,
              clockVars, pendVars
<1>6. HeldOK'
  <2>1. cur \in Threads /\ held[cur] \in 0..MaxNesting /\ MaxNesting \in Int
    BY <1>1, ThreadAssumption, SchedulerAssumption
       DEF HeldOK, SchedTypeOK, ThreadAssumption, SchedulerAssumption
  <2>2. held[cur] + 1 \in 0..MaxNesting
    BY <2>1 DEF RaiseIPL
  <2> QED BY <1>1, <1>2, <2>1, <2>2 DEF RaiseIPL, HeldOK
<1> QED BY <1>4, <1>5, <1>6 DEF IInv, SchedInv

(* An IPL let go carries out the deferred switch or leaves it deferred. *)
LEMMA DropIPLKeeps ==
    ASSUME IInv, DropIPL
    PROVE  IInv'
<1>1. SchedTypeOK /\ HeldOK
  BY DEF IInv, SchedInv
<1>2. UNCHANGED <<state, prio, waitob, cur, clockVars, saved, at>>
  BY DEF DropIPL
<1>3. iplCount' \in 0..(IplModulus - 1)
  <2>1. iplCount \in Int /\ IplModulus \in Int /\ IplModulus > 0
    BY <1>1, SchedulerAssumption DEF SchedTypeOK, SchedulerAssumption
  <2> QED BY <2>1 DEF DropIPL
<1>4. /\ pendSV' \in BOOLEAN /\ pendCsw' \in BOOLEAN
      /\ pendSV \/ pendCsw => pendSV' \/ pendCsw'
  BY <1>1 DEF DropIPL, ContextSwitch, NoSwitch, pendVars, SchedTypeOK
<1>5. masked' \in [Threads -> BOOLEAN]
  BY <1>1 DEF DropIPL, SchedTypeOK
<1>6. SchedTypeOK'
  BY <1>1, <1>2, <1>3, <1>4, <1>5 DEF SchedTypeOK, clockVars
<1>7. TimerCoversDeadlines' /\ HigherPriorityPending'
  BY <1>2, <1>4 DEF IInv, SchedInv, TimerCoversDeadlines, HigherPriorityPending, Outranked,
              clockVars
<1>8. HeldOK'
  <2>1. cur \in Threads /\ held[cur] \in 0..MaxNesting /\ MaxNesting \in Int
    BY <1>1, ThreadAssumption, SchedulerAssumption
       DEF HeldOK, SchedTypeOK, ThreadAssumption, SchedulerAssumption
  <2>2. held[cur] - 1 \in 0..MaxNesting
    BY <2>1 DEF DropIPL
  <2> QED BY <1>1, <1>2, <2>1, <2>2 DEF DropIPL, HeldOK
<1> QED BY <1>6, <1>7, <1>8 DEF IInv, SchedInv

(* A thread that stops makes nothing runnable. *)
LEMMA StopKeeps ==
    ASSUME SchedInv, Stop
    PROVE  SchedInv'
<1>1. SchedTypeOK
  BY DEF SchedInv
<1>2. UNCHANGED <<prio, waitob, cur, clockVars, pendVars, iplVars>>
  BY DEF Stop
<1>3. state' = [state EXCEPT ![cur] = "STOP"] /\ at' = [at EXCEPT ![cur] = "reap"]
  BY DEF Stop
<1>4. SchedTypeOK'
  BY <1>1, <1>2, <1>3 DEF SchedTypeOK, clockVars, pendVars, iplVars
<1>5. \A t \in Threads : /\ state'[t] = "TWAIT" => state[t] = "TWAIT"
                         /\ state'[t] = "RUN" => state[t] = "RUN"
  BY <1>1, <1>3 DEF SchedTypeOK
<1>6. TimerCoversDeadlines' /\ HigherPriorityPending'
  BY <1>2, <1>5 DEF SchedInv, TimerCoversDeadlines, HigherPriorityPending, Outranked,
                    clockVars, pendVars
<1> QED BY <1>4, <1>6 DEF SchedInv

(* Wakes by threads and interrupts. *)
LEMMA WakeKeeps ==
    ASSUME SchedInv, NEW ob, Wake(ob), at' \in [Threads -> Places]
    PROVE  SchedInv'
<1>1. UNCHANGED <<prio, waitob, cur, clockVars, iplVars>>
  BY DEF Wake
<1>2. CASE WakeSingle(ob)
  BY <1>1, <1>2, SchedulerAssumption, WakeSingleKeeps
<1>3. CASE WakeAll(ob)
  BY <1>1, <1>3, SchedulerAssumption, WakeAllKeeps
<1> QED BY <1>2, <1>3 DEF Wake

(* Every step of the thread API keeps the invariant. *)
LEMMA NextIInv ==
    ASSUME IInv, [Next]_vars
    PROVE  IInv'
<1>1. SchedInv /\ SchedTypeOK /\ HeldOK /\ cur \in Threads /\ SchedulerAssumption
  BY SchedulerAssumption DEF IInv, SchedInv, SchedTypeOK
<1>2. UNCHANGED held => HeldOK'
  BY <1>1 DEF HeldOK
<1>3. iplCount \in 0..(IplModulus - 1) /\ at \in [Threads -> Places]
  BY <1>1 DEF SchedTypeOK, Places
<1>4. \A ob \in Awaitable : ob \in Objects \cup Threads \cup {NULL}
  BY DEF Awaitable
<1>5. CASE Create
  BY <1>1, <1>2, <1>5, CreateKeeps DEF IInv, Create
<1>6. ASSUME NEW p \in 0..MaxPrio, SetPriority(p) PROVE IInv'
  BY <1>1, <1>2, <1>6, SetPriorityKeeps DEF IInv, SetPriority
<1>7. ASSUME NEW ob, WaitFor(ob) PROVE IInv'
  BY <1>1, <1>2, <1>3, <1>4, <1>7, WaitKeeps DEF IInv, WaitFor
<1>8. ASSUME NEW ob, NEW d \in 1..MaxDelay, WaitForUntil(ob, d) PROVE IInv'
  <2>1. d \in 0..MaxDelay
    BY SchedulerAssumption DEF SchedulerAssumption
  <2> QED BY <1>1, <1>2, <1>3, <1>4, <1>8, <2>1, TimedWaitKeeps DEF IInv, WaitForUntil
<1>9. ASSUME NEW d \in 1..MaxDelay, Sleep(d) PROVE IInv'
  <2>1. d \in 0..MaxDelay /\ NULL \in Objects \cup Threads \cup {NULL}
    BY SchedulerAssumption DEF SchedulerAssumption
  <2> QED BY <1>1, <1>2, <1>3, <1>9, <2>1, TimedWaitKeeps DEF IInv, Sleep
<1>10. ASSUME NEW ob, ThreadWakes(ob) PROVE IInv'
  BY <1>1, <1>2, <1>3, <1>10, WakeKeeps DEF IInv, ThreadWakes, Wake
<1>11. CASE RaiseIPL
  BY <1>11, RaiseIPLKeeps
<1>12. CASE DropIPL
  BY <1>12, DropIPLKeeps
<1>13. CASE Stop
  BY <1>1, <1>2, <1>13, StopKeeps DEF IInv, Stop
<1>14. CASE Return
  BY <1>1, <1>2, <1>14, LeaveIdleKeeps DEF IInv, Return
<1>15. CASE Idle
  BY <1>1, <1>2, <1>15, WaitForInterruptKeeps, IdleAgainKeeps DEF IInv, Idle
<1>16. CASE ReapWake
  <2>1. at' \in [Threads -> Places]
    BY <1>3, <1>16 DEF ReapWake, Places
  <2> QED BY <1>1, <1>2, <1>16, <2>1, WakeAllKeeps DEF IInv, ReapWake
<1>17. CASE ReapIdle
  <2>1. /\ state \in [Threads -> States] /\ waittime \in [Threads -> 0..MaxDelay]
        /\ waitob' \in [Threads -> Objects \cup Threads \cup {NULL}]
    BY <1>1, <1>17 DEF SchedTypeOK, States, ReapIdle
  <2> QED BY <1>1, <1>2, <1>3, <1>17, <2>1, EnterIdleKeeps DEF IInv, ReapIdle
<1>18. CASE Switch
  BY <1>1, <1>2, <1>18, PendSVKeeps DEF IInv, Switch
<1>19. CASE Timer
  BY <1>1, <1>2, <1>19, SysTickKeeps DEF IInv, Timer
<1>20. CASE Clock
  BY <1>1, <1>2, <1>20, TickKeeps DEF IInv, Clock
<1>21. ASSUME NEW ob, Interrupt(ob) PROVE IInv'
  <2>1. at' \in [Threads -> Places]
    BY <1>3, <1>21 DEF Interrupt, EndWfi, Places
  <2> QED BY <1>1, <1>2, <1>21, <2>1, WakeKeeps DEF IInv, Interrupt, Wake
<1>22. CASE UNCHANGED vars
  BY <1>1, <1>2, <1>22, StutterKeeps DEF IInv, vars
<1>23. CASE Call
  BY <1>5, <1>6, <1>7, <1>8, <1>9, <1>10, <1>11, <1>12, <1>13, <1>23 DEF Call
<1>24. CASE Reap
  BY <1>16, <1>17, <1>24 DEF Reap
<1> QED BY <1>14, <1>15, <1>18, <1>19, <1>20, <1>21, <1>22, <1>23, <1>24 DEF Next

(* The invariant of every behaviour of the thread API. *)
THEOREM InvariantHolds == Spec => []IInv
<1>1. Init => IInv
  BY InitIInv
<1>2. IInv /\ [Next]_vars => IInv'
  BY NextIInv
<1> QED BY <1>1, <1>2, PTL DEF Spec

(* The state of the scheduler keeps its types: in particular the count of  *)
(* nested IPLs stays in its word and the current thread is a thread.        *)
THEOREM TypesHold == Spec => []TypeOK
<1>1. IInv => TypeOK
  BY DEF IInv, SchedInv, HeldOK, TypeOK
<1> QED BY <1>1, InvariantHolds, PTL

(* No timed wait of any thread is ever left without a timer that ends it or *)
(* a pass of Rotate that will set one.                                      *)
THEOREM DeadlinesCovered == Spec => []TimerCoversDeadlines
<1>1. IInv => TimerCoversDeadlines
  BY DEF IInv, SchedInv
<1> QED BY <1>1, InvariantHolds, PTL

(* A runnable thread that outranks the current one always has a context    *)
(* switch pending, whichever call or interrupt made it runnable.            *)
THEOREM HigherPrioritySwitches == Spec => []HigherPriorityPending
<1>1. IInv => HigherPriorityPending
  BY DEF IInv, SchedInv
<1> QED BY <1>1, InvariantHolds, PTL

(* Every context switch is to a runnable thread of the highest priority. *)
THEOREM SwitchesTakeHighest == Spec => SwitchTakesHighest
<1> DEFINE Taken == cur' # cur =>
              /\ state'[cur'] = "RUN"
              /\ \A t \in Threads : state'[t] = "RUN" => prio[t] <= prio[cur']
<1>1. ASSUME IInv, [Next]_vars PROVE [Taken]_vars
  <2> SUFFICES ASSUME cur' # cur
               PROVE  /\ state'[cur'] = "RUN"
                      /\ \A t \in Threads : state'[t] = "RUN" => prio[t] <= prio[cur']
    OBVIOUS
  <2> DEFINE R == Ready(state, waittime)
  <2>1. PendSV
    BY <1>1 DEF Next, Call, Create, SetPriority, WaitFor, WaitForUntil, Sleep, Wait,
        TimedWait,
           EnterIdle, ThreadWakes, Interrupt, Wake, RaiseIPL, DropIPL, Stop, Return, LeaveIdle,
           Idle, WaitForInterrupt, IdleAgain, Reap, ReapWake, ReapIdle, Switch, Timer, SysTick,
           Clock, Tick, vars, schedVars
  <2>2. /\ SchedTypeOK /\ R \in SUBSET Threads /\ Rotated(state, waittime) /\ cur' = Choice(R)
        /\ state \in [Threads -> States] /\ waittime \in [Threads -> 0..MaxDelay]
    BY <1>1, <2>1, ReadyThreads DEF IInv, SchedInv, PendSV, SchedTypeOK, States
  <2>3. Choice(R) \in R /\ \A u \in R : prio[u] <= prio[Choice(R)]
    BY <2>2, SchedulerAssumption, ChoiceIsHighest
  <2>4. {t \in Threads : state'[t] = "RUN"} = R
    BY <2>2, SchedulerAssumption, RotatedKeeps
  <2> QED BY <2>2, <2>3, <2>4
<1> QED BY <1>1, InvariantHolds, PTL DEF Spec, SwitchTakesHighest
==============================================================================
