-------------------------------- MODULE Thread --------------------------------
(***************************************************************************)
(* The thread API of core/thread.h, used by threads and interrupt handlers *)
(* that may call anything the interface lets them call: threads come and   *)
(* go, change priority, sleep, wait for objects and for each other, wake   *)
(* each other and hold IPLs, while interrupts wake threads and the timer   *)
(* and the clock run.                                                       *)
(***************************************************************************)
EXTENDS Scheduler

CONSTANT MaxNesting     \* bound on the IPL objects a thread has on its stack

ASSUME ThreadAssumption == MaxNesting \in 0..(IplModulus - 1)

VARIABLE held           \* the IPL objects on each thread's stack

vars == <<schedVars, held>>

TypeOK == SchedTypeOK /\ held \in [Threads -> 0..MaxNesting]

Init == Bootstrap /\ held = [t \in Threads |-> 0]

(* Thread::Create.  The context is zeroed, so its priority is the lowest. *)
Create ==
    /\ InCode
    /\ \E t \in Threads :
        /\ state[t] = "FREE"
        /\ \A u \in Threads : u < t => state[u] # "FREE"
        /\ state' = [state EXCEPT ![t] = "RUN"]
    /\ ContextSwitch
    /\ UNCHANGED <<prio, waitob, cur, clockVars, iplVars, at, held>>

SetPriority(p) ==
    /\ InCode
    /\ prio' = [prio EXCEPT ![cur] = p]
    /\ ContextSwitch
    /\ UNCHANGED <<state, waitob, cur, clockVars, iplVars, at, held>>

(* Waiting for a thread is only of use while it has not stopped. *)
Awaitable == Objects \cup {t \in Threads \ {cur} : state[t] \notin {"FREE", "STOP"}}

WaitFor(ob) ==
    /\ InCode
    /\ ob \in Awaitable
    /\ Wait(ob, iplCount)
    /\ UNCHANGED held

WaitForUntil(ob, d) ==
    /\ InCode
    /\ ob \in Awaitable
    /\ TimedWait(ob, d, iplCount)
    /\ UNCHANGED held

Sleep(d) ==
    /\ InCode
    /\ TimedWait(NULL, d, iplCount)
    /\ UNCHANGED held

(* Idle's caller is WaitFor or Sleep, which return. *)
Return ==
    /\ Woken
    /\ LeaveIdle
    /\ UNCHANGED held

Idle ==
    /\ \/ WaitForInterrupt
       \/ IdleAgain
    /\ UNCHANGED held

(* A thread or an interrupt handler wakes the waiters of an object. *)
Wake(ob) ==
    /\ WakeSingle(ob) \/ WakeAll(ob)
    /\ UNCHANGED <<prio, waitob, cur, clockVars, iplVars, held>>

ThreadWakes(ob) == InCode /\ Wake(ob) /\ UNCHANGED at
Interrupt(ob) == IntEnabled /\ Wake(ob) /\ EndWfi

-----------------------------------------------------------------------------
(* IPL::IPL and IPL::~IPL.  BASEPRI is 0 outside of any IPL and min() keeps *)
(* it there, so an IPL masks nothing: all it does is count.                 *)
RaiseIPL ==
    /\ InCode
    /\ held[cur] < MaxNesting
    /\ held' = [held EXCEPT ![cur] = @ + 1]
    /\ iplCount' = (iplCount + 1) % IplModulus
    /\ UNCHANGED <<state, prio, waitob, cur, clockVars, pendVars, saved, masked, at>>

(* The destructor calls ContextSwitch with interrupts enabled, and         *)
(* ContextSwitch leaves them disabled.                                      *)
SwitchDue == iplCount' = 0 /\ pendCsw

DropIPL ==
    /\ InCode
    /\ held[cur] > 0
    /\ held' = [held EXCEPT ![cur] = @ - 1]
    /\ iplCount' = (iplCount + IplModulus - 1) % IplModulus
    /\ IF SwitchDue
       THEN ContextSwitch /\ masked' = [masked EXCEPT ![cur] = TRUE]
       ELSE NoSwitch /\ UNCHANGED masked
    /\ UNCHANGED <<state, prio, waitob, cur, clockVars, saved, at>>

-----------------------------------------------------------------------------
(* A thread's function returns into Thread::Reap. *)
Stop ==
    /\ InCode
    /\ cur # Main
    /\ held[cur] = 0
    /\ state' = [state EXCEPT ![cur] = "STOP"]
    /\ at' = [at EXCEPT ![cur] = "reap"]
    /\ UNCHANGED <<prio, waitob, cur, clockVars, pendVars, iplVars, held>>

ReapWake ==
    /\ InIdle("reap")
    /\ WakeAll(cur)
    /\ at' = [at EXCEPT ![cur] = "reaped"]
    /\ UNCHANGED <<prio, waitob, cur, clockVars, iplVars, held>>

ReapIdle ==
    /\ InIdle("reaped")
    /\ EnterIdle(state, waittime, iplCount)
    /\ UNCHANGED <<waitob, held>>

Reap == ReapWake \/ ReapIdle

-----------------------------------------------------------------------------
Switch == PendSV /\ UNCHANGED held
Timer == SysTick /\ UNCHANGED held
Clock == Tick /\ UNCHANGED held

Call ==
    \/ Create
    \/ \E p \in 0..MaxPrio : SetPriority(p)
    \/ \E ob \in Objects \cup Threads : WaitFor(ob)
    \/ \E ob \in Objects \cup Threads, d \in 1..MaxDelay : WaitForUntil(ob, d)
    \/ \E d \in 1..MaxDelay : Sleep(d)
    \/ \E ob \in Objects : ThreadWakes(ob)
    \/ RaiseIPL
    \/ DropIPL
    \/ Stop

Next ==
    \/ Call
    \/ Return
    \/ Idle
    \/ Reap
    \/ Switch
    \/ Timer
    \/ Clock
    \/ \E ob \in Objects : Interrupt(ob)

Spec == Init /\ [][Next]_vars

(* The hardware takes what is pending and time passes; the scheduler's own *)
(* code runs on.  Nothing is assumed of the threads: a thread may compute  *)
(* for ever and an object may never be signalled.                           *)
Fairness ==
    /\ WF_vars(Clock)
    /\ WF_vars(Timer /\ timer = 0)
    /\ WF_vars(Switch)
    /\ WF_vars(Return)
    /\ WF_vars(Idle)
    /\ WF_vars(Reap)

FairSpec == Spec /\ Fairness

-----------------------------------------------------------------------------
(* Whatever made Rotate switch, it switches to a runnable thread that no   *)
(* runnable thread outranks.                                                *)
SwitchTakesHighest ==
    [][cur' # cur =>
        /\ state'[cur'] = "RUN"
        /\ \A t \in Threads : state'[t] = "RUN" => prio[t] <= prio[cur']]_vars

(* A timed wait ends, whatever else the system does. *)
TimedWaitEnds == \A t \in Threads : state[t] = "TWAIT" ~> state[t] # "TWAIT"

(* A runnable thread of the one highest priority gets to run its own code, *)
(* or is outranked or ranked with before it does.                           *)
SoleHighest(t) ==
    /\ state[t] = "RUN"
    /\ \A u \in Threads \ {t} : state[u] = "RUN" => prio[u] < prio[t]
HighestRuns ==
    \A t \in Threads : SoleHighest(t) ~> (~SoleHighest(t) \/ (cur = t /\ at[t] = "code"))
-----------------------------------------------------------------------------
(* What the README says, and the code does not do.                          *)

(* README: "two threads of the same exact priority will round-robin". *)
Eligible(t) ==
    state[t] = "RUN" /\ \A u \in Threads : state[u] = "RUN" => prio[u] <= prio[t]
RoundRobin == \A t \in Threads : Eligible(t) ~> (~Eligible(t) \/ cur = t)
==============================================================================
