------------------------------ MODULE EventObject ------------------------------
(***************************************************************************)
(* EventObject of core/mutex.h and core/mutex.cxx, set by threads and by   *)
(* interrupt handlers and waited for by threads, on the scheduler of       *)
(* Scheduler.tla.  Wait runs with interrupts disabled except for the wait  *)
(* itself; Set disables them to exchange the state and enables them again  *)
(* before it wakes anybody, so a thread can be preempted in between, where *)
(* it stands at "set" and "wake".                                           *)
(***************************************************************************)
EXTENDS Scheduler, FiniteSets

CONSTANTS
    Ev,             \* the event, as the object its waiters wait for
    MaxValue        \* bound on the values it is set to (uint8_t in the code)

ASSUME EventAssumption ==
    /\ Ev \in Objects \ {NULL}
    /\ MaxValue \in Nat \ {0}

VARIABLES
    mode,           \* EventObject::_mode, that the constructor sets
    value,          \* EventObject::_state
    evCount,        \* EventObject::_count
    pc              \* where a thread stands in the class's code

eventVars == <<mode, value, evCount>>
vars == <<schedVars, eventVars, pc>>

TypeOK ==
    /\ SchedTypeOK
    /\ mode \in {"SELF_RESET", "MANUAL_RESET"}
    /\ value \in 0..MaxValue
    /\ evCount \in 0..MaxThreads
    /\ pc \in [Threads -> {"out", "asleep", "wait", "timed", "set", "wake"}]

Init ==
    /\ Settled
    /\ mode \in {"SELF_RESET", "MANUAL_RESET"}
    /\ value = 0
    /\ evCount = 0
    /\ pc = [t \in Threads |-> "out"]

Go(where) == pc' = [pc EXCEPT ![cur] = where]
Runs(where) == InCode /\ pc[cur] = where

-----------------------------------------------------------------------------
(* Wait, with n the waiters other than the caller: it returns, or blocks.  *)
Return(n) ==
    /\ value' = IF mode = "SELF_RESET" THEN 0 ELSE value
    /\ evCount' = n
    /\ Go("out")
    /\ UNCHANGED mode

Await(n) ==
    /\ value = 0
    /\ evCount' = n + 1
    /\ Wait(Ev, 0)
    /\ Go("wait")
    /\ UNCHANGED <<mode, value>>

(* Mutant of AwaitUntil: the waiter is not counted. *)
AwaitUntilUncounted(n, d) ==
    /\ value = 0
    /\ d > 0
    /\ evCount' = n
    /\ TimedWait(Ev, d, 0)
    /\ Go("timed")
    /\ UNCHANGED <<mode, value>>

AwaitUntil(n, d) ==
    /\ value = 0
    /\ d > 0
    /\ evCount' = n + 1
    /\ TimedWait(Ev, d, 0)
    /\ Go("timed")
    /\ UNCHANGED <<mode, value>>

WaitCalled ==
    /\ Runs("out")
    /\ \/ value # 0 /\ Return(evCount) /\ UNCHANGED schedVars
       \/ Await(evCount)

(* Mutant of WaitWoken: the value is not tested again. *)
WaitWokenOnce ==
    /\ Woken
    /\ pc[cur] = "wait"
    /\ Return(evCount - 1)
    /\ LeaveIdle

WaitWoken ==
    /\ Woken
    /\ pc[cur] = "wait"
    /\ \/ value # 0 /\ Return(evCount - 1) /\ LeaveIdle
       \/ Await(evCount - 1)

(* Wait(delay) with a deadline d ticks away. *)
TimedWaitCalled(d) ==
    /\ Runs("out")
    /\ \/ (value # 0 \/ d = 0) /\ Return(evCount) /\ UNCHANGED schedVars
       \/ AwaitUntil(evCount, d)

TimedWaitWoken ==
    /\ Woken
    /\ pc[cur] = "timed"
    /\ \/ (value # 0 \/ waittime[cur] = 0) /\ Return(evCount - 1) /\ LeaveIdle
       \/ AwaitUntil(evCount - 1, waittime[cur])

-----------------------------------------------------------------------------
(* Set: exchange the state; if it changed to a value, test _count; wake. *)
Changes(v) == v # 0 /\ v # value

WakeWaiters == IF mode = "SELF_RESET" THEN WakeSingle(Ev) ELSE WakeAll(Ev)

Set(v) ==
    /\ Runs("out")
    /\ value' = v
    /\ Go(IF Changes(v) THEN "set" ELSE "out")
    /\ UNCHANGED <<schedVars, mode, evCount>>

(* Mutant of SetTest: one waiter alone is not woken. *)
SetTestBut1 ==
    /\ Runs("set")
    /\ Go(IF evCount > 1 THEN "wake" ELSE "out")
    /\ UNCHANGED <<schedVars, eventVars>>

SetTest ==
    /\ Runs("set")
    /\ Go(IF evCount # 0 THEN "wake" ELSE "out")
    /\ UNCHANGED <<schedVars, eventVars>>

SetWake ==
    /\ Runs("wake")
    /\ WakeWaiters
    /\ Go("out")
    /\ UNCHANGED <<prio, waitob, cur, clockVars, iplVars, at, eventVars>>

(* Set in an interrupt handler, which no thread can preempt. *)
SetByInterrupt(v) ==
    /\ IntEnabled
    /\ value' = v
    /\ IF Changes(v) /\ evCount # 0 THEN WakeWaiters ELSE UNCHANGED <<state, pendVars>>
    /\ EndWfi
    /\ UNCHANGED <<prio, waitob, cur, clockVars, iplVars, mode, evCount, pc>>

-----------------------------------------------------------------------------
Sleep(d) ==
    /\ Runs("out")
    /\ TimedWait(NULL, d, 0)
    /\ Go("asleep")
    /\ UNCHANGED eventVars

SleepOver ==
    /\ Woken
    /\ pc[cur] = "asleep"
    /\ LeaveIdle
    /\ Go("out")
    /\ UNCHANGED eventVars

Next ==
    \/ WaitCalled
    \/ WaitWoken
    \/ \E d \in 0..MaxDelay : TimedWaitCalled(d)
    \/ TimedWaitWoken
    \/ \E v \in 0..MaxValue : Set(v)
    \/ SetTest
    \/ SetWake
    \/ \E v \in 0..MaxValue : SetByInterrupt(v)
    \/ \E d \in 1..MaxDelay : Sleep(d)
    \/ SleepOver
    \/ System /\ UNCHANGED <<eventVars, pc>>

Spec == Init /\ [][Next]_vars

-----------------------------------------------------------------------------
(* The event object keeps the promise of an event: no wait returns on a    *)
(* value another wait has cleared, or times out on a value that is there.   *)
InTimedWait == {t \in Threads : pc[t] = "timed"}
InWait == {t \in Threads : pc[t] = "wait"} \cup InTimedWait
Promise == INSTANCE Event WITH waiting <- InWait, timed <- InTimedWait,
                               selfReset <- mode = "SELF_RESET"
ImplementsEvent == Promise!Spec

(* _count is the threads in a wait, woken ones included, so that Set never *)
(* skips the wakeup of a thread that is blocked.                            *)
WaitersCounted == evCount = Cardinality(InWait)

(* No lost wakeup: while a thread is blocked on an event that is set, some *)
(* waiter has been woken to take it or some thread is in Set, about to     *)
(* wake one.  With a manual reset it takes the latter, for all are woken.   *)
BlockedWaiter == \E t \in InWait : state[t] \in Blocked
Setting == \E t \in Threads : pc[t] \in {"set", "wake"}
NoStrandedWaiter ==
    value # 0 /\ BlockedWaiter =>
        \/ Setting
        \/ mode = "SELF_RESET" /\ \E t \in InWait : state[t] = "RUN"
================================================================================
