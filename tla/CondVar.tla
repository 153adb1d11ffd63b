-------------------------------- MODULE CondVar --------------------------------
(***************************************************************************)
(* CondVar of core/mutex.h and core/mutex.cxx with the mutex its waiters   *)
(* hold.  Wait calls Unlock, WaitFor and Lock one after the other with     *)
(* interrupts enabled, so a thread can be preempted, and the condition     *)
(* signalled, at any point between.                                         *)
(*                                                                         *)
(* This module is the monitor as any code may use it; Dns.tla is the use   *)
(* core/dns.cxx makes of it.                                                *)
(***************************************************************************)
EXTENDS Mutex

CONSTANT Cv             \* the condition variable, as the object waited for

ASSUME CondVarAssumption == Cv \in Objects \ {Mtx}

VARIABLES
    condCount,          \* CondVar::_count
    cv,                 \* where a thread stands in CondVar's code, "none" if not
    kept                \* Wait's local variable count

condVars == <<condCount, cv, kept>>
cvVars == <<vars, condVars>>

CvTypeOK ==
    /\ TypeOK
    /\ condCount \in 0..MaxThreads
    /\ cv \in [Threads -> {"none", "release", "wait", "relock", "restore",
                           "signal", "broadcast"}]
    /\ kept \in [Threads -> 0..MaxDepth]

CvInit ==
    /\ Init
    /\ condCount = 0
    /\ cv = [t \in Threads |-> "none"]
    /\ kept = [t \in Threads |-> 0]

CvGo(where) == cv' = [cv EXCEPT ![cur] = where]
CvRuns(where) == Runs("out") /\ cv[cur] = where

-----------------------------------------------------------------------------
(* Mutants of WaitBegin: the waiter is not counted; the mutex is released  *)
(* without Unlock's wakeup.                                                 *)
WaitBeginUncounted ==
    /\ CvRuns("none")
    /\ depth[cur] > 0
    /\ kept' = [kept EXCEPT ![cur] = count]
    /\ count' = 0
    /\ Go("owner")
    /\ CvGo("release")
    /\ UNCHANGED <<schedVars, tid, waiters, depth, condCount>>

WaitBeginSilent ==
    /\ CvRuns("none")
    /\ depth[cur] > 0
    /\ condCount' = condCount + 1
    /\ kept' = [kept EXCEPT ![cur] = count]
    /\ count' = 0
    /\ tid' = NULL
    /\ CvGo("release")
    /\ UNCHANGED <<schedVars, waiters, pc, depth>>

(* CondVar::Wait: ++_count; the mutex's count is set to 1, whatever it was, *)
(* and Unlock brings it down to 0.                                          *)
WaitBegin ==
    /\ CvRuns("none")
    /\ depth[cur] > 0
    /\ condCount' = condCount + 1
    /\ kept' = [kept EXCEPT ![cur] = count]
    /\ count' = 0
    /\ Go("owner")
    /\ CvGo("release")
    /\ UNCHANGED <<schedVars, tid, waiters, depth>>

(* WaitFor, or the timed WaitFor, which returns at once from a deadline    *)
(* that has passed.                                                         *)
WaitBlock ==
    /\ CvRuns("release")
    /\ \/ Wait(Cv, 0) /\ CvGo("wait")
       \/ \E d \in 1..MaxDelay : TimedWait(Cv, d, 0) /\ CvGo("wait")
       \/ CvGo("relock") /\ UNCHANGED schedVars
    /\ UNCHANGED <<mutexVars, pc, depth, condCount, kept>>

(* Mutant of WaitOver: Wait returns without the mutex. *)
WaitOverUnlocked ==
    /\ Woken
    /\ cv[cur] = "wait"
    /\ LeaveIdle
    /\ CvGo("restore")
    /\ UNCHANGED <<mutexVars, pc, depth, condCount, kept>>

WaitOver ==
    /\ Woken
    /\ cv[cur] = "wait"
    /\ LeaveIdle
    /\ CvGo("relock")
    /\ UNCHANGED <<mutexVars, pc, depth, condCount, kept>>

(* Lock, which returns with the mutex or waits for it. *)
WaitRelock ==
    /\ cv[cur] = "relock"
    /\ LockCalled(UNCHANGED depth) \/ LockWoken(UNCHANGED depth)
    /\ CvGo(IF pc'[cur] = "lock" THEN "relock" ELSE "restore")
    /\ UNCHANGED <<condCount, kept>>

WaitRestore ==
    /\ CvRuns("restore")
    /\ condCount' = condCount - 1
    /\ count' = kept[cur]
    /\ kept' = [kept EXCEPT ![cur] = 0]
    /\ CvGo("none")
    /\ UNCHANGED <<schedVars, tid, waiters, pc, depth>>

(* CondVar::Signal and CondVar::Broadcast test _count, then wake. *)
SignalBegin(how) ==
    /\ CvRuns("none")
    /\ condCount # 0
    /\ CvGo(how)
    /\ UNCHANGED <<vars, condCount, kept>>

SignalWake ==
    /\ \/ CvRuns("signal") /\ WakeSingle(Cv)
       \/ CvRuns("broadcast") /\ WakeAll(Cv)
    /\ CvGo("none")
    /\ UNCHANGED <<prio, waitob, cur, clockVars, iplVars, at, mutexVars, pc, depth,
                   condCount, kept>>

-----------------------------------------------------------------------------
(* What goes on by itself of a call of either class. *)
CvOn ==
    \/ WaitBlock
    \/ WaitOver
    \/ WaitRelock
    \/ WaitRestore
    \/ SignalWake
    \/ UnlockOn /\ UNCHANGED condVars
    \/ cv[cur] = "none" /\ (LockAgain \/ SleepOver) /\ UNCHANGED condVars
    \/ System /\ UNCHANGED <<mutexVars, pc, depth, condVars>>

CvNext ==
    \/ cv[cur] = "none" /\ Call /\ UNCHANGED condVars
    \/ WaitBegin
    \/ \E how \in {"signal", "broadcast"} : SignalBegin(how)
    \/ CvOn

CvSpec == CvInit /\ [][CvNext]_cvVars

-----------------------------------------------------------------------------
(* Mutex and condition variable keep the promise of a monitor: Wait gives  *)
(* the mutex up and takes it back without ever letting two threads in.     *)
InWait == {t \in Threads : cv[t] \in {"release", "wait", "relock"}}
Abstract == INSTANCE Monitor WITH waiting <- InWait
ImplementsMonitor == Abstract!Spec

(* _count is the threads in Wait, so that Signal and Broadcast never skip  *)
(* the wakeup of a thread that is blocked.                                  *)
CondCounted == condCount = Cardinality({t \in Threads : cv[t] = "restore"} \cup InWait)
================================================================================
