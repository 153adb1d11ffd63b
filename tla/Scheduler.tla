------------------------------ MODULE Scheduler ------------------------------
(***************************************************************************)
(* The state of the thread scheduler of core/thread.cxx and the operations *)
(* it is made of.  The module has no next-state relation of its own:       *)
(* Thread.tla drives it with clients that call the thread API directly,    *)
(* Mutex.tla, CondVar.tla and EventObject.tla with clients of the          *)
(* synchronisation objects built on top.                                   *)
(*                                                                         *)
(* The machine is a single Cortex-M core.  A step of thread code is what   *)
(* the code does between two points where interrupts are enabled, since a  *)
(* ScopedNoInt section cannot be interrupted.  PendSV carries out a switch *)
(* and has the lowest priority of all exceptions, but preempts any thread: *)
(* once it is pending the thread executes nothing more.                    *)
(*                                                                         *)
(* Time is relative: waittime, qend and timer hold the ticks left until    *)
(* the moment in question, so nothing grows without bound.  A thread is    *)
(* named by its index in _runq, to which Create only appends (nothing in   *)
(* the repository destroys a thread), so the order of the run queue is the *)
(* order of the names.                                                     *)
(***************************************************************************)
EXTENDS Integers

CONSTANTS
    MaxThreads,     \* threads that can be created; the run queue is 1..MaxThreads
    MaxPrio,        \* priorities are 0..MaxPrio (uint8_t in the code)
    Objects,        \* objects threads wait for
    NULL,           \* the null object, that Sleep waits for
    Quantum,        \* RRQUANTUM, in ticks
    Horizon,        \* the "gratuitous upper bound" of 10 s on the timer, in ticks
    MaxDelay,       \* longest timed wait, in ticks
    IplModulus      \* _ipl_count is an unsigned integer modulo this (2^32)

Threads == 1..MaxThreads
Main == 1

ASSUME SchedulerAssumption ==
    /\ MaxThreads \in Nat \ {0}
    /\ MaxPrio \in Nat
    /\ Horizon \in Nat \ {0}
    /\ Quantum \in 1..Horizon
    /\ MaxDelay \in Nat \ {0}
    /\ IplModulus \in Nat \ {0, 1}

VARIABLES
    state,      \* Thread::_state, "FREE" for a thread that does not exist yet
    prio,       \* Thread::_prio
    waitob,     \* Thread::_waitob
    waittime,   \* Thread::_waittime, in ticks from now
    cur,        \* Thread::_curthread
    qend,       \* Thread::_qend, in ticks from now, 0 when it has passed
    timer,      \* SysTick's counter
    armed,      \* SysTick's TICKINT and ENABLE bits
    pendSV,     \* PendSV is pending
    pendCsw,    \* Thread::_pend_csw
    iplCount,   \* Thread::_ipl_count
    saved,      \* prev_count, on the stack of a thread in Idle
    masked,     \* PRIMASK as a thread's code outside of ScopedNoInt runs with it
    at          \* where a thread stands in Reap and Idle, "code" if in neither

clockVars == <<waittime, qend, timer, armed>>
pendVars == <<pendSV, pendCsw>>
iplVars == <<iplCount, saved, masked>>
schedVars == <<state, prio, waitob, cur, clockVars, pendVars, iplVars, at>>

Blocked == {"WAIT", "TWAIT"}

SchedTypeOK ==
    /\ state \in [Threads -> {"FREE", "RUN", "STOP"} \cup Blocked]
    /\ prio \in [Threads -> 0..MaxPrio]
    /\ waitob \in [Threads -> Objects \cup Threads \cup {NULL}]
    /\ waittime \in [Threads -> 0..MaxDelay]
    /\ cur \in Threads
    /\ qend \in 0..Quantum
    /\ timer \in 0..(Horizon + MaxDelay)
    /\ armed \in BOOLEAN
    /\ pendSV \in BOOLEAN
    /\ pendCsw \in BOOLEAN
    /\ iplCount \in 0..(IplModulus - 1)
    /\ saved \in [Threads -> 0..(IplModulus - 1)]
    /\ masked \in [Threads -> BOOLEAN]
    /\ at \in [Threads -> {"code", "reap", "reaped", "idle", "wfi", "check"}]

(* Thread::Bootstrap: only the main thread exists and it is running. *)
Bootstrap ==
    /\ state = [t \in Threads |-> IF t = Main THEN "RUN" ELSE "FREE"]
    /\ prio = [t \in Threads |-> 0]
    /\ waitob = [t \in Threads |-> NULL]
    /\ waittime = [t \in Threads |-> 0]
    /\ cur = Main
    /\ qend = Quantum
    /\ timer = Quantum
    /\ armed = TRUE
    /\ pendSV = FALSE
    /\ pendCsw = FALSE
    /\ iplCount = 0
    /\ saved = [t \in Threads |-> 0]
    /\ masked = [t \in Threads |-> FALSE]
    /\ at = [t \in Threads |-> "code"]

(* A state the scheduler gets to from there: every thread has been created *)
(* and has set its priority, and the first of the highest is running.       *)
Settled ==
    /\ state = [t \in Threads |-> "RUN"]
    /\ prio \in [Threads -> 0..MaxPrio]
    /\ waitob = [t \in Threads |-> NULL]
    /\ waittime = [t \in Threads |-> 0]
    /\ cur \in Threads
    /\ \A t \in Threads : prio[t] < prio[cur] \/ (prio[t] = prio[cur] /\ cur <= t)
    /\ qend = Quantum
    /\ timer = Quantum
    /\ armed = TRUE
    /\ pendSV = FALSE
    /\ pendCsw = FALSE
    /\ iplCount = 0
    /\ saved = [t \in Threads |-> 0]
    /\ masked = [t \in Threads |-> FALSE]
    /\ at = [t \in Threads |-> "code"]

-----------------------------------------------------------------------------
(* Thread::Rotate, as functions of the thread states s and wait times w it *)
(* finds.                                                                   *)

(* Mutant of Ready: the pass overlooks the waits that are over. *)
ReadyButTimed(s, w) == {t \in Threads : s[t] = "RUN"}

(* The threads the pass over _runq finds runnable: the running ones and    *)
(* those whose timed wait is over, which the pass sets to RUN.              *)
Ready(s, w) == {t \in Threads : s[t] = "RUN" \/ (s[t] = "TWAIT" /\ w[t] = 0)}

(* Mutant of Released: a thread that timed out is found, but not set to RUN. *)
ReleasedNot(s, w) == s

Released(s, w) == [t \in Threads |-> IF t \in Ready(s, w) THEN "RUN" ELSE s[t]]

(* The first in run queue order of the highest priority threads in S. *)
Highest(S) ==
    CHOOSE t \in S : \A u \in S : prio[u] < prio[t] \/ (prio[u] = prio[t] /\ t <= u)

Least(S) == CHOOSE k \in S : \A j \in S : k <= j

(* The other runnable threads with the priority of the current one, and    *)
(* which of them follows it in the queue (nextrun, or firstrun to wrap).    *)
Peers(R) == {t \in R \ {cur} : prio[t] = prio[cur]}
NextPeer(R) ==
    LET after == {t \in Peers(R) : t > cur}
    IN  Least(IF after = {} THEN Peers(R) ELSE after)

(* numrun > 1 *)
Sharing(R) == \E t, u \in R : t # u /\ prio[t] = prio[cur] /\ prio[u] = prio[cur]

Outranked(R) == \E t \in R : prio[t] > prio[cur]
QuantumOver(R) == ~Outranked(R) /\ Sharing(R) /\ qend = 0

(* Mutant of Choice: the null thread is switched to when nothing is runnable. *)
ChoiceOrNull(R) ==
    IF R = {} THEN 0
    ELSE IF Outranked(R) THEN Highest(R)
    ELSE IF QuantumOver(R) THEN NextPeer(R)
    ELSE IF cur \notin R THEN Highest(R)
    ELSE cur

(* The thread to run.  With nothing runnable the code compares the         *)
(* priority of a null pointer, and keeps the current thread whatever it    *)
(* reads there.                                                             *)
Choice(R) ==
    IF R = {} THEN cur
    ELSE IF Outranked(R) THEN Highest(R)
    ELSE IF QuantumOver(R) THEN NextPeer(R)
    ELSE IF cur \notin R THEN Highest(R)
    ELSE cur

(* The ticks to the earliest deadline, or the bound if there is none; the  *)
(* timer is set to it or to the end of the quantum, whichever is first.     *)
Pending(s, w) == {w[t] : t \in {u \in Threads : s[u] = "TWAIT" /\ w[u] > 0}}

(* Mutant of NextTimer: the upper bound, whatever is pending. *)
NextTimerBound(s, w) == Horizon

NextTimer(s, w) == IF Pending(s, w) = {} THEN Horizon ELSE Least(Pending(s, w))
TimerSetting(s, w, q) ==
    IF q > 0 /\ q < NextTimer(s, w) THEN q ELSE NextTimer(s, w)

(* What one pass of Rotate does to the threads, the quantum and SysTick. *)
Rotated(s, w) ==
    /\ state' = Released(s, w)
    /\ qend' = IF QuantumOver(Ready(s, w)) THEN Quantum ELSE qend
    /\ timer' = TimerSetting(s, w, qend')
    /\ armed' = TRUE

-----------------------------------------------------------------------------
(* Interrupts are taken unless the thread runs its own code with PRIMASK   *)
(* set; ContextSwitch opens a window for the PendSV it posts.               *)
IntEnabled == at[cur] \in {"code", "reap", "reaped"} => ~masked[cur] \/ pendSV

(* Any interrupt ends WFI. *)
EndWfi == at' = [at EXCEPT ![cur] = IF @ = "wfi" THEN "check" ELSE @]

(* Thread::ContextSwitch *)
ContextSwitch == pendSV' = TRUE /\ pendCsw' = FALSE
NoSwitch == UNCHANGED pendVars

(* Thread::Rotate(true) in the PendSV handler.  Setting the timer holds an *)
(* IPL for a moment, and releasing it posts a switch that is still due.     *)
PendSV ==
    LET next == Choice(Ready(state, waittime)) IN
    /\ pendSV
    /\ IntEnabled
    /\ Rotated(state, waittime)
    /\ cur' = next
    /\ pendSV' = (pendCsw /\ iplCount = 0)
    /\ pendCsw' = (pendCsw /\ iplCount # 0 /\ next = cur)
    /\ EndWfi
    /\ UNCHANGED <<prio, waitob, waittime, iplVars>>

(* Mutant of SysTick: the timer's pass never posts a switch. *)
SysTickSilent ==
    /\ armed
    /\ IntEnabled
    /\ IF pendCsw
       THEN armed' = FALSE /\ UNCHANGED <<state, qend, timer>>
       ELSE Rotated(state, waittime)
    /\ EndWfi
    /\ UNCHANGED <<prio, waitob, waittime, cur, iplVars, pendVars>>

(* SysTick::Interrupt and Thread::TimerInterrupt: the one-shot timer is    *)
(* stopped, then Rotate(false) sets it again, unless a pending switch makes *)
(* it return at once.  The 24-bit reload register truncates the count, so  *)
(* the timer may go off early.                                              *)
SysTick ==
    LET next == Choice(Ready(state, waittime)) IN
    /\ armed
    /\ IntEnabled
    /\ IF pendCsw
       THEN armed' = FALSE /\ UNCHANGED <<state, qend, timer, pendVars>>
       ELSE /\ Rotated(state, waittime)
            /\ pendSV' = (pendSV \/ (next # cur /\ iplCount = 0))
            /\ pendCsw' = (next # cur /\ iplCount # 0)
    /\ EndWfi
    /\ UNCHANGED <<prio, waitob, waittime, cur, iplVars>>

(* The clock moves.  An expired SysTick is taken before it moves on. *)
Tick ==
    LET Less(k) == IF k > 0 THEN k - 1 ELSE 0 IN
    /\ armed => timer > 0
    /\ waittime' = [t \in Threads |-> Less(waittime[t])]
    /\ qend' = Less(qend)
    /\ timer' = Less(timer)
    /\ UNCHANGED <<state, prio, waitob, cur, armed, pendVars, iplVars, at>>

-----------------------------------------------------------------------------
(* Thread::WakeSingle and Thread::WakeAll, from a thread or an interrupt. *)
Waiters(ob) == {t \in Threads : state[t] \in Blocked /\ waitob[t] = ob}

(* Mutant of WakeSingle: it looks at the state of the current thread only. *)
WakeSingleUnranked(ob) ==
    IF Waiters(ob) = {}
    THEN UNCHANGED <<state, pendVars>>
    ELSE /\ state' = [state EXCEPT ![Highest(Waiters(ob))] = "RUN"]
         /\ IF state'[cur] # "RUN" THEN ContextSwitch ELSE NoSwitch

WakeSingle(ob) ==
    IF Waiters(ob) = {}
    THEN UNCHANGED <<state, pendVars>>
    ELSE LET top == Highest(Waiters(ob)) IN
         /\ state' = [state EXCEPT ![top] = "RUN"]
         /\ IF prio[top] > prio[cur] \/ state'[cur] # "RUN"
            THEN ContextSwitch
            ELSE NoSwitch

WakeAll(ob) ==
    /\ state' = [t \in Threads |-> IF t \in Waiters(ob) THEN "RUN" ELSE state[t]]
    /\ IF Outranked(Waiters(ob)) THEN ContextSwitch ELSE NoSwitch

EnterIdle(s, w, k) ==
    /\ IF pendCsw
       THEN state' = s /\ UNCHANGED <<qend, timer, armed>>
       ELSE Rotated(s, w)
    /\ waittime' = w
    /\ pendSV' = (pendCsw \/ Choice(Ready(s, w)) # cur)
    /\ pendCsw' = FALSE
    /\ saved' = [saved EXCEPT ![cur] = k]
    /\ iplCount' = 0
    /\ at' = [at EXCEPT ![cur] = "idle"]
    /\ UNCHANGED <<prio, cur, masked>>

(* Thread::WaitFor(ob) and Thread::WaitFor(ob, until), until d ticks away. *)
Wait(ob, k) ==
    /\ waitob' = [waitob EXCEPT ![cur] = ob]
    /\ EnterIdle([state EXCEPT ![cur] = "WAIT"], waittime, k)

TimedWait(ob, d, k) ==
    /\ waitob' = [waitob EXCEPT ![cur] = ob]
    /\ EnterIdle([state EXCEPT ![cur] = "TWAIT"], [waittime EXCEPT ![cur] = d], k)

(* The loop of Idle: WFI, then another turn unless the thread is runnable. *)
InIdle(where) == at[cur] = where /\ ~pendSV

WaitForInterrupt ==
    /\ InIdle("idle")
    /\ at' = [at EXCEPT ![cur] = "wfi"]
    /\ UNCHANGED <<state, prio, waitob, cur, clockVars, pendVars, iplVars>>

IdleAgain ==
    /\ InIdle("check")
    /\ state[cur] # "RUN"
    /\ pendSV' = pendCsw
    /\ pendCsw' = FALSE
    /\ iplCount' = 0
    /\ at' = [at EXCEPT ![cur] = "idle"]
    /\ UNCHANGED <<state, prio, waitob, cur, clockVars, saved, masked>>

(* The thread is runnable: Idle returns to its caller with the count back. *)
(* _waitob, _waittime and the saved count mean nothing outside of a wait;  *)
(* the model clears them, where the code lets them go stale unread.         *)
Woken == InIdle("check") /\ state[cur] = "RUN"

LeaveIdle ==
    /\ iplCount' = saved[cur]
    /\ saved' = [saved EXCEPT ![cur] = 0]
    /\ waitob' = [waitob EXCEPT ![cur] = NULL]
    /\ waittime' = [waittime EXCEPT ![cur] = 0]
    /\ at' = [at EXCEPT ![cur] = "code"]
    /\ UNCHANGED <<state, prio, cur, qend, timer, armed, pendVars, masked>>

(* What goes on by itself, whatever the threads do. *)
System == PendSV \/ SysTick \/ Tick \/ WaitForInterrupt \/ IdleAgain

(* The current thread executes its own code. *)
InCode == at[cur] = "code" /\ ~pendSV

-----------------------------------------------------------------------------
(* No timeout is lost: while a thread is in a timed wait, either the timer *)
(* is set to go off by its deadline, or a pass of Rotate that will set it  *)
(* is due (Rotate, SysTick and the IPL's deferred switch).                  *)
TimerCoversDeadlines ==
    \A t \in Threads :
        state[t] = "TWAIT" => pendSV \/ pendCsw \/ (armed /\ timer <= waittime[t])

(* The threading model is strictly priority based: a runnable thread that  *)
(* outranks the current one is already on its way to the processor.         *)
HigherPriorityPending ==
    Outranked({t \in Threads : state[t] = "RUN"}) => pendSV \/ pendCsw
==============================================================================
