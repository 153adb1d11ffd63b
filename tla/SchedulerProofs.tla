---------------------------- MODULE SchedulerProofs ----------------------------
(***************************************************************************)
(* Lemmas about the operations of Scheduler.tla, for every number of       *)
(* threads and priorities: what Rotate chooses, and that each operation    *)
(* keeps the scheduler's types and invariants.  The proofs about the       *)
(* modules built on the scheduler cite them by name.                        *)
(***************************************************************************)
EXTENDS Scheduler, TLAPS, FiniteSets, FiniteSetTheorems, WellFoundedInduction

-----------------------------------------------------------------------------
(* The choices Rotate makes. *)

(* A set of natural numbers that is not empty has a least element. *)
LEMMA LeastNatural ==
    ASSUME NEW S \in SUBSET Nat, S # {}
    PROVE  \E k \in S : \A j \in S : k <= j
<1> DEFINE R == {p \in Nat \X Nat : p[1] < p[2]}
<1>1. IsWellFoundedOn(R, Nat)
  BY NatLessThanWellFounded DEF OpToRel
<1>2. PICK x \in S : \A y \in S : <<y, x>> \notin R
  BY <1>1, WFMin
<1>3. ASSUME NEW y \in S PROVE x <= y
  <2>1. x \in Nat /\ y \in Nat
    OBVIOUS
  <2>2. ~ (y < x)
    BY <1>2, <2>1
  <2> QED BY <2>1, <2>2
<1> QED BY <1>3

(* Threads are named by natural numbers. *)
LEMMA ThreadsNat ==
    ASSUME MaxThreads \in Nat
    PROVE  Threads \in SUBSET Nat
BY DEF Threads

(* Least picks it. *)
LEMMA LeastChosen ==
    ASSUME NEW S \in SUBSET Nat, S # {}
    PROVE  Least(S) \in S /\ \A j \in S : Least(S) <= j
BY LeastNatural DEF Least

(* Highest picks a thread that no thread of the set outranks. *)
LEMMA HighestChosen ==
    ASSUME prio \in [Threads -> Nat], NEW S \in SUBSET Threads, S # {},
           \A t \in S : prio[t] <= MaxPrio, MaxPrio \in Nat, MaxThreads \in Nat
    PROVE  Highest(S) \in S /\ \A u \in S : prio[u] <= prio[Highest(S)]
<1> DEFINE Gaps == {MaxPrio - prio[t] : t \in S}
<1>1. Gaps \in SUBSET Nat /\ Gaps # {}
  BY DEF Threads
<1>2. PICK g \in Gaps : \A j \in Gaps : g <= j
  BY <1>1, LeastNatural
<1> DEFINE Best == {t \in S : MaxPrio - prio[t] = g}
<1>3. Best \in SUBSET Nat /\ Best # {}
  <2>1. PICK t \in S : g = MaxPrio - prio[t]
    BY <1>2
  <2>2. Best \in SUBSET Nat
    BY ThreadsNat
  <2>3. t \in Best
    BY <2>1
  <2> QED BY <2>2, <2>3
<1>4. PICK b \in Best : \A u \in Best : b <= u
  BY <1>3, LeastNatural
<1>5. \A u \in S : prio[u] < prio[b] \/ (prio[u] = prio[b] /\ b <= u)
  <2> SUFFICES ASSUME NEW u \in S
               PROVE  prio[u] < prio[b] \/ (prio[u] = prio[b] /\ b <= u)
    OBVIOUS
  <2>1. MaxPrio - prio[b] <= MaxPrio - prio[u]
    BY <1>2, <1>4
  <2>2. prio[u] \in Nat /\ prio[b] \in Nat
    BY <1>4
  <2>3. CASE prio[u] = prio[b]
    BY <1>4, <2>3
  <2> QED BY <2>1, <2>2, <2>3
<1>6. \A u \in S : prio[u] < prio[Highest(S)] \/ (prio[u] = prio[Highest(S)] /\ Highest(S) <= u)
  BY <1>4, <1>5 DEF Highest
<1>7. Highest(S) \in S
  BY <1>4, <1>5 DEF Highest
<1>8. ASSUME NEW u \in S PROVE prio[u] <= prio[Highest(S)]
  <2>1. prio[u] \in Nat /\ prio[Highest(S)] \in Nat
    BY <1>7
  <2> QED BY <1>6, <2>1
<1> QED BY <1>7, <1>8

(* The run queue pass finds threads. *)
LEMMA ReadyThreads ==
    ASSUME NEW s, NEW w
    PROVE  Ready(s, w) \in SUBSET Threads
BY DEF Ready

(* Rotate's choice is a thread; if it is another one than the current, it  *)
(* is runnable and nothing runnable outranks it; and it is another one     *)
(* whenever the current one is outranked.                                   *)
LEMMA ChoiceIsHighest ==
    ASSUME SchedTypeOK, SchedulerAssumption, NEW R \in SUBSET Threads
    PROVE  /\ Choice(R) \in Threads
           /\ Choice(R) # cur =>
                Choice(R) \in R /\ \A u \in R : prio[u] <= prio[Choice(R)]
           /\ Outranked(R) => Choice(R) # cur
<1>1. /\ prio \in [Threads -> Nat] /\ \A t \in R : prio[t] <= MaxPrio
      /\ MaxPrio \in Nat /\ MaxThreads \in Nat /\ cur \in Threads
  BY DEF SchedTypeOK, SchedulerAssumption
<1>2. CASE R = {}
  BY <1>1, <1>2 DEF Choice, Outranked
<1>3. CASE R # {} /\ Outranked(R)
  <2>1. Choice(R) = Highest(R)
    BY <1>3 DEF Choice
  <2>2. Highest(R) \in R /\ \A u \in R : prio[u] <= prio[Highest(R)]
    BY <1>1, <1>3, HighestChosen
  <2>3. PICK t \in R : prio[t] > prio[cur]
    BY <1>3 DEF Outranked
  <2>4. prio[cur] \in Nat /\ prio[t] \in Nat /\ prio[Highest(R)] \in Nat
    BY <1>1, <2>2
  <2>5. Highest(R) # cur
    BY <2>2, <2>3, <2>4
  <2> QED BY <2>1, <2>2, <2>5
<1>4. CASE R # {} /\ ~Outranked(R) /\ QuantumOver(R)
  <2>1. Choice(R) = NextPeer(R)
    BY <1>4 DEF Choice
  <2>2. Peers(R) # {}
    BY <1>4 DEF QuantumOver, Sharing, Peers
  <2>3. NextPeer(R) \in Peers(R)
    <3> DEFINE after == {t \in Peers(R) : t > cur}
    <3>1. after \in SUBSET Nat /\ Peers(R) \in SUBSET Nat
      BY <1>1, ThreadsNat DEF Peers
    <3>2. CASE after = {}
      BY <3>1, <3>2, <2>2, LeastChosen DEF NextPeer
    <3>3. CASE after # {}
      <4>1. Least(after) \in after
        BY <3>1, <3>3, LeastChosen
      <4> QED BY <3>3, <4>1 DEF NextPeer
    <3> QED BY <3>2, <3>3
  <2>4. NextPeer(R) \in R /\ prio[NextPeer(R)] = prio[cur]
    BY <2>3 DEF Peers
  <2>5. ASSUME NEW u \in R PROVE prio[u] <= prio[cur]
    <3>1. prio[u] \in Nat /\ prio[cur] \in Nat /\ ~(prio[u] > prio[cur])
      BY <1>1, <1>4 DEF Outranked
    <3> QED BY <3>1
  <2> QED BY <1>4, <2>1, <2>4, <2>5
<1>5. CASE R # {} /\ ~Outranked(R) /\ ~QuantumOver(R) /\ cur \notin R
  <2>1. Choice(R) = Highest(R)
    BY <1>5 DEF Choice
  <2>2. Highest(R) \in R /\ \A u \in R : prio[u] <= prio[Highest(R)]
    BY <1>1, <1>5, HighestChosen
  <2> QED BY <1>5, <2>1, <2>2
<1>6. CASE R # {} /\ ~Outranked(R) /\ ~QuantumOver(R) /\ cur \in R
  BY <1>1, <1>6 DEF Choice
<1> QED BY <1>2, <1>3, <1>4, <1>5, <1>6

(* The timer is set no later than any deadline still to come. *)
LEMMA TimerSettingCovers ==
    ASSUME SchedulerAssumption, NEW s, NEW w \in [Threads -> 0..MaxDelay],
           NEW q \in 0..Quantum
    PROVE  /\ TimerSetting(s, w, q) \in 0..(Horizon + MaxDelay)
           /\ \A t \in Threads : s[t] = "TWAIT" /\ w[t] > 0 => TimerSetting(s, w, q) <= w[t]
<1>1. Pending(s, w) \in SUBSET (1..MaxDelay)
  BY DEF Pending, SchedulerAssumption
<1>2. Pending(s, w) \in SUBSET Nat
  BY <1>1, SchedulerAssumption DEF SchedulerAssumption
<1>3. CASE Pending(s, w) = {}
  BY <1>3 DEF TimerSetting, NextTimer, Pending, SchedulerAssumption
<1>4. CASE Pending(s, w) # {}
  <2>1. NextTimer(s, w) \in Pending(s, w) /\ \A j \in Pending(s, w) : NextTimer(s, w) <= j
    BY <1>2, <1>4, LeastChosen DEF NextTimer
  <2>2. NextTimer(s, w) \in 1..MaxDelay
    BY <1>1, <2>1
  <2>3. TimerSetting(s, w, q) \in 0..(Horizon + MaxDelay) /\ TimerSetting(s, w, q) <= NextTimer(s, w)
    BY <2>2 DEF TimerSetting, SchedulerAssumption
  <2>4. ASSUME NEW t \in Threads, s[t] = "TWAIT", w[t] > 0
        PROVE  TimerSetting(s, w, q) <= w[t]
    <3>1. w[t] \in Pending(s, w)
      BY <2>4 DEF Pending
    <3>2. NextTimer(s, w) <= w[t]
      BY <2>1, <3>1
    <3>3. w[t] \in Nat /\ NextTimer(s, w) \in Nat /\ TimerSetting(s, w, q) \in Nat
      BY <2>2, <2>3 DEF SchedulerAssumption
    <3> QED BY <2>3, <3>2, <3>3
  <2> QED BY <2>3, <2>4
<1> QED BY <1>3, <1>4

-----------------------------------------------------------------------------
(* Every operation keeps the types, covers the deadlines with the timer    *)
(* and has a switch pending while the current thread is outranked.          *)
SchedInv == SchedTypeOK /\ TimerCoversDeadlines /\ HigherPriorityPending

States == {"FREE", "RUN", "STOP"} \cup Blocked

(* What a pass of Rotate over states s and wait times w leaves behind. *)
LEMMA RotatedKeeps ==
    ASSUME SchedTypeOK, SchedulerAssumption,
           NEW s \in [Threads -> States], NEW w \in [Threads -> 0..MaxDelay],
           Rotated(s, w)
    PROVE  /\ state' \in [Threads -> States]
           /\ qend' \in 0..Quantum
           /\ timer' \in 0..(Horizon + MaxDelay)
           /\ armed' = TRUE
           /\ {t \in Threads : state'[t] = "RUN"} = Ready(s, w)
           /\ \A t \in Threads : state'[t] = "TWAIT" => timer' <= w[t]
<1>1. state' = Released(s, w)
  BY DEF Rotated
<1>2. state' \in [Threads -> States]
  BY <1>1 DEF Released, States
<1>3. qend' \in 0..Quantum
  BY DEF Rotated, SchedTypeOK, SchedulerAssumption
<1>4. {t \in Threads : state'[t] = "RUN"} = Ready(s, w)
  BY <1>1 DEF Released, Ready
<1>5. timer' = TimerSetting(s, w, qend') /\ armed' = TRUE
  BY DEF Rotated
<1>6. ASSUME NEW t \in Threads, state'[t] = "TWAIT" PROVE s[t] = "TWAIT" /\ w[t] > 0
  <2>1. s[t] = "TWAIT" /\ w[t] # 0
    BY <1>1, <1>6 DEF Released, Ready
  <2>2. w[t] \in Nat
    BY DEF SchedulerAssumption
  <2> QED BY <2>1, <2>2
<1> QED BY <1>2, <1>3, <1>4, <1>5, <1>6, TimerSettingCovers

(* PendSV carries out a switch and sets the timer anew. *)
LEMMA PendSVKeeps ==
    ASSUME SchedInv, SchedulerAssumption, PendSV
    PROVE  SchedInv'
<1> DEFINE R == Ready(state, waittime)
<1>1. /\ SchedTypeOK /\ state \in [Threads -> States] /\ waittime \in [Threads -> 0..MaxDelay]
      /\ R \in SUBSET Threads
  BY ReadyThreads DEF SchedInv, SchedTypeOK, States
<1>2. /\ Rotated(state, waittime) /\ cur' = Choice(R)
      /\ UNCHANGED <<prio, waitob, waittime, iplVars>>
  BY DEF PendSV
<1>3. /\ Choice(R) \in Threads
      /\ Choice(R) # cur => Choice(R) \in R /\ \A u \in R : prio[u] <= prio[Choice(R)]
      /\ Outranked(R) => Choice(R) # cur
  BY <1>1, ChoiceIsHighest
<1>4. /\ state' \in [Threads -> States]
      /\ qend' \in 0..Quantum
      /\ timer' \in 0..(Horizon + MaxDelay)
      /\ armed' = TRUE
      /\ {t \in Threads : state'[t] = "RUN"} = R
      /\ \A t \in Threads : state'[t] = "TWAIT" => timer' <= waittime[t]
  BY <1>1, <1>2, RotatedKeeps
<1>5. SchedTypeOK'
  <2>1. at' \in [Threads -> {"code", "reap", "reaped", "idle", "wfi", "check"}]
    BY <1>1 DEF PendSV, EndWfi, SchedTypeOK
  <2>2. pendSV' \in BOOLEAN /\ pendCsw' \in BOOLEAN
    BY DEF PendSV
  <2> QED BY <1>1, <1>2, <1>3, <1>4, <2>1, <2>2 DEF SchedTypeOK, States, iplVars
<1>6. TimerCoversDeadlines'
  BY <1>2, <1>4 DEF TimerCoversDeadlines
<1>7. HigherPriorityPending'
  <2>1. ASSUME NEW t \in R PROVE ~(prio[t] > prio[cur'])
    <3>1. prio[t] \in Nat /\ prio[cur'] \in Nat
      BY <1>1, <1>2, <1>3 DEF SchedTypeOK
    <3>2. CASE Choice(R) = cur
      BY <1>2, <1>3, <2>1, <3>2 DEF Outranked
    <3>3. CASE Choice(R) # cur
      BY <1>2, <1>3, <2>1, <3>1, <3>3
    <3> QED BY <3>2, <3>3
  <2> QED BY <1>2, <1>4, <2>1 DEF HigherPriorityPending, Outranked
<1> QED BY <1>5, <1>6, <1>7 DEF SchedInv

(* SysTick stops the timer, and sets it anew unless a switch is deferred. *)
LEMMA SysTickKeeps ==
    ASSUME SchedInv, SchedulerAssumption, SysTick
    PROVE  SchedInv'
<1> DEFINE R == Ready(state, waittime)
<1>1. /\ SchedTypeOK /\ state \in [Threads -> States] /\ waittime \in [Threads -> 0..MaxDelay]
      /\ R \in SUBSET Threads
  BY ReadyThreads DEF SchedInv, SchedTypeOK, States
<1>2. UNCHANGED <<prio, waitob, waittime, cur, iplVars>>
  BY DEF SysTick
<1>3. at' \in [Threads -> {"code", "reap", "reaped", "idle", "wfi", "check"}]
  BY <1>1 DEF SysTick, EndWfi, SchedTypeOK
<1>4. CASE pendCsw
  <2>1. armed' = FALSE /\ UNCHANGED <<state, qend, timer, pendVars>>
    BY <1>4 DEF SysTick
  <2>2. SchedTypeOK'
    BY <1>1, <1>2, <1>3, <2>1 DEF SchedTypeOK, iplVars, pendVars
  <2>3. TimerCoversDeadlines' /\ HigherPriorityPending'
    BY <1>4, <2>1 DEF TimerCoversDeadlines, HigherPriorityPending, pendVars
  <2> QED BY <2>2, <2>3 DEF SchedInv
<1>5. CASE ~pendCsw
  <2>1. /\ Rotated(state, waittime)
        /\ pendSV' = (pendSV \/ (Choice(R) # cur /\ iplCount = 0))
        /\ pendCsw' = (Choice(R) # cur /\ iplCount # 0)
    BY <1>5 DEF SysTick
  <2>2. /\ state' \in [Threads -> States]
        /\ qend' \in 0..Quantum
        /\ timer' \in 0..(Horizon + MaxDelay)
        /\ armed' = TRUE
        /\ {t \in Threads : state'[t] = "RUN"} = R
        /\ \A t \in Threads : state'[t] = "TWAIT" => timer' <= waittime[t]
    BY <1>1, <2>1, RotatedKeeps
  <2>3. SchedTypeOK'
    BY <1>1, <1>2, <1>3, <2>1, <2>2 DEF SchedTypeOK, States, iplVars
  <2>4. TimerCoversDeadlines'
    BY <1>2, <2>2 DEF TimerCoversDeadlines
  <2>5. Outranked(R) => Choice(R) # cur
    BY <1>1, ChoiceIsHighest
  <2>6. HigherPriorityPending'
    BY <1>2, <2>1, <2>2, <2>5 DEF HigherPriorityPending, Outranked
  <2> QED BY <2>3, <2>4, <2>6 DEF SchedInv
<1> QED BY <1>4, <1>5

(* Time takes the timer and the deadlines down together. *)
LEMMA TickKeeps ==
    ASSUME SchedInv, SchedulerAssumption, Tick
    PROVE  SchedInv'
<1> DEFINE Less(k) == IF k > 0 THEN k - 1 ELSE 0
<1>1. SchedTypeOK
  BY DEF SchedInv
<1>2. /\ armed => timer > 0
      /\ waittime' = [t \in Threads |-> Less(waittime[t])]
      /\ qend' = Less(qend)
      /\ timer' = Less(timer)
      /\ UNCHANGED <<state, prio, waitob, cur, armed, pendVars, iplVars, at>>
  BY DEF Tick
<1>3. SchedTypeOK'
  <2>1. \A n \in Nat : \A k \in 0..n : Less(k) \in 0..n
    OBVIOUS
  <2>2. waittime' \in [Threads -> 0..MaxDelay] /\ qend' \in 0..Quantum
        /\ timer' \in 0..(Horizon + MaxDelay)
    BY <1>1, <1>2, <2>1 DEF SchedTypeOK, SchedulerAssumption
  <2> QED BY <1>1, <1>2, <2>2 DEF SchedTypeOK, pendVars, iplVars
<1>4. TimerCoversDeadlines'
  <2> SUFFICES ASSUME NEW t \in Threads, state'[t] = "TWAIT", ~pendSV', ~pendCsw'
               PROVE  armed' /\ timer' <= waittime'[t]
    BY DEF TimerCoversDeadlines
  <2>1. armed /\ timer <= waittime[t]
    BY <1>2 DEF SchedInv, TimerCoversDeadlines, pendVars
  <2>2. timer \in Nat /\ waittime[t] \in Nat
    BY <1>1 DEF SchedTypeOK, SchedulerAssumption
  <2> QED BY <1>2, <2>1, <2>2
<1>5. HigherPriorityPending'
  BY <1>2 DEF SchedInv, HigherPriorityPending, Outranked, pendVars
<1> QED BY <1>3, <1>4, <1>5 DEF SchedInv
-----------------------------------------------------------------------------
(* Places is where a thread can stand. *)
Places == {"code", "reap", "reaped", "idle", "wfi", "check"}

(* A wake-up keeps the invariant: it posts a switch when it makes a thread *)
(* runnable that outranks the current one.                                  *)
LEMMA WakeSingleKeeps ==
    ASSUME SchedInv, SchedulerAssumption, NEW ob, WakeSingle(ob),
           at' \in [Threads -> Places],
           UNCHANGED <<prio, waitob, cur, clockVars, iplVars>>
    PROVE  SchedInv'
<1>1. SchedTypeOK
  BY DEF SchedInv
<1>2. CASE Waiters(ob) = {}
  <2>1. UNCHANGED <<state, pendVars>>
    BY <1>2 DEF WakeSingle
  <2>2. SchedTypeOK'
    BY <1>1, <2>1 DEF SchedTypeOK, Places, pendVars, clockVars, iplVars
  <2>3. TimerCoversDeadlines' /\ HigherPriorityPending'
    BY <2>1 DEF SchedInv, TimerCoversDeadlines, HigherPriorityPending, Outranked,
        pendVars, clockVars
  <2> QED BY <2>2, <2>3 DEF SchedInv
<1>3. CASE Waiters(ob) # {}
  <2> DEFINE top == Highest(Waiters(ob))
  <2>1. /\ state' = [state EXCEPT ![top] = "RUN"]
        /\ IF prio[top] > prio[cur] \/ state'[cur] # "RUN" THEN ContextSwitch ELSE NoSwitch
    BY <1>3 DEF WakeSingle
  <2>2. pendSV' \in BOOLEAN /\ pendCsw' \in BOOLEAN
    BY <1>1, <2>1 DEF ContextSwitch, NoSwitch, pendVars, SchedTypeOK
  <2>3. SchedTypeOK'
    BY <1>1, <2>1, <2>2 DEF SchedTypeOK, Places, clockVars, iplVars
  <2>4. ASSUME pendSV \/ pendCsw PROVE pendSV' \/ pendCsw'
    BY <2>1, <2>4 DEF ContextSwitch, NoSwitch, pendVars
  <2>5. \A t \in Threads : t # top => state'[t] = state[t]
    BY <1>1, <2>1 DEF SchedTypeOK
  <2>6. \A t \in Threads : state'[t] = "TWAIT" => state[t] = "TWAIT"
    BY <1>1, <2>1 DEF SchedTypeOK
  <2>7. TimerCoversDeadlines'
    BY <2>4, <2>6 DEF SchedInv, TimerCoversDeadlines, clockVars
  <2>8. HigherPriorityPending'
    <3> SUFFICES ASSUME NEW t \in Threads, state'[t] = "RUN", prio[t] > prio[cur]
                 PROVE  pendSV' \/ pendCsw'
      BY DEF HigherPriorityPending, Outranked
    <3>1. CASE t = top
      BY <2>1, <3>1 DEF ContextSwitch
    <3>2. CASE t # top
      BY <2>4, <2>5, <3>2 DEF SchedInv, HigherPriorityPending, Outranked
    <3> QED BY <3>1, <3>2
  <2> QED BY <2>3, <2>7, <2>8 DEF SchedInv
<1> QED BY <1>2, <1>3

(* So does WakeAll, whose waiters can outrank the current thread too. *)
LEMMA WakeAllKeeps ==
    ASSUME SchedInv, SchedulerAssumption, NEW ob, WakeAll(ob),
           at' \in [Threads -> Places],
           UNCHANGED <<prio, waitob, cur, clockVars, iplVars>>
    PROVE  SchedInv'
<1>1. SchedTypeOK
  BY DEF SchedInv
<1>2. /\ state' = [t \in Threads |-> IF t \in Waiters(ob) THEN "RUN" ELSE state[t]]
      /\ IF Outranked(Waiters(ob)) THEN ContextSwitch ELSE NoSwitch
  BY DEF WakeAll
<1>3. pendSV' \in BOOLEAN /\ pendCsw' \in BOOLEAN
  BY <1>1, <1>2 DEF ContextSwitch, NoSwitch, pendVars, SchedTypeOK
<1>4. SchedTypeOK'
  BY <1>1, <1>2, <1>3 DEF SchedTypeOK, Places, clockVars, iplVars
<1>5. ASSUME pendSV \/ pendCsw PROVE pendSV' \/ pendCsw'
  BY <1>2, <1>5 DEF ContextSwitch, NoSwitch, pendVars
<1>6. TimerCoversDeadlines'
  BY <1>2, <1>5 DEF SchedInv, TimerCoversDeadlines, clockVars
<1>7. HigherPriorityPending'
  <2> SUFFICES ASSUME NEW t \in Threads, state'[t] = "RUN", prio[t] > prio[cur]
               PROVE  pendSV' \/ pendCsw'
    BY DEF HigherPriorityPending, Outranked
  <2>1. CASE t \in Waiters(ob)
    BY <1>2, <2>1 DEF ContextSwitch, Outranked
  <2>2. CASE t \notin Waiters(ob)
    BY <1>2, <1>5, <2>2 DEF SchedInv, HigherPriorityPending, Outranked
  <2> QED BY <2>1, <2>2
<1> QED BY <1>4, <1>6, <1>7 DEF SchedInv

(* Entering Idle keeps the invariant whatever its caller made of the       *)
(* current thread, as long as that is not more runnable than it was.        *)
LEMMA EnterIdleKeeps ==
    ASSUME SchedInv, SchedulerAssumption,
           NEW s \in [Threads -> States], NEW w \in [Threads -> 0..MaxDelay],
           NEW k \in 0..(IplModulus - 1), EnterIdle(s, w, k),
           waitob' \in [Threads -> Objects \cup Threads \cup {NULL}]
    PROVE  SchedInv'
<1> DEFINE R == Ready(s, w)
<1>1. /\ SchedTypeOK
      /\ R \in SUBSET Threads
  BY ReadyThreads DEF SchedInv
<1>2. /\ waittime' = w
      /\ pendSV' = (pendCsw \/ Choice(R) # cur)
      /\ pendCsw' = FALSE
      /\ saved' = [saved EXCEPT ![cur] = k]
      /\ iplCount' = 0
      /\ at' = [at EXCEPT ![cur] = "idle"]
      /\ UNCHANGED <<prio, cur, masked>>
  BY DEF EnterIdle
<1>3. /\ pendSV' \in BOOLEAN /\ pendCsw' \in BOOLEAN /\ iplCount' \in 0..(IplModulus - 1)
      /\ saved' \in [Threads -> 0..(IplModulus - 1)] /\ at' \in [Threads -> Places]
  <2>1. pendSV' \in BOOLEAN /\ pendCsw' \in BOOLEAN
    BY <1>1, <1>2 DEF SchedTypeOK
  <2>2. iplCount' \in 0..(IplModulus - 1)
    BY <1>2 DEF SchedulerAssumption
  <2>3. saved' \in [Threads -> 0..(IplModulus - 1)]
    BY <1>1, <1>2 DEF SchedTypeOK
  <2>4. at' \in [Threads -> Places]
    BY <1>1, <1>2 DEF SchedTypeOK, Places
  <2> QED BY <2>1, <2>2, <2>3, <2>4
<1>4. CASE pendCsw
  <2>1. state' = s /\ UNCHANGED <<qend, timer, armed>>
    BY <1>4 DEF EnterIdle
  <2>2. SchedTypeOK'
    BY <1>1, <1>2, <1>3, <2>1 DEF SchedTypeOK, Places, States
  <2>3. TimerCoversDeadlines' /\ HigherPriorityPending'
    BY <1>2, <1>4 DEF TimerCoversDeadlines, HigherPriorityPending
  <2> QED BY <2>2, <2>3 DEF SchedInv
<1>5. CASE ~pendCsw
  <2>1. Rotated(s, w)
    BY <1>5 DEF EnterIdle
  <2>2. /\ state' \in [Threads -> States]
        /\ qend' \in 0..Quantum
        /\ timer' \in 0..(Horizon + MaxDelay)
        /\ armed' = TRUE
        /\ {t \in Threads : state'[t] = "RUN"} = R
        /\ \A t \in Threads : state'[t] = "TWAIT" => timer' <= w[t]
    BY <1>1, <2>1, RotatedKeeps
  <2>3. SchedTypeOK'
    BY <1>1, <1>2, <1>3, <2>2 DEF SchedTypeOK, States, Places
  <2>4. TimerCoversDeadlines'
    BY <1>2, <2>2 DEF TimerCoversDeadlines
  <2>5. Outranked(R) => Choice(R) # cur
    BY <1>1, ChoiceIsHighest
  <2>6. HigherPriorityPending'
    BY <1>2, <2>2, <2>5 DEF HigherPriorityPending, Outranked
  <2> QED BY <2>3, <2>4, <2>6 DEF SchedInv
<1> QED BY <1>4, <1>5

(* A wait without a limit goes through Idle. *)
LEMMA WaitKeeps ==
    ASSUME SchedInv, SchedulerAssumption,
           NEW ob \in Objects \cup Threads \cup {NULL}, NEW k \in 0..(IplModulus - 1),
           Wait(ob, k)
    PROVE  SchedInv'
<1>1. SchedTypeOK
  BY DEF SchedInv
<1>2. /\ waitob' = [waitob EXCEPT ![cur] = ob]
      /\ EnterIdle([state EXCEPT ![cur] = "WAIT"], waittime, k)
  BY DEF Wait
<1>3. [state EXCEPT ![cur] = "WAIT"] \in [Threads -> States]
  BY <1>1 DEF SchedTypeOK, States, Blocked
<1>4. waitob' \in [Threads -> Objects \cup Threads \cup {NULL}]
  BY <1>1, <1>2 DEF SchedTypeOK
<1>5. waittime \in [Threads -> 0..MaxDelay]
  BY <1>1 DEF SchedTypeOK
<1> QED BY <1>2, <1>3, <1>4, <1>5, EnterIdleKeeps

(* A timed wait does so with a deadline the pass of Rotate takes in. *)
LEMMA TimedWaitKeeps ==
    ASSUME SchedInv, SchedulerAssumption,
           NEW ob \in Objects \cup Threads \cup {NULL}, NEW d \in 0..MaxDelay,
           NEW k \in 0..(IplModulus - 1), TimedWait(ob, d, k)
    PROVE  SchedInv'
<1>1. SchedTypeOK
  BY DEF SchedInv
<1>2. /\ waitob' = [waitob EXCEPT ![cur] = ob]
      /\ EnterIdle([state EXCEPT ![cur] = "TWAIT"], [waittime EXCEPT ![cur] = d], k)
  BY DEF TimedWait
<1>3. [state EXCEPT ![cur] = "TWAIT"] \in [Threads -> States]
  BY <1>1 DEF SchedTypeOK, States, Blocked
<1>4. waitob' \in [Threads -> Objects \cup Threads \cup {NULL}]
  BY <1>1, <1>2 DEF SchedTypeOK
<1>5. [waittime EXCEPT ![cur] = d] \in [Threads -> 0..MaxDelay]
  BY <1>1 DEF SchedTypeOK
<1> QED BY <1>2, <1>3, <1>4, <1>5, EnterIdleKeeps

(* WFI touches nothing but where the thread stands. *)
LEMMA WaitForInterruptKeeps ==
    ASSUME SchedInv, WaitForInterrupt
    PROVE  SchedInv'
<1>1. SchedTypeOK'
  BY DEF SchedInv, SchedTypeOK, WaitForInterrupt, clockVars, pendVars, iplVars
<1>2. TimerCoversDeadlines' /\ HigherPriorityPending'
  BY DEF SchedInv, TimerCoversDeadlines, HigherPriorityPending, Outranked,
         WaitForInterrupt, clockVars, pendVars
<1> QED BY <1>1, <1>2 DEF SchedInv

(* Another turn of Idle's loop posts the switch that was deferred. *)
LEMMA IdleAgainKeeps ==
    ASSUME SchedInv, SchedulerAssumption, IdleAgain
    PROVE  SchedInv'
<1>1. /\ ~pendSV /\ pendSV' = pendCsw
      /\ UNCHANGED <<state, prio, waitob, cur, clockVars, saved, masked>>
  BY DEF IdleAgain, InIdle
<1>2. SchedTypeOK'
  <2>1. SchedTypeOK
    BY DEF SchedInv
  <2>2. pendSV' \in BOOLEAN /\ pendCsw' \in BOOLEAN
    BY <1>1, <2>1 DEF SchedTypeOK, IdleAgain
  <2>3. iplCount' \in 0..(IplModulus - 1)
    BY DEF IdleAgain, SchedulerAssumption
  <2>4. at' \in [Threads -> Places]
    BY <2>1 DEF SchedTypeOK, IdleAgain, Places
  <2> QED BY <1>1, <2>1, <2>2, <2>3, <2>4 DEF SchedTypeOK, Places, clockVars
<1>3. TimerCoversDeadlines' /\ HigherPriorityPending'
  BY <1>1 DEF SchedInv, TimerCoversDeadlines, HigherPriorityPending, Outranked, clockVars
<1> QED BY <1>2, <1>3 DEF SchedInv

(* A thread that returns from Idle is in no timed wait. *)
LEMMA LeaveIdleKeeps ==
    ASSUME SchedInv, SchedulerAssumption, Woken, LeaveIdle
    PROVE  SchedInv'
<1>1. SchedTypeOK /\ state[cur] = "RUN"
  BY DEF SchedInv, Woken
<1>2. SchedTypeOK'
  <2>1. iplCount' \in 0..(IplModulus - 1) /\ saved' \in [Threads -> 0..(IplModulus - 1)]
    BY <1>1 DEF SchedTypeOK, LeaveIdle, SchedulerAssumption
  <2>2. waitob' \in [Threads -> Objects \cup Threads \cup {NULL}]
    BY <1>1 DEF SchedTypeOK, LeaveIdle
  <2>3. waittime' \in [Threads -> 0..MaxDelay]
    BY <1>1 DEF SchedTypeOK, LeaveIdle, SchedulerAssumption
  <2>4. at' \in [Threads -> Places]
    BY <1>1 DEF SchedTypeOK, LeaveIdle, Places
  <2>5. UNCHANGED <<state, prio, cur, qend, timer, armed, pendSV, pendCsw, masked>>
    BY DEF LeaveIdle, pendVars
  <2> QED BY <1>1, <2>1, <2>2, <2>3, <2>4, <2>5 DEF SchedTypeOK, Places
<1>3. \A t \in Threads : state[t] = "TWAIT" => waittime'[t] = waittime[t]
  BY <1>1 DEF LeaveIdle, SchedTypeOK
<1>4. TimerCoversDeadlines'
  BY <1>3 DEF SchedInv, TimerCoversDeadlines, LeaveIdle, pendVars
<1>5. HigherPriorityPending'
  BY DEF SchedInv, HigherPriorityPending, Outranked, LeaveIdle, pendVars
<1> QED BY <1>2, <1>4, <1>5 DEF SchedInv

(* The invariant holds where the runs start, and while nothing of the      *)
(* scheduler changes.                                                       *)
LEMMA BootstrapInv ==
    ASSUME SchedulerAssumption, Bootstrap
    PROVE  SchedInv
<1>1. SchedTypeOK
  <2>1. /\ state \in [Threads -> States] /\ cur \in Threads
        /\ pendSV \in BOOLEAN /\ pendCsw \in BOOLEAN /\ armed \in BOOLEAN
    <3>1. 1 \in Threads
      BY DEF Threads, SchedulerAssumption
    <3> QED BY <3>1 DEF Bootstrap, Main, States
  <2>2. /\ prio \in [Threads -> 0..MaxPrio] /\ waittime \in [Threads -> 0..MaxDelay]
        /\ waitob \in [Threads -> Objects \cup Threads \cup {NULL}]
        /\ masked \in [Threads -> BOOLEAN] /\ at \in [Threads -> Places]
    BY DEF Bootstrap, SchedulerAssumption, Places
  <2>3. qend \in 0..Quantum /\ timer \in 0..(Horizon + MaxDelay)
    BY DEF Bootstrap, SchedulerAssumption
  <2>4. iplCount \in 0..(IplModulus - 1) /\ saved \in [Threads -> 0..(IplModulus - 1)]
    BY DEF Bootstrap, SchedulerAssumption
  <2> QED BY <2>1, <2>2, <2>3, <2>4 DEF SchedTypeOK, States, Places
<1>2. TimerCoversDeadlines
  BY DEF TimerCoversDeadlines, Bootstrap
<1>3. HigherPriorityPending
  BY DEF HigherPriorityPending, Outranked, Bootstrap, Threads, Main
<1> QED BY <1>1, <1>2, <1>3 DEF SchedInv

(* So does the state in which every thread is up and running. *)
LEMMA SettledInv ==
    ASSUME SchedulerAssumption, Settled
    PROVE  SchedInv
<1>1. SchedTypeOK
  <2>1. /\ state \in [Threads -> States] /\ cur \in Threads
        /\ pendSV \in BOOLEAN /\ pendCsw \in BOOLEAN /\ armed \in BOOLEAN
    BY DEF Settled, States
  <2>2. /\ prio \in [Threads -> 0..MaxPrio] /\ waittime \in [Threads -> 0..MaxDelay]
        /\ waitob \in [Threads -> Objects \cup Threads \cup {NULL}]
        /\ masked \in [Threads -> BOOLEAN] /\ at \in [Threads -> Places]
    BY DEF Settled, SchedulerAssumption, Places
  <2>3. qend \in 0..Quantum /\ timer \in 0..(Horizon + MaxDelay)
    BY DEF Settled, SchedulerAssumption
  <2>4. iplCount \in 0..(IplModulus - 1) /\ saved \in [Threads -> 0..(IplModulus - 1)]
    BY DEF Settled, SchedulerAssumption
  <2> QED BY <2>1, <2>2, <2>3, <2>4 DEF SchedTypeOK, States, Places
<1>2. TimerCoversDeadlines
  BY DEF TimerCoversDeadlines, Settled
<1>3. HigherPriorityPending
  <2>1. \A t \in Threads : prio[t] \in Nat /\ cur \in Threads
    BY DEF Settled, SchedulerAssumption
  <2> QED BY <2>1 DEF HigherPriorityPending, Outranked, Settled
<1> QED BY <1>1, <1>2, <1>3 DEF SchedInv

(* A step that leaves the scheduler alone keeps its invariant. *)
LEMMA StutterKeeps ==
    ASSUME SchedInv, UNCHANGED schedVars
    PROVE  SchedInv'
<1>1. SchedTypeOK'
  BY DEF SchedInv, SchedTypeOK, schedVars, clockVars, pendVars, iplVars
<1>2. TimerCoversDeadlines' /\ HigherPriorityPending'
  BY DEF SchedInv, TimerCoversDeadlines, HigherPriorityPending, Outranked,
         schedVars, clockVars, pendVars
<1> QED BY <1>1, <1>2 DEF SchedInv

(* What goes on by itself keeps the invariant. *)
LEMMA SystemKeeps ==
    ASSUME SchedInv, SchedulerAssumption, System
    PROVE  SchedInv'
BY PendSVKeeps, SysTickKeeps, TickKeeps, WaitForInterruptKeeps, IdleAgainKeeps DEF System

-----------------------------------------------------------------------------
(* What the modules built on the scheduler need to know of it besides. *)

(* A pass of Rotate makes threads runnable whose timed wait is over, and   *)
(* does nothing else to a thread's state.                                   *)
LEMMA RotatedReleases ==
    ASSUME NEW s, NEW w, Rotated(s, w), NEW t \in Threads
    PROVE  state'[t] = s[t] \/ (s[t] = "TWAIT" /\ state'[t] = "RUN")
BY DEF Rotated, Released, Ready

(* So does all that goes on by itself, which leaves _waitob alone. *)
LEMMA SystemReleases ==
    ASSUME SchedTypeOK, System
    PROVE  /\ waitob' = waitob
           /\ \A t \in Threads :
                state'[t] = state[t] \/ (state[t] = "TWAIT" /\ state'[t] = "RUN")
<1> DEFINE Kept == \A t \in Threads :
                     state'[t] = state[t] \/ (state[t] = "TWAIT" /\ state'[t] = "RUN")
<1>1. CASE PendSV
  BY <1>1, RotatedReleases DEF PendSV
<1>2. CASE SysTick
  <2>1. CASE pendCsw
    BY <1>2, <2>1 DEF SysTick
  <2>2. CASE ~pendCsw
    BY <1>2, <2>2, RotatedReleases DEF SysTick
  <2> QED BY <2>1, <2>2
<1>3. CASE Tick \/ WaitForInterrupt \/ IdleAgain
  BY <1>3 DEF Tick, WaitForInterrupt, IdleAgain
<1> QED BY <1>1, <1>2, <1>3 DEF System

(* A thread that waits is blocked on the object it waits for, or has been  *)
(* released already; no other thread's wait changes.                        *)
LEMMA WaitBlocks ==
    ASSUME SchedTypeOK, NEW ob, NEW k, Wait(ob, k)
    PROVE  /\ state'[cur] = "WAIT"
           /\ waitob' = [waitob EXCEPT ![cur] = ob]
           /\ \A t \in Threads \ {cur} :
                state'[t] = state[t] \/ (state[t] = "TWAIT" /\ state'[t] = "RUN")
<1> DEFINE s == [state EXCEPT ![cur] = "WAIT"]
<1>1. cur \in Threads /\ s[cur] = "WAIT" /\ \A t \in Threads \ {cur} : s[t] = state[t]
  BY DEF SchedTypeOK
<1>2. state' = s \/ Rotated(s, waittime)
  BY DEF Wait, EnterIdle
<1>3. \A t \in Threads : state'[t] = s[t] \/ (s[t] = "TWAIT" /\ state'[t] = "RUN")
  BY <1>2, RotatedReleases
<1> QED BY <1>1, <1>3 DEF Wait

(* The same of the timed wait. *)
LEMMA TimedWaitBlocks ==
    ASSUME SchedTypeOK, NEW ob, NEW d, NEW k, TimedWait(ob, d, k)
    PROVE  /\ state'[cur] \in {"TWAIT", "RUN"}
           /\ waitob' = [waitob EXCEPT ![cur] = ob]
           /\ \A t \in Threads \ {cur} :
                state'[t] = state[t] \/ (state[t] = "TWAIT" /\ state'[t] = "RUN")
<1> DEFINE s == [state EXCEPT ![cur] = "TWAIT"]
           w == [waittime EXCEPT ![cur] = d]
<1>1. cur \in Threads /\ s[cur] = "TWAIT" /\ \A t \in Threads \ {cur} : s[t] = state[t]
  BY DEF SchedTypeOK
<1>2. state' = s \/ Rotated(s, w)
  BY DEF TimedWait, EnterIdle
<1>3. \A t \in Threads : state'[t] = s[t] \/ (s[t] = "TWAIT" /\ state'[t] = "RUN")
  BY <1>2, RotatedReleases
<1> QED BY <1>1, <1>3 DEF TimedWait

(* WakeSingle makes exactly one of the threads blocked on the object       *)
(* runnable, if there is one.                                               *)
LEMMA WakeSingleWakes ==
    ASSUME SchedTypeOK, SchedulerAssumption, NEW ob, WakeSingle(ob)
    PROVE  \/ Waiters(ob) = {} /\ state' = state
           \/ \E t \in Waiters(ob) : state' = [state EXCEPT ![t] = "RUN"]
<1>1. CASE Waiters(ob) = {}
  BY <1>1 DEF WakeSingle
<1>2. CASE Waiters(ob) # {}
  <2>1. /\ prio \in [Threads -> Nat] /\ \A t \in Waiters(ob) : prio[t] <= MaxPrio
        /\ MaxPrio \in Nat /\ MaxThreads \in Nat /\ Waiters(ob) \in SUBSET Threads
    BY DEF SchedTypeOK, SchedulerAssumption, Waiters
  <2>2. Highest(Waiters(ob)) \in Waiters(ob)
    BY <1>2, <2>1, HighestChosen
  <2> QED BY <1>2, <2>2 DEF WakeSingle
<1> QED BY <1>1, <1>2

(* WakeAll makes every thread runnable that is blocked on the object. *)
LEMMA WakeAllWakes ==
    ASSUME NEW ob, WakeAll(ob), NEW t \in Threads
    PROVE  state'[t] = IF t \in Waiters(ob) THEN "RUN" ELSE state[t]
BY DEF WakeAll

(* There are no more waiters than threads. *)
LEMMA WaitersFinite ==
    ASSUME SchedulerAssumption, NEW S \in SUBSET Threads
    PROVE  IsFiniteSet(S) /\ Cardinality(S) \in 0..MaxThreads
<1>1. MaxThreads \in Int /\ 1 \in Int /\ MaxThreads >= 1
  BY DEF SchedulerAssumption
<1>2. IsFiniteSet(1..MaxThreads) /\ Cardinality(1..MaxThreads) = MaxThreads
  BY <1>1, FS_Interval
<1>3. IsFiniteSet(S) /\ Cardinality(S) <= MaxThreads
  BY <1>2, FS_Subset DEF Threads
<1> QED BY <1>1, <1>3, FS_CardinalityType
================================================================================
