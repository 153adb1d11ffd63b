---------------------------------- MODULE Dns ----------------------------------
(***************************************************************************)
(* The resolver of core/dns.cxx as a monitor: GetAddrByName brackets its   *)
(* use of the one socket with Acquire and Release, which hand _state from  *)
(* thread to thread with _lock and the condition variable _change.  SetNS  *)
(* and SetDomain signal the same condition variable.  The queries, their   *)
(* retries and the parsing of replies are a sleep here.                     *)
(***************************************************************************)
EXTENDS CondVar

VARIABLES
    resolver,       \* Dns::_state
    task            \* where a thread stands in Dns's code

dnsVars == <<cvVars, resolver, task>>

DnsTypeOK ==
    /\ CvTypeOK
    /\ resolver \in {"IDLE", "RESOLVING"}
    /\ task \in [Threads -> {"out", "acquire", "resolve", "release", "setns", "unlock"}]

DnsInit ==
    /\ CvInit
    /\ resolver = "IDLE"
    /\ task = [t \in Threads |-> "out"]

TaskGo(where) == task' = [task EXCEPT ![cur] = where]
TaskRuns(where) == CvRuns("none") /\ task[cur] = where

(* Each of the three starts with Mutex::Scoped L(_lock). *)
Enter(from, to) ==
    /\ TaskRuns(from)
    /\ depth[cur] = 0
    /\ LockCalled(Deeper)
    /\ TaskGo(to)
    /\ UNCHANGED <<condVars, resolver>>

Acquire1 == Enter("out", "acquire")
Release1 == Enter("resolve", "release")
SetNS1 == Enter("out", "setns")

(* Acquire with the lock: wait while the resolver is not idle, then take it *)
(* and leave the scope of the lock.                                         *)
AcquireWaits ==
    /\ TaskRuns("acquire")
    /\ depth[cur] = 1
    /\ resolver # "IDLE"
    /\ WaitBegin
    /\ UNCHANGED <<resolver, task>>

(* Mutant of AcquireTakes: the state is not tested again after a wait. *)
AcquireTakesOnce ==
    /\ TaskRuns("acquire")
    /\ depth[cur] = 1
    /\ resolver' = "RESOLVING"
    /\ Unlock
    /\ TaskGo("resolve")
    /\ UNCHANGED condVars

AcquireTakes ==
    /\ TaskRuns("acquire")
    /\ depth[cur] = 1
    /\ resolver = "IDLE"
    /\ resolver' = "RESOLVING"
    /\ Unlock
    /\ TaskGo("resolve")
    /\ UNCHANGED condVars

(* SetState and SetNS with the lock: change the state and signal. *)
Signal ==
    \/ SignalBegin("signal")
    \/ condCount = 0 /\ UNCHANGED cvVars

ReleaseSignals ==
    /\ TaskRuns("release")
    /\ depth[cur] = 1
    /\ resolver' = "IDLE"
    /\ Signal
    /\ TaskGo("unlock")

SetNSSignals ==
    /\ TaskRuns("setns")
    /\ depth[cur] = 1
    /\ Signal
    /\ TaskGo("unlock")
    /\ UNCHANGED resolver

Leave ==
    /\ TaskRuns("unlock")
    /\ Unlock
    /\ TaskGo("out")
    /\ UNCHANGED <<condVars, resolver>>

(* SetDomain broadcasts without the lock. *)
SetDomain ==
    /\ TaskRuns("out")
    /\ SignalBegin("broadcast")
    /\ UNCHANGED <<resolver, task>>

(* A thread sleeps elsewhere, or for a reply to its query. *)
Pause ==
    /\ TaskRuns("out") \/ TaskRuns("resolve")
    /\ \E d \in 1..MaxDelay : Sleep(d)
    /\ UNCHANGED <<condVars, resolver, task>>

DnsNext ==
    \/ Acquire1
    \/ Release1
    \/ SetNS1
    \/ AcquireWaits
    \/ AcquireTakes
    \/ ReleaseSignals
    \/ SetNSSignals
    \/ Leave
    \/ SetDomain
    \/ Pause
    \/ CvOn /\ UNCHANGED <<resolver, task>>

DnsSpec == DnsInit /\ [][DnsNext]_dnsVars

-----------------------------------------------------------------------------
(* The resolver's one socket is used by one thread at a time, and _state    *)
(* tells whether it is in use.                                              *)
Resolving == {t \in Threads : task[t] \in {"resolve", "release"}}
OneResolver ==
    /\ \A t, u \in Resolving : t = u
    /\ (resolver = "RESOLVING") <=> (Resolving # {})

(* core/dns.h: _change "Signals state change".  Threads are not all blocked *)
(* in Acquire, or away, while the resolver is idle.                         *)
BlockedInAcquire == {t \in Threads : cv[t] = "wait" /\ state[t] \in Blocked}
ChangeSignalled ==
    resolver = "IDLE" /\ BlockedInAcquire # {} =>
        \E t \in Threads : task[t] # "out" /\ t \notin BlockedInAcquire
================================================================================
