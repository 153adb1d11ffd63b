-------------------------------- MODULE Eeprom --------------------------------
(***************************************************************************)
(* The EEPROM driver of soc/lpc/lpc_eeprom.cxx: users that take the driver  *)
(* in turn, and the interrupts that move a user's data.  Addresses are      *)
(* counted in pages, data in half words.  The IPL that Read and Write take  *)
(* masks no interrupt (Thread.tla), so a user's test of the state and its   *)
(* wait are two steps; the end of the transfer may come between them.       *)
(***************************************************************************)
EXTENDS Integers

CONSTANTS
    Users,
    Pages,          \* the addresses that transfers start at
    MaxLen,         \* bound on the length of a transfer
    NULL            \* no user

(* What the proofs assume: there is a last page. *)
EepromAssumption ==
    /\ NULL \notin Users
    /\ Pages \subseteq Nat /\ \E p \in Pages : \A q \in Pages : q <= p
    /\ MaxLen \in Nat

VARIABLES
    pc,             \* where each user is
    lock,           \* who holds _lock
    state,          \* _state
    remain, page,   \* _remain, _page
    device          \* the operation that will interrupt

vars == <<pc, lock, state, remain, page, device>>

LastPage == CHOOSE p \in Pages : \A q \in Pages : q <= p

TypeOK ==
    /\ pc \in [Users -> {"out", "lock", "test", "go wait", "waiting",
                          "begin", "poll", "go sleep", "asleep"}]
    /\ lock \in Users \cup {NULL}
    /\ state \in {"idle", "write", "prog", "write done", "read", "read done"}
    /\ remain \in 0..MaxLen
    /\ page \in 0..(LastPage + 1)
    /\ device \in {"none", "write", "program", "read"}

Init ==
    /\ pc = [u \in Users |-> "out"]
    /\ lock = NULL /\ state = "idle"
    /\ remain = 0 /\ page = 0 /\ device = "none"

Step(u, from, to) == pc[u] = from /\ pc' = [pc EXCEPT ![u] = to]

transfer == <<remain, page, device>>

-----------------------------------------------------------------------------
Call(u) ==
    /\ Step(u, "out", "lock")
    /\ UNCHANGED <<lock, state, transfer>>

Lock(u) ==
    /\ Step(u, "lock", "test")
    /\ lock = NULL /\ lock' = u
    /\ UNCHANGED <<state, transfer>>

(* Mutant of Acquire: the state is not tested again after a wait. *)
AcquireWoken(u, op) ==
    /\ Step(u, "test", "begin")
    /\ state' = op
    /\ lock' = NULL
    /\ UNCHANGED transfer

Acquire(u, op) ==
    /\ Step(u, "test", "begin")
    /\ state = "idle" /\ state' = op
    /\ lock' = NULL
    /\ UNCHANGED transfer

AcquireWaits(u) ==
    /\ Step(u, "test", "go wait")
    /\ state # "idle"
    /\ lock' = NULL
    /\ UNCHANGED <<state, transfer>>

WaitFor(u) ==
    /\ Step(u, "go wait", "waiting") \/ Step(u, "go sleep", "asleep")
    /\ UNCHANGED <<lock, state, transfer>>

(* WriteFill programs the page if the page register is thought full or the  *)
(* data are at their end.                                                   *)
WriteFill(r, p) ==
    IF p = 1 \/ r = 0
    THEN state' = "prog" /\ device' = "program" /\ page' = p + 1 /\ remain' = r
    ELSE state' = "write" /\ device' = "write" /\ page' = p /\ remain' = r - 1

Write(u) ==
    /\ Step(u, "begin", "poll")
    /\ state = "write"
    /\ \E len \in 1..MaxLen, p \in Pages : WriteFill(len, p)
    /\ UNCHANGED lock

(* With nothing to write, Write lets go at once. *)
WriteNothing(u) ==
    /\ Step(u, "begin", "out")
    /\ state = "write" /\ state' = "idle"
    /\ remain' = 0 /\ page' \in Pages
    /\ UNCHANGED <<lock, device>>

Read(u) ==
    /\ Step(u, "begin", "poll")
    /\ state = "read"
    /\ remain' \in 0..MaxLen /\ device' = "read"
    /\ UNCHANGED <<lock, state, page>>

Done == state \in {"write done", "read done"}

Sleep(u) ==
    /\ Step(u, "poll", "go sleep")
    /\ ~Done
    /\ UNCHANGED <<lock, state, transfer>>

Return(u) ==
    /\ Step(u, "poll", "out")
    /\ Done /\ state' = "idle"
    /\ UNCHANGED <<lock, transfer>>

-----------------------------------------------------------------------------
(* HandleInterrupt.  Nobody is woken but at the end of a transfer. *)
WakeAll ==
    pc' = [u \in Users |->
              CASE pc[u] = "waiting" -> "lock" [] pc[u] = "asleep" -> "poll"
                [] OTHER -> pc[u]]

Programmed ==
    /\ device = "program" /\ state = "prog" /\ device' = "none"
    /\ \/ remain = 0 /\ state' = "write done" /\ WakeAll
       \/ remain > 0 /\ state' = "write" /\ UNCHANGED pc
    /\ UNCHANGED <<lock, remain, page>>

Written ==
    /\ device = "write" /\ state = "write"
    /\ WriteFill(remain, page)
    /\ UNCHANGED <<pc, lock>>

Arrived ==
    /\ device = "read" /\ state = "read"
    /\ \/ remain > 1 /\ remain' = remain - 1 /\ UNCHANGED <<pc, state, device>>
       \/ remain <= 1 /\ remain' = 0 /\ state' = "read done" /\ device' = "none" /\ WakeAll
    /\ UNCHANGED <<lock, page>>

HandleInterrupt == Programmed \/ Written \/ Arrived

Next ==
    \/ \E u \in Users :
        \/ Call(u) \/ Lock(u) \/ AcquireWaits(u) \/ WaitFor(u)
        \/ \E op \in {"read", "write"} : Acquire(u, op)
        \/ Write(u) \/ WriteNothing(u) \/ Read(u) \/ Sleep(u) \/ Return(u)
    \/ HandleInterrupt

Spec == Init /\ [][Next]_vars

-----------------------------------------------------------------------------
(* The driver is one user's from Acquire to the end of its call, so that    *)
(* its data are the ones moved, and they have all been moved before the     *)
(* call returns (Acquire, Read, Write, HandleInterrupt).                    *)
OneTransfer ==
    LET inside == {u \in Users : pc[u] \in {"begin", "poll", "go sleep", "asleep"}}
    IN  /\ \A u, v \in inside : u = v
        /\ inside = {} <=> state = "idle"
        /\ Done => remain = 0 /\ device = "none"
=============================================================================
