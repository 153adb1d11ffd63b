--------------------------------- MODULE Udp ---------------------------------
(***************************************************************************)
(* UDP sockets (core/udp.cxx): the list of sockets by tuple, and the        *)
(* receive queue and event bits of each.  The socket list's lock and each   *)
(* socket's are mutexes; a step is a section under one.  The event bits are *)
(* also changed without the socket's lock, by IcmpError, so a change of     *)
(* them is a read and a write.                                              *)
(*                                                                          *)
(* One thread binds, connects and closes a socket, any reader receives from *)
(* it, and the network thread delivers.  What is delivered is a count.      *)
(***************************************************************************)
EXTENDS Integers

CONSTANTS
    Sockets,
    Tuples,         \* the addresses and ports a socket can have
    Readers,        \* the threads in RecvFrom
    NULL,
    QueueMax        \* bound: datagrams queued on a socket

(* What the proofs assume of the constants. *)
UdpAssumption == NULL \notin Sockets /\ NULL \notin Tuples /\ QueueMax \in Nat

VARIABLES
    socklist,   \* Udp::_socklist
    id,         \* UdpCoreSocket::_id
    opc,        \* where the socket's owner is
    want,       \* the tuple it wants
    recvq,      \* the length of _recvq
    ev,         \* CoreSocket::_event
    npc,        \* where the network thread is
    nsock,      \* the socket it has found
    nev,        \* the event bits it has read
    rpc,        \* where a reader is
    rsock,      \* the socket it reads from
    rev,        \* the event bits it has read
    halted      \* an assertion has stopped the system

ownVars == <<id, opc, want>>
netVars == <<npc, nsock, nev>>
readVars == <<rpc, rsock, rev>>
vars == <<socklist, ownVars, recvq, ev, netVars, readVars, halted>>

Events == SUBSET {"readable", "error"}

TypeOK ==
    /\ socklist \in [Tuples -> Sockets \cup {NULL}]
    /\ id \in [Sockets -> Tuples \cup {NULL}]
    /\ want \in [Sockets -> Tuples \cup {NULL}]
    /\ opc \in [Sockets -> {"new", "open", "found", "deregistered", "renamed", "closed"}]
    /\ recvq \in [Sockets -> 0..QueueMax]
    /\ ev \in [Sockets -> Events]
    /\ npc \in {"idle", "deliver", "error"}
    /\ nsock \in Sockets \cup {NULL} /\ nev \in Events
    /\ rpc \in [Readers -> {"idle", "tested", "clear"}]
    /\ rsock \in [Readers -> Sockets \cup {NULL}]
    /\ rev \in [Readers -> Events]
    /\ halted \in BOOLEAN

Init ==
    /\ socklist = [t \in Tuples |-> NULL]
    /\ id = [s \in Sockets |-> NULL]
    /\ want = [s \in Sockets |-> NULL]
    /\ opc = [s \in Sockets |-> "new"]
    /\ recvq = [s \in Sockets |-> 0]
    /\ ev = [s \in Sockets |-> {}]
    /\ npc = "idle" /\ nsock = NULL /\ nev = {}
    /\ rpc = [r \in Readers |-> "idle"]
    /\ rsock = [r \in Readers |-> NULL]
    /\ rev = [r \in Readers |-> {}]
    /\ halted = FALSE

-----------------------------------------------------------------------------
(* The list's lock is free: IcmpError holds it from one step to another. *)
ListFree == npc # "error"

Register(s, t) == socklist' = [socklist EXCEPT ![t] = s]
Deregister(s) == socklist' = [socklist EXCEPT ![id[s]] = NULL]

OwnerGoes(s, from, to) == opc[s] = from /\ opc' = [opc EXCEPT ![s] = to]

(* Udp::Create takes a port that nobody has, under the list's lock. *)
Create(s) ==
    /\ ListFree
    /\ OwnerGoes(s, "new", "open")
    /\ \E t \in Tuples :
        /\ socklist[t] = NULL
        /\ id' = [id EXCEPT ![s] = t]
        /\ Register(s, t)
    /\ UNCHANGED <<want, recvq, ev, netVars, readVars>>

(* Bind and Connect: Find, Deregister, the new _id and Register each lock   *)
(* for themselves.                                                          *)
FindFree(s) ==
    /\ ListFree
    /\ OwnerGoes(s, "open", "found")
    /\ \E t \in Tuples :
        /\ socklist[t] = NULL
        /\ want' = [want EXCEPT ![s] = t]
    /\ UNCHANGED <<socklist, id, recvq, ev, netVars, readVars>>

(* Mutant of Unlist: the old tuple stays listed. *)
UnlistNot(s) ==
    /\ ListFree
    /\ OwnerGoes(s, "found", "deregistered")
    /\ UNCHANGED <<socklist, id, want, recvq, ev, netVars, readVars>>

Unlist(s) ==
    /\ ListFree
    /\ OwnerGoes(s, "found", "deregistered")
    /\ Deregister(s)
    /\ UNCHANGED <<id, want, recvq, ev, netVars, readVars>>

(* A reader that holds the socket's lock. *)
Locked(s) == \E r \in Readers : rpc[r] = "clear" /\ rsock[r] = s

Rename(s) ==
    /\ OwnerGoes(s, "deregistered", "renamed")
    /\ ~Locked(s)
    /\ id' = [id EXCEPT ![s] = want[s]]
    /\ want' = [want EXCEPT ![s] = NULL]
    /\ UNCHANGED <<socklist, recvq, ev, netVars, readVars>>

Relist(s) ==
    /\ ListFree
    /\ OwnerGoes(s, "renamed", "open")
    /\ Register(s, id[s])
    /\ UNCHANGED <<id, want, recvq, ev, netVars, readVars>>

Close(s) ==
    /\ ListFree
    /\ OwnerGoes(s, "open", "closed")
    /\ Deregister(s)
    /\ UNCHANGED <<id, want, recvq, ev, netVars, readVars>>

Owner ==
    /\ \E s \in Sockets :
        Create(s) \/ FindFree(s) \/ Unlist(s) \/ Rename(s) \/ Relist(s) \/ Close(s)
    /\ UNCHANGED halted

-----------------------------------------------------------------------------
(* Udp::Receive and IcmpError look for the socket of the datagram's tuple,  *)
(* and then for the unconnected one.  IcmpError keeps the list's lock.      *)
Find ==
    /\ npc = "idle"
    /\ \E t \in Tuples :
        /\ socklist[t] # NULL
        /\ nsock' = socklist[t]
        /\ \/ npc' = "deliver" /\ UNCHANGED nev
           \/ npc' = "error" /\ nev' = ev[socklist[t]]
    /\ UNCHANGED <<socklist, ownVars, recvq, ev, readVars>>

(* Mutant of Deliver: the socket is not locked. *)
DeliverUnlocked ==
    /\ npc = "deliver"
    /\ recvq[nsock] < QueueMax
    /\ recvq' = [recvq EXCEPT ![nsock] = @ + 1]
    /\ ev' = [ev EXCEPT ![nsock] = @ \cup {"readable"}]
    /\ npc' = "idle" /\ nsock' = NULL
    /\ UNCHANGED <<socklist, ownVars, nev, readVars>>

Deliver ==
    /\ npc = "deliver"
    /\ ~Locked(nsock)
    /\ recvq[nsock] < QueueMax
    /\ recvq' = [recvq EXCEPT ![nsock] = @ + 1]
    /\ ev' = [ev EXCEPT ![nsock] = @ \cup {"readable"}]
    /\ npc' = "idle" /\ nsock' = NULL
    /\ UNCHANGED <<socklist, ownVars, nev, readVars>>

IcmpError ==
    /\ npc = "error"
    /\ ev' = [ev EXCEPT ![nsock] = nev \cup {"error"}]
    /\ npc' = "idle" /\ nsock' = NULL /\ nev' = {}
    /\ UNCHANGED <<socklist, ownVars, recvq, readVars>>

Network == (Find \/ Deliver \/ IcmpError) /\ UNCHANGED halted

-----------------------------------------------------------------------------
(* RecvFrom tests the queue before it locks the socket ... *)
RecvTest(r) ==
    /\ rpc[r] = "idle"
    /\ \E s \in Sockets :
        /\ recvq[s] > 0
        /\ rsock' = [rsock EXCEPT ![r] = s]
    /\ rpc' = [rpc EXCEPT ![r] = "tested"]
    /\ UNCHANGED <<recvq, ev, rev, halted>>

(* ... takes the first datagram, which asserts that there is one, and       *)
(* begins to clear the event if it was the last.                            *)
RecvTake(r) ==
    LET s == rsock[r]
    IN  /\ rpc[r] = "tested"
        /\ ~Locked(s)
        /\ IF recvq[s] = 0
           THEN halted' = TRUE /\ UNCHANGED <<recvq, rpc, rsock, rev>>
           ELSE /\ recvq' = [recvq EXCEPT ![s] = @ - 1]
                /\ IF recvq[s] > 1
                   THEN /\ rpc' = [rpc EXCEPT ![r] = "idle"]
                        /\ rsock' = [rsock EXCEPT ![r] = NULL]
                        /\ UNCHANGED rev
                   ELSE /\ rpc' = [rpc EXCEPT ![r] = "clear"]
                        /\ rev' = [rev EXCEPT ![r] = ev[s]]
                        /\ UNCHANGED rsock
                /\ UNCHANGED halted
        /\ UNCHANGED ev

RecvClear(r) ==
    /\ rpc[r] = "clear"
    /\ ev' = [ev EXCEPT ![rsock[r]] = rev[r] \ {"readable"}]
    /\ rpc' = [rpc EXCEPT ![r] = "idle"]
    /\ rsock' = [rsock EXCEPT ![r] = NULL]
    /\ rev' = [rev EXCEPT ![r] = {}]
    /\ UNCHANGED <<recvq, halted>>

RecvFrom ==
    /\ \E r \in Readers : RecvTest(r) \/ RecvTake(r) \/ RecvClear(r)
    /\ UNCHANGED <<socklist, ownVars, netVars>>

Next == ~halted /\ (Owner \/ Network \/ RecvFrom)

Spec == Init /\ [][Next]_vars

-----------------------------------------------------------------------------
(* Bind and Connect let go of the list between its changes, and two sockets *)
(* may come to share a tuple: still no tuple leads to a socket that has     *)
(* another one or is closed, so no datagram is delivered to it later        *)
(* (Bind, Connect, Close, Receive).                                         *)
ListedAsNamed ==
    \A t \in Tuples :
        socklist[t] # NULL => id[socklist[t]] = t /\ opc[socklist[t]] # "closed"

(* The events are edge triggered: a socket with datagrams queued shows      *)
(* EVENT_READABLE, although IcmpError and ClearEvent write bits they have   *)
(* read before, without a common lock (Receive, IcmpError, RecvFrom).       *)
QueuedIsReadable ==
    \A s \in Sockets : recvq[s] > 0 => "readable" \in ev[s]
==============================================================================
