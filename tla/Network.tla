------------------------------- MODULE Network -------------------------------
(***************************************************************************)
(* The network thread of core/network.cxx with the buffer pool and the      *)
(* rings of the Ethernet driver, as the projects run them: no interface is  *)
(* ever added to IP (core/dhcp.cxx comments the calls out), so Ip::Receive  *)
(* finds no route and ARP finds nobody to answer for.                       *)
(*                                                                          *)
(* The pool's sections are under Thread::IPL, which leaves BASEPRI at 0 and *)
(* so masks nothing: the Ethernet interrupt can come between the two halves *)
(* of Alloc.  FreeBuffer and Send are one step each.                        *)
(***************************************************************************)
EXTENDS Integers, FiniteSets, SequencesExt

CONSTANTS
    Buffers,        \* the buffers of the pool
    NULL,           \* no buffer
    RxNum,          \* RX_DESC_NUM
    TxNum,          \* TX_DESC_NUM
    TxMinPool,      \* TX_MIN_POOL
    PoolMax         \* bound: buffers in the pool, those in it twice counted twice

(* What the proofs assume: a ring has a slot that is left out, and the pool *)
(* can fill the receive ring.                                               *)
NetworkAssumption ==
    /\ NULL \notin Buffers
    /\ RxNum \in Nat \ {0, 1}
    /\ TxNum \in Nat \ {0, 1}
    /\ TxMinPool \in Nat
    /\ IsFiniteSet(Buffers) /\ Cardinality(Buffers) >= RxNum

VARIABLES
    pool,       \* BufferPool::_pool
    rxcons,     \* REG_RXCONSUMEINDEX
    rxprod,     \* REG_RXPRODUCEINDEX, the hardware's
    rxbuf,      \* _rxbuffers
    rxdone,     \* _rxdesc[i].control is 0: the frame has been taken out
    txcons,     \* REG_TXCONSUMEINDEX, the hardware's
    txprod,     \* REG_TXPRODUCEINDEX
    txbuf,      \* _txbuffers
    txpkt,      \* _txdesc[i].packet is not null
    intstatus,  \* REG_INTSTATUS, the bits "rx" (RXDONE) and "tx" (TXDONE)
    handling,   \* the bits HandleInterrupt has handled and not cleared yet
    signal,     \* its local sig
    event,      \* _net_event
    npc,        \* where NetThread is
    nbuf,       \* the buffer it has in hand
    nret        \* where it goes on once Dhcp has sent: more frames, or the loop

rxVars == <<rxcons, rxprod, rxbuf, rxdone>>
txVars == <<txcons, txprod, txbuf, txpkt>>
intVars == <<intstatus, handling, signal>>
netVars == <<npc, nbuf, nret>>
vars == <<pool, rxVars, txVars, intVars, event, netVars>>

RxSlots == 0..(RxNum - 1)
TxSlots == 0..(TxNum - 1)
RxAfter(i) == IF i = RxNum - 1 THEN 0 ELSE i + 1
TxAfter(i) == IF i = TxNum - 1 THEN 0 ELSE i + 1

TypeOK ==
    /\ pool \in Seq(Buffers)
    /\ rxcons \in RxSlots /\ rxprod \in RxSlots
    /\ rxbuf \in [RxSlots -> Buffers \cup {NULL}]
    /\ rxdone \in [RxSlots -> BOOLEAN]
    /\ txcons \in TxSlots /\ txprod \in TxSlots
    /\ txbuf \in [TxSlots -> Buffers \cup {NULL}]
    /\ txpkt \in [TxSlots -> BOOLEAN]
    /\ intstatus \subseteq {"rx", "tx"}
    /\ handling \subseteq intstatus
    /\ signal \in BOOLEAN /\ event \in BOOLEAN
    /\ npc \in {"top", "wait", "drain", "restock", "restockPop", "dispatch",
                "service", "alloc", "pop", "send"}
    /\ nbuf \in Buffers \cup {NULL}
    /\ nret \in {"drain", "top"}

(* BufferPool::Initialize, and Ethernet::CreateDescriptors, which fills     *)
(* every receive slot.                                                      *)
Init ==
    \E order \in {CHOOSE s \in [1..Cardinality(Buffers) -> Buffers] : IsInjective(s)} :
        /\ pool = SubSeq(order, RxNum + 1, Len(order))
        /\ rxbuf = [i \in RxSlots |-> order[i + 1]]
        /\ rxcons = 0 /\ rxprod = 0
        /\ rxdone = [i \in RxSlots |-> FALSE]
        /\ txcons = 0 /\ txprod = 0
        /\ txbuf = [i \in TxSlots |-> NULL]
        /\ txpkt = [i \in TxSlots |-> FALSE]
        /\ intstatus = {} /\ handling = {} /\ signal = FALSE
        /\ event = FALSE /\ npc = "top" /\ nbuf = NULL /\ nret = "top"

-----------------------------------------------------------------------------
(* Thread code does not run while the handler does. *)
InThread == handling = {}

(* BufferPool::FreeBuffer *)
FreeBuffer(b) == Len(pool) < PoolMax /\ pool' = Append(pool, b)

(* Vector::PopBack, the second half of Alloc; the first has taken Back(). *)
PopBack == pool' = IF pool = <<>> THEN pool ELSE Front(pool)

(* NetThread waits unless a service time has come; _net_event.Wait returns  *)
(* for the event or at the service time.                                    *)
Top ==
    /\ InThread /\ npc = "top"
    /\ npc' \in {"wait", "drain"}
    /\ UNCHANGED <<pool, rxVars, txVars, intVars, event, nbuf, nret>>

Woken ==
    /\ InThread /\ npc = "wait"
    /\ event' = FALSE
    /\ npc' = "drain"
    /\ UNCHANGED <<pool, rxVars, txVars, intVars, nbuf, nret>>

(* Ethernet::Receive up to RestockRx: NULL if the ring is empty or if the   *)
(* slot at the consumer was taken out and has not been restocked.           *)
NothingReceived ==
    rxcons = rxprod \/ rxdone[rxcons] \/ rxbuf[rxcons] = NULL

ReceiveNothing ==
    /\ InThread /\ npc = "drain"
    /\ NothingReceived
    /\ npc' = "service"
    /\ UNCHANGED <<pool, rxVars, txVars, intVars, event, nbuf, nret>>

Receive ==
    /\ InThread /\ npc = "drain"
    /\ ~NothingReceived
    /\ nbuf' = rxbuf[rxcons]
    /\ rxbuf' = [rxbuf EXCEPT ![rxcons] = NULL]
    /\ rxdone' = [rxdone EXCEPT ![rxcons] = TRUE]
    /\ npc' = "restock"
    /\ UNCHANGED <<pool, rxcons, rxprod, txVars, intVars, event, nret>>

(* Mutant of Restock: AllocRx's result is not tested. *)
RestockUntested ==
    /\ InThread /\ npc = "restock"
    /\ IF rxdone[rxcons]
       THEN /\ rxbuf' = [rxbuf EXCEPT ![rxcons] = IF pool = <<>> THEN NULL ELSE Last(pool)]
            /\ npc' = "restockPop"
       ELSE /\ npc' = "dispatch"
            /\ UNCHANGED rxbuf
    /\ UNCHANGED <<pool, rxcons, rxprod, rxdone, txVars, intVars, event, nbuf, nret>>

(* A turn of RestockRx's loop, from its head to Back() in AllocRx ... *)
Restock ==
    /\ InThread /\ npc = "restock"
    /\ IF rxdone[rxcons] /\ pool # <<>>
       THEN /\ rxbuf' = [rxbuf EXCEPT ![rxcons] = Last(pool)]
            /\ npc' = "restockPop"
       ELSE /\ npc' = "dispatch"
            /\ UNCHANGED rxbuf
    /\ UNCHANGED <<pool, rxcons, rxprod, rxdone, txVars, intVars, event, nbuf, nret>>

(* ... and from PopBack to its condition. *)
RestockPop ==
    /\ InThread /\ npc = "restockPop"
    /\ PopBack
    /\ rxdone' = [rxdone EXCEPT ![rxcons] = FALSE]
    /\ rxcons' = RxAfter(rxcons)
    /\ npc' = IF rxcons' # rxprod THEN "restock" ELSE "dispatch"
    /\ UNCHANGED <<rxprod, rxbuf, txVars, intVars, event, nbuf, nret>>

(* What the receivers do with the buffer: Ip::Receive has no routes and     *)
(* frees it, as NetThread does with types it does not know; Dhcp::Receive   *)
(* and Ip::ArpReceive neither free nor keep it.  Dhcp may then answer.      *)
Dispatch ==
    /\ InThread /\ npc = "dispatch"
    /\ \/ FreeBuffer(nbuf) /\ npc' = "drain" /\ UNCHANGED nret
       \/ UNCHANGED <<pool, nret>> /\ npc' = "drain"
       \/ UNCHANGED pool /\ npc' = "alloc" /\ nret' = "drain"
    /\ nbuf' = NULL
    /\ UNCHANGED <<rxVars, txVars, intVars, event>>

(* Dhcp::Service is due and sends something, or not. *)
Service ==
    /\ InThread /\ npc = "service"
    /\ npc' \in {"top", "alloc"}
    /\ UNCHANGED <<pool, rxVars, txVars, intVars, event, nbuf, nret>>

(* Dhcp is done: it was called for a frame or from the loop. *)
Resume == npc' = nret /\ nret' = "top"

(* Dhcp::AllocPacket: AllocTx leaves TX_MIN_POOL buffers behind. *)
AllocTx ==
    /\ InThread /\ npc = "alloc"
    /\ IF Len(pool) <= TxMinPool
       THEN Resume /\ UNCHANGED nbuf
       ELSE npc' = "pop" /\ nbuf' = Last(pool) /\ UNCHANGED nret
    /\ UNCHANGED <<pool, rxVars, txVars, intVars, event>>

AllocTxPop ==
    /\ InThread /\ npc = "pop"
    /\ PopBack
    /\ npc' = "send"
    /\ UNCHANGED <<rxVars, txVars, intVars, event, nbuf, nret>>

(* Ethernet::Send refuses with the ring full or the link down.  Otherwise   *)
(* its emergency reclaim tests the slot it is about to fill and frees the   *)
(* buffer of the one after it.                                              *)
Refuse ==
    /\ FreeBuffer(nbuf)
    /\ UNCHANGED txVars

Ship ==
    /\ TxAfter(txprod) # txcons
    /\ IF txpkt[txprod] /\ txbuf[TxAfter(txprod)] # NULL
       THEN FreeBuffer(txbuf[TxAfter(txprod)])
       ELSE UNCHANGED pool
    /\ txbuf' = [txbuf EXCEPT ![txprod] = nbuf]
    /\ txpkt' = [txpkt EXCEPT ![txprod] = TRUE]
    /\ txprod' = TxAfter(txprod)
    /\ UNCHANGED txcons

Send ==
    /\ InThread /\ npc = "send"
    /\ Refuse \/ Ship
    /\ Resume
    /\ nbuf' = NULL
    /\ UNCHANGED <<rxVars, intVars, event>>

NetThread ==
    \/ Top \/ Woken \/ ReceiveNothing \/ Receive \/ Restock \/ RestockPop
    \/ Dispatch \/ Service \/ AllocTx \/ AllocTxPop \/ Send

-----------------------------------------------------------------------------
(* The controller fills the slot at its index while the ring is not full,   *)
(* and sends what is queued.                                                *)
FrameArrives ==
    /\ RxAfter(rxprod) # rxcons
    /\ rxprod' = RxAfter(rxprod)
    /\ intstatus' = intstatus \cup {"rx"}
    /\ UNCHANGED <<pool, rxcons, rxbuf, rxdone, txVars, handling, signal, event, netVars>>

FrameSent ==
    /\ txcons # txprod
    /\ txcons' = TxAfter(txcons)
    /\ intstatus' = intstatus \cup {"tx"}
    /\ UNCHANGED <<pool, rxVars, txprod, txbuf, txpkt, handling, signal, event, netVars>>

(* HandleInterrupt's walk on TXDONE: back from the slot before the consumer *)
(* to the producer or to the first slot with nothing to reclaim.            *)
Reclaimable ==
    LET Before(k) == (txcons + 2 * TxNum - k) % TxNum
        Ends == {k \in 1..(TxNum + 1) :
                    k > TxNum \/ Before(k) = txprod \/ ~txpkt[Before(k)]}
        first == CHOOSE k \in Ends : \A l \in Ends : k <= l
    IN  [k \in 1..(first - 1) |-> Before(k)]

(* Ethernet::HandleInterrupt up to REG_INTCLEAR ... *)
HandleInterrupt ==
    /\ InThread /\ intstatus # {}
    /\ handling' = intstatus
    /\ LET walk == IF "tx" \in intstatus THEN Reclaimable ELSE <<>>
       IN  /\ Len(pool) + Len(walk) <= PoolMax
           /\ pool' = pool \o [n \in DOMAIN walk |-> txbuf[walk[n]]]
           /\ txbuf' = [i \in TxSlots |-> IF Contains(walk, i) THEN NULL ELSE txbuf[i]]
           /\ txpkt' = [i \in TxSlots |-> txpkt[i] /\ ~Contains(walk, i)]
           /\ signal' = ("rx" \in intstatus \/ walk # <<>>)
    /\ UNCHANGED <<rxVars, txcons, txprod, intstatus, event, netVars>>

(* Mutant of ClearInterrupt: a frame is not signalled with a reclaim. *)
ClearInterruptOne ==
    /\ handling # {}
    /\ intstatus' = intstatus \ handling
    /\ handling' = {}
    /\ signal' = FALSE
    /\ event' = (event \/ (signal /\ handling = {"tx"}))
    /\ UNCHANGED <<pool, rxVars, txVars, netVars>>

(* ... which also clears what the controller has raised since. *)
ClearInterrupt ==
    /\ handling # {}
    /\ intstatus' = intstatus \ handling
    /\ handling' = {}
    /\ signal' = FALSE
    /\ event' = (event \/ signal)
    /\ UNCHANGED <<pool, rxVars, txVars, netVars>>

(* Ethernet::HandleMISRInterrupt *)
PhyInterrupt ==
    /\ InThread
    /\ event' = TRUE
    /\ UNCHANGED <<pool, rxVars, txVars, intVars, netVars>>

Hardware ==
    FrameArrives \/ FrameSent \/ HandleInterrupt \/ ClearInterrupt \/ PhyInterrupt

Next == NetThread \/ Hardware

Spec == Init /\ [][Next]_vars

-----------------------------------------------------------------------------
(* The controller only ever writes into buffers of its own: the one slot    *)
(* that may be without a buffer, or hold a frame that was taken out, is the *)
(* one at the consumer index, and then the controller is not at it          *)
(* (Receive, RestockRx).                                                    *)
RxSlotsStocked ==
    \A i \in RxSlots : i # rxcons \/ rxcons = rxprod => rxbuf[i] # NULL /\ ~rxdone[i]

(* NetThread does not sleep on a frame it could take: the event is set, or  *)
(* the interrupt that sets it is still to come or to end, although it       *)
(* clears bits that were raised while it ran.                               *)
PacketNoticed ==
    npc = "wait" /\ ~NothingReceived =>
        event \/ "rx" \in intstatus \ handling \/ (handling # {} /\ signal)
==============================================================================
