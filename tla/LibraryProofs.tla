---------------------------- MODULE LibraryProofs ----------------------------
(***************************************************************************)
(* What is proved of the parts holds of the library.  A behaviour of the    *)
(* library maps to one of each part: the part that moves takes one of its   *)
(* steps, the others stutter.  So the invariants proved in Fat32Proofs,     *)
(* BlkCacheProofs and UtilProofs carry over; those of the network thread,   *)
(* UDP, DHCP, the EEPROM, the hash table, the free list, DMA, the           *)
(* containers and USB are proved here.                                      *)
(***************************************************************************)
EXTENDS Library, SequenceTheorems, FiniteSetTheorems, WellFoundedInduction, TLAPS

vars == <<part, netVars, dhcpVars, udpVars, hashVars, freeVars, fatVars,
          blkVars, dmaVars, romVars, seqVars, utilVars, usbVars>>

-----------------------------------------------------------------------------
(* The library is a network thread with its driver (NetThread, Ethernet). *)
LEMMA NetworkMapped == Spec => Net!Spec
<1>1. Init => Net!Init
  BY DEF Init
<1>2. [Next]_vars => [Net!Next]_Net!vars
  <2>1. CASE NetworkMoves
    BY <2>1 DEF NetworkMoves
  <2>2. CASE UNCHANGED netVars
    BY <2>2 DEF netVars, Net!vars, Net!rxVars, Net!txVars, Net!intVars, Net!netVars
  <2> QED
    BY <2>1, <2>2
        DEF vars, Next,
            DhcpMoves, UdpMoves, HashTableMoves, FreelistMoves, Fat32Moves,
            BlkCacheMoves, DmaMoves, EepromMoves, ContainersMoves,
            UtilMoves, UsbMoves
<1> QED
  BY <1>1, <1>2, PTL DEF Spec, vars, Net!Spec

(* What the thread has in hand, and what it is about to put in the ring. *)
NetInHand == net_npc \in {"restock", "restockPop", "dispatch", "pop", "send"} => net_nbuf # NULL
NetRefilled == net_npc = "restockPop" => net_rxbuf[net_rxcons] # NULL

(* A slot that is to be reclaimed has a buffer. *)
NetQueued == \A i \in Net!TxSlots : net_txpkt[i] => net_txbuf[i] # NULL

(* Where the thread goes to sleep without another look at the ring; and     *)
(* what makes up for it.                                                     *)
NetAway ==
    net_npc \in {"top", "wait", "service"} \/ (net_npc \in {"alloc", "pop", "send"} /\ net_nret = "top")
NetHeeded ==
    net_event \/ "rx" \in net_intstatus \ net_handling \/ (net_handling # {} /\ net_signal)
NetNotice == NetAway /\ ~Net!NothingReceived => NetHeeded
NetSignals == "rx" \in net_handling => net_signal

RxInv == Net!RxSlotsStocked /\ NetRefilled
WakeInv == NetNotice /\ NetSignals
NetInv == Net!TypeOK /\ NetInHand /\ NetQueued /\ RxInv /\ WakeInv

-----------------------------------------------------------------------------
(* The pool and the rings. *)
LEMMA PoolGrows ==
    ASSUME Net!TypeOK, NEW b \in Buffers, Net!FreeBuffer(b)
    PROVE  net_pool' \in Seq(Buffers)
BY AppendProperties DEF Net!TypeOK, Net!FreeBuffer

LEMMA PoolShrinks ==
    ASSUME Net!TypeOK, Net!PopBack
    PROVE  net_pool' \in Seq(Buffers)
<1>1. CASE net_pool = <<>>
  BY <1>1 DEF Net!PopBack, Net!TypeOK
<1>2. CASE net_pool # <<>>
  <2>1. net_pool \in Seq(Buffers) /\ Len(net_pool) \in Nat
    BY LenProperties DEF Net!TypeOK
  <2>2. \A i \in 1..(Len(net_pool) - 1) : net_pool[i] \in Buffers
    BY <2>1, ElementOfSeq
  <2>3. SubSeq(net_pool, 1, Len(net_pool) - 1) \in Seq(Buffers)
    BY <2>1, <2>2, SubSeqProperties
  <2> QED BY <1>2, <2>3 DEF Net!PopBack, Net!Front
<1> QED BY <1>1, <1>2

LEMMA BackIsBuffer ==
    ASSUME Net!TypeOK, net_pool # <<>>
    PROVE  Net!Last(net_pool) \in Buffers
<1>1. net_pool \in Seq(Buffers) /\ Len(net_pool) \in 1..Len(net_pool)
  BY EmptySeq DEF Net!TypeOK
<1> QED BY <1>1, ElementOfSeq DEF Net!Last

LEMMA RxAfterInRing ==
    ASSUME Net!NetworkAssumption, NEW i \in Net!RxSlots
    PROVE  Net!RxAfter(i) \in Net!RxSlots /\ Net!RxAfter(i) # i
BY DEF Net!NetworkAssumption, Net!RxAfter, Net!RxSlots

LEMMA TxAfterInRing ==
    ASSUME Net!NetworkAssumption, NEW i \in Net!TxSlots
    PROVE  Net!TxAfter(i) \in Net!TxSlots
BY DEF Net!NetworkAssumption, Net!TxAfter, Net!TxSlots

(* A set of natural numbers that is not empty has a least element. *)
LEMMA LeastNatural ==
    ASSUME NEW S \in SUBSET Nat, S # {}
    PROVE  \E k \in S : \A j \in S : k <= j
<1> DEFINE R == {p \in Nat \X Nat : p[1] < p[2]}
<1>1. IsWellFoundedOn(R, Nat)
  BY NatLessThanWellFounded DEF OpToRel
<1>2. PICK x \in S : \A y \in S : <<y, x>> \notin R
  BY <1>1, WFMin
<1>3. ASSUME NEW y \in S PROVE x <= y
  <2>1. x \in Nat /\ y \in Nat
    OBVIOUS
  <2>2. ~ (y < x)
    BY <1>2, <2>1
  <2> QED BY <2>1, <2>2
<1> QED BY <1>3

(* The walk goes over slots with something to reclaim. *)
LEMMA WalkReclaims ==
    ASSUME Net!NetworkAssumption, Net!TypeOK
    PROVE  /\ Net!Reclaimable \in Seq(Net!TxSlots)
           /\ \A k \in DOMAIN Net!Reclaimable : net_txpkt[Net!Reclaimable[k]]
<1> DEFINE Before(k) == (net_txcons + 2 * TxNum - k) % TxNum
           Ends == {k \in 1..(TxNum + 1) :
                       k > TxNum \/ Before(k) = net_txprod \/ ~net_txpkt[Before(k)]}
           first == CHOOSE k \in Ends : \A l \in Ends : k <= l
<1>1. TxNum \in Nat \ {0, 1} /\ net_txcons \in 0..(TxNum - 1)
  BY DEF Net!NetworkAssumption, Net!TypeOK, Net!TxSlots
<1>2. \A k \in 1..(TxNum + 1) : Before(k) \in Net!TxSlots
  BY <1>1 DEF Net!TxSlots
<1>3. TxNum + 1 \in Ends /\ Ends \subseteq Nat
  BY <1>1
<1>4. first \in Ends /\ \A l \in Ends : first <= l
  <2>1. \E k \in Ends : \A l \in Ends : k <= l
    BY <1>3, LeastNatural
  <2> QED BY <2>1
<1>5. first \in 1..(TxNum + 1)
  BY <1>4
<1>6. \A k \in 1..(first - 1) : Before(k) \in Net!TxSlots /\ net_txpkt[Before(k)]
  <2> SUFFICES ASSUME NEW k \in 1..(first - 1)
               PROVE  Before(k) \in Net!TxSlots /\ net_txpkt[Before(k)]
    OBVIOUS
  <2> HIDE DEF first
  <2>1. k \in 1..(TxNum + 1) /\ ~(first <= k)
    BY <1>1, <1>5
  <2>2. k \notin Ends
    BY <1>4, <2>1
  <2> QED BY <1>2, <2>1, <2>2
<1>8. Net!Reclaimable = [k \in 1..(first - 1) |-> Before(k)]
  BY DEF Net!Reclaimable
<1> HIDE DEF Before, Ends, first
<1>9. first - 1 \in Nat
  BY <1>5
<1>10. [k \in 1..(first - 1) |-> Before(k)] \in Seq(Net!TxSlots)
  BY <1>6, <1>9, SeqDef
<1> QED BY <1>6, <1>8, <1>10

-----------------------------------------------------------------------------
LEMMA NetInit ==
    ASSUME Net!NetworkAssumption, Net!Init
    PROVE  NetInv
<1> DEFINE n == Cardinality(Buffers)
<1>0. IsFiniteSet(Buffers) /\ n = Net!Cardinality(Buffers)
  BY DEF Net!NetworkAssumption, Net!IsFiniteSet, IsFiniteSet, Net!Cardinality, Cardinality
<1>1. n \in Nat /\ RxNum \in Nat /\ TxNum \in Nat /\ n >= RxNum /\ RxNum > 1 /\ TxNum > 1
  BY <1>0, FS_CardinalityType DEF Net!NetworkAssumption
<1>2. \E s \in [1..n -> Buffers] : Net!IsInjective(s)
  <2>1. ExistsBijection(1..n, Buffers)
    BY <1>0, FS_CardinalityType
  <2>2. PICK s \in Bijection(1..n, Buffers) : TRUE
    BY <2>1 DEF ExistsBijection
  <2>3. s \in [1..n -> Buffers] /\ \A a, b \in 1..n : s[a] = s[b] => a = b
    BY <2>2 DEF Bijection, Injection, IsInjective
  <2> QED BY <2>3 DEF Net!IsInjective
<1>3. PICK order \in {CHOOSE s \in [1..Net!Cardinality(Buffers) -> Buffers] :
                           Net!IsInjective(s)} :
        /\ net_pool = SubSeq(order, RxNum + 1, Len(order))
        /\ net_rxbuf = [i \in Net!RxSlots |-> order[i + 1]]
        /\ net_rxcons = 0 /\ net_rxprod = 0
        /\ net_rxdone = [i \in Net!RxSlots |-> FALSE]
        /\ net_txcons = 0 /\ net_txprod = 0
        /\ net_txbuf = [i \in Net!TxSlots |-> NULL]
        /\ net_txpkt = [i \in Net!TxSlots |-> FALSE]
        /\ net_intstatus = {} /\ net_handling = {} /\ net_signal = FALSE
        /\ net_event = FALSE /\ net_npc = "top" /\ net_nbuf = NULL /\ net_nret = "top"
  BY DEF Net!Init
<1>4. order \in [1..n -> Buffers]
  BY <1>0, <1>2, <1>3
<1> HIDE DEF n
<1>5. order \in Seq(Buffers) /\ Len(order) = n
  BY <1>1, <1>4, SeqDef, LenProperties
<1>6. net_pool \in Seq(Buffers)
  <2>1. \A i \in (RxNum + 1)..n : order[i] \in Buffers
    BY <1>1, <1>4
  <2> QED BY <1>1, <1>3, <1>5, <2>1, SubSeqProperties
<1>7. net_rxbuf \in [Net!RxSlots -> Buffers]
  <2>1. \A i \in Net!RxSlots : i + 1 \in 1..n
    BY <1>1 DEF Net!RxSlots
  <2>2. \A i \in Net!RxSlots : order[i + 1] \in Buffers
    BY <1>4, <2>1
  <2> QED BY <1>3, <2>2
<1>8. 0 \in Net!RxSlots /\ 0 \in Net!TxSlots
  BY <1>1 DEF Net!RxSlots, Net!TxSlots
<1>9. Net!TypeOK
  BY <1>3, <1>6, <1>7, <1>8 DEF Net!TypeOK
<1>10. \A i \in Net!RxSlots : net_rxbuf[i] # NULL /\ ~net_rxdone[i]
  BY <1>3, <1>7 DEF Net!NetworkAssumption
<1>11. RxInv
  BY <1>3, <1>10 DEF RxInv, Net!RxSlotsStocked, NetRefilled
<1>12. WakeInv
  BY <1>3 DEF WakeInv, NetNotice, NetSignals, Net!NothingReceived
<1>13. NetInHand /\ NetQueued
  BY <1>3 DEF NetInHand, NetQueued
<1> QED BY <1>9, <1>11, <1>12, <1>13 DEF NetInv

(* What leaves the rings, the signals and the thread's place alone. *)
LEMMA NetStutter ==
    ASSUME NetInv, UNCHANGED Net!vars
    PROVE  NetInv'
BY DEF NetInv, Net!vars, Net!rxVars, Net!txVars, Net!intVars, Net!netVars, Net!TypeOK,
       NetInHand, NetQueued, RxInv,
       Net!RxSlotsStocked, NetRefilled, WakeInv, NetNotice, NetAway, NetHeeded, NetSignals, Net!NothingReceived

-----------------------------------------------------------------------------
(* The steps of the thread that leave the rings and the pool alone. *)
LEMMA LoopKeeps ==
    ASSUME Net!NetworkAssumption, NetInv,
           Net!Top \/ Net!Woken \/ Net!ReceiveNothing \/ Net!Service
    PROVE  NetInv'
<1>1. UNCHANGED <<net_pool, Net!rxVars, Net!txVars, Net!intVars, net_nbuf, net_nret>>
  BY DEF Net!Top, Net!Woken, Net!ReceiveNothing, Net!Service
<1>2. Net!TypeOK' /\ net_npc' \in {"top", "wait", "drain", "service", "alloc"}
  BY <1>1 DEF NetInv, Net!TypeOK, Net!Top, Net!Woken, Net!ReceiveNothing, Net!Service,
              Net!rxVars, Net!txVars, Net!intVars
<1>3. NetInHand' /\ NetQueued'
  BY <1>1, <1>2 DEF NetInv, NetInHand, NetQueued, Net!txVars
<1>4. RxInv'
  BY <1>1, <1>2 DEF NetInv, RxInv, Net!RxSlotsStocked, NetRefilled, Net!rxVars
<1>5. NetSignals'
  BY <1>1 DEF NetInv, WakeInv, NetSignals, Net!intVars
<1>6. NetNotice'
  <2>1. Net!NothingReceived' = Net!NothingReceived
    BY <1>1 DEF Net!NothingReceived, Net!rxVars
  <2>2. CASE Net!Top \/ Net!Service
    BY <1>1, <2>1, <2>2
       DEF NetInv, WakeInv, NetNotice, NetAway, NetHeeded, Net!Top, Net!Service, Net!intVars
  <2>3. CASE Net!Woken
    BY <2>3 DEF NetNotice, NetAway, Net!Woken
  <2>4. CASE Net!ReceiveNothing
    BY <2>1, <2>4 DEF NetNotice, Net!ReceiveNothing
  <2> QED BY <2>2, <2>3, <2>4
<1> QED BY <1>2, <1>3, <1>4, <1>5, <1>6 DEF NetInv, WakeInv

LEMMA NetReceiveKeeps ==
    ASSUME Net!NetworkAssumption, NetInv, Net!Receive
    PROVE  NetInv'
<1>1. Net!TypeOK'
  BY DEF NetInv, Net!TypeOK, Net!Receive, Net!txVars, Net!intVars
<1>2. net_rxcons # net_rxprod /\ net_rxbuf[net_rxcons] # NULL
  BY DEF Net!Receive, Net!NothingReceived
<1>3. NetInHand' /\ NetQueued'
  BY <1>2 DEF NetInv, NetInHand, NetQueued, Net!Receive, Net!txVars
<1>4. RxInv'
  BY <1>2 DEF NetInv, Net!TypeOK, RxInv, Net!RxSlotsStocked, NetRefilled, Net!Receive
<1>5. WakeInv'
  BY DEF NetInv, WakeInv, NetNotice, NetAway, NetSignals, Net!Receive, Net!intVars
<1> QED BY <1>1, <1>3, <1>4, <1>5 DEF NetInv

LEMMA RestockKeeps ==
    ASSUME Net!NetworkAssumption, NetInv, Net!Restock
    PROVE  NetInv'
<1>1. CASE net_rxdone[net_rxcons] /\ net_pool # <<>>
  <2>1. Net!Last(net_pool) \in Buffers /\ Net!Last(net_pool) # NULL
    BY <1>1, BackIsBuffer DEF NetInv, Net!NetworkAssumption
  <2>2. /\ net_rxbuf' = [net_rxbuf EXCEPT ![net_rxcons] = Net!Last(net_pool)]
        /\ net_npc' = "restockPop"
        /\ UNCHANGED <<net_pool, net_rxcons, net_rxprod, net_rxdone, Net!txVars, Net!intVars, net_event, net_nbuf, net_nret>>
        /\ net_npc = "restock"
    BY <1>1 DEF Net!Restock
  <2> HIDE DEF Net!Restock
  <2>3. Net!TypeOK'
    BY <2>1, <2>2 DEF NetInv, Net!TypeOK, Net!txVars, Net!intVars
  <2>4. RxInv'
    BY <2>1, <2>2 DEF NetInv, Net!TypeOK, RxInv, Net!RxSlotsStocked, NetRefilled
  <2>5. NetInHand' /\ NetQueued'
    BY <2>2 DEF NetInv, NetInHand, NetQueued, Net!txVars
  <2>6. WakeInv'
    BY <2>2 DEF NetInv, WakeInv, NetNotice, NetAway, NetSignals, Net!intVars
  <2> QED BY <2>3, <2>4, <2>5, <2>6 DEF NetInv
<1>2. CASE ~(net_rxdone[net_rxcons] /\ net_pool # <<>>)
  <2>1. net_npc' = "dispatch" /\ net_npc = "restock"
        /\ UNCHANGED <<net_pool, Net!rxVars, Net!txVars, Net!intVars, net_event, net_nbuf, net_nret>>
    BY <1>2 DEF Net!Restock, Net!rxVars
  <2>2. Net!TypeOK'
    BY <2>1 DEF NetInv, Net!TypeOK, Net!rxVars, Net!txVars, Net!intVars
  <2>3. RxInv' /\ NetInHand' /\ NetQueued'
    BY <2>1 DEF NetInv, RxInv, Net!RxSlotsStocked, NetRefilled, NetInHand, NetQueued,
                Net!rxVars, Net!txVars
  <2>4. WakeInv'
    BY <2>1 DEF NetInv, WakeInv, NetNotice, NetAway, NetSignals, Net!intVars
  <2> QED BY <2>2, <2>3, <2>4 DEF NetInv
<1> QED BY <1>1, <1>2

LEMMA RestockPopKeeps ==
    ASSUME Net!NetworkAssumption, NetInv, Net!RestockPop
    PROVE  NetInv'
<1>1. net_pool' \in Seq(Buffers)
  BY PoolShrinks DEF NetInv, Net!RestockPop
<1>2. Net!RxAfter(net_rxcons) \in Net!RxSlots /\ Net!RxAfter(net_rxcons) # net_rxcons
  BY RxAfterInRing DEF NetInv, Net!TypeOK
<1>3. Net!TypeOK'
  BY <1>1, <1>2 DEF NetInv, Net!TypeOK, Net!RestockPop, Net!txVars, Net!intVars
<1>4. \A i \in Net!RxSlots : net_rxbuf'[i] # NULL /\ ~net_rxdone'[i]
  BY DEF NetInv, Net!TypeOK, RxInv, Net!RxSlotsStocked, NetRefilled, Net!RestockPop
<1>5. RxInv'
  BY <1>4 DEF RxInv, Net!RxSlotsStocked, NetRefilled, Net!RestockPop
<1>6. NetInHand' /\ NetQueued'
  BY DEF NetInv, NetInHand, NetQueued, Net!RestockPop, Net!txVars
<1>7. WakeInv'
  BY DEF NetInv, WakeInv, NetNotice, NetAway, NetSignals, Net!RestockPop, Net!intVars
<1> QED BY <1>3, <1>5, <1>6, <1>7 DEF NetInv

-----------------------------------------------------------------------------
(* What the thread does with the buffer it has in hand. *)
LEMMA HandKeeps ==
    ASSUME Net!NetworkAssumption, NetInv, Net!Dispatch \/ Net!AllocTx \/ Net!AllocTxPop
    PROVE  NetInv'
<1>1. UNCHANGED <<Net!rxVars, Net!txVars, Net!intVars, net_event>>
  BY DEF Net!Dispatch, Net!AllocTx, Net!AllocTxPop
<1>2. /\ net_nbuf \in Buffers \cup {NULL} /\ net_nret \in {"drain", "top"}
      /\ net_pool \in Seq(Buffers)
  BY DEF NetInv, Net!TypeOK
<1>3. /\ net_pool' \in Seq(Buffers) /\ net_nbuf' \in Buffers \cup {NULL}
      /\ net_npc' \in {"drain", "alloc", "pop", "send", "top"} /\ net_nret' \in {"drain", "top"}
      /\ NetInHand'
  <2>1. CASE Net!Dispatch
    <3>1. Net!FreeBuffer(net_nbuf) => net_pool' \in Seq(Buffers)
      BY <2>1, PoolGrows DEF NetInv, Net!TypeOK, NetInHand, Net!Dispatch
    <3> QED BY <1>2, <2>1, <3>1 DEF Net!Dispatch, NetInHand
  <2>2. CASE Net!AllocTx
    <3>1. CASE Len(net_pool) <= TxMinPool
      BY <1>2, <2>2, <3>1 DEF Net!AllocTx, Net!Resume, NetInHand
    <3>2. CASE ~(Len(net_pool) <= TxMinPool)
      <4>1. net_pool # <<>>
        BY <3>2, EmptySeq DEF Net!NetworkAssumption
      <4>2. Net!Last(net_pool) \in Buffers /\ Net!Last(net_pool) # NULL
        BY <4>1, BackIsBuffer DEF NetInv, Net!NetworkAssumption
      <4> QED BY <1>2, <2>2, <3>2, <4>2 DEF Net!AllocTx, NetInHand
    <3> QED BY <3>1, <3>2
  <2>3. CASE Net!AllocTxPop
    BY <1>2, <2>3, PoolShrinks DEF NetInv, Net!AllocTxPop, NetInHand
  <2> QED BY <2>1, <2>2, <2>3
<1>4. Net!TypeOK'
  BY <1>1, <1>3 DEF NetInv, Net!TypeOK, Net!rxVars, Net!txVars, Net!intVars
<1>5. RxInv' /\ NetQueued'
  BY <1>1, <1>3
     DEF NetInv, RxInv, Net!RxSlotsStocked, NetRefilled, NetQueued, Net!rxVars, Net!txVars
<1>6. /\ NetSignals' /\ (NetHeeded' <=> NetHeeded)
      /\ (Net!NothingReceived' <=> Net!NothingReceived)
  BY <1>1
     DEF NetInv, WakeInv, NetSignals, NetHeeded, Net!NothingReceived, Net!rxVars, Net!intVars
<1>7. NetAway' => NetAway
  BY <1>2 DEF NetAway, Net!Dispatch, Net!AllocTx, Net!AllocTxPop, Net!Resume
<1> QED BY <1>3, <1>4, <1>5, <1>6, <1>7 DEF NetInv, WakeInv, NetNotice

LEMMA NetSendKeeps ==
    ASSUME Net!NetworkAssumption, NetInv, Net!Send
    PROVE  NetInv'
<1>1. net_nbuf \in Buffers /\ net_nbuf # NULL
  BY DEF NetInv, Net!TypeOK, NetInHand, Net!Send
<1>2. Net!TxAfter(net_txprod) \in Net!TxSlots
  BY TxAfterInRing DEF NetInv, Net!TypeOK
<1>3. /\ net_pool' \in Seq(Buffers) /\ net_txcons' \in Net!TxSlots
      /\ net_txprod' \in Net!TxSlots
      /\ net_txbuf' \in [Net!TxSlots -> Buffers \cup {NULL}]
      /\ net_txpkt' \in [Net!TxSlots -> BOOLEAN]
      /\ NetQueued'
  <2>1. CASE Net!Refuse
    BY <1>1, <2>1, PoolGrows DEF NetInv, Net!TypeOK, Net!Refuse, NetQueued, Net!txVars
  <2>2. CASE Net!Ship
    <3>1. net_pool' \in Seq(Buffers)
      <4>1. CASE net_txpkt[net_txprod] /\ net_txbuf[Net!TxAfter(net_txprod)] # NULL
        <5>1. net_txbuf[Net!TxAfter(net_txprod)] \in Buffers
          BY <1>2, <4>1 DEF NetInv, Net!TypeOK
        <5> QED BY <2>2, <4>1, <5>1, PoolGrows DEF NetInv, Net!Ship
      <4>2. CASE ~(net_txpkt[net_txprod] /\ net_txbuf[Net!TxAfter(net_txprod)] # NULL)
        BY <2>2, <4>2 DEF NetInv, Net!TypeOK, Net!Ship
      <4> QED BY <4>1, <4>2
    <3>2. /\ net_txcons' \in Net!TxSlots /\ net_txprod' \in Net!TxSlots
          /\ net_txbuf' \in [Net!TxSlots -> Buffers \cup {NULL}]
          /\ net_txpkt' \in [Net!TxSlots -> BOOLEAN]
      BY <1>1, <1>2, <2>2 DEF NetInv, Net!TypeOK, Net!Ship
    <3>3. NetQueued'
      BY <1>1, <2>2 DEF NetInv, Net!TypeOK, NetQueued, Net!Ship
    <3> QED BY <3>1, <3>2, <3>3
  <2> QED BY <2>1, <2>2 DEF Net!Send
<1>4. /\ UNCHANGED <<Net!rxVars, Net!intVars, net_event>> /\ net_nbuf' = NULL
      /\ net_npc' = net_nret /\ net_nret' = "top" /\ net_npc = "send"
      /\ net_nret \in {"drain", "top"}
  BY DEF NetInv, Net!TypeOK, Net!Send, Net!Resume
<1>5. Net!TypeOK'
  BY <1>3, <1>4 DEF NetInv, Net!TypeOK, Net!rxVars, Net!intVars
<1>6. RxInv' /\ NetInHand'
  BY <1>4 DEF NetInv, RxInv, Net!RxSlotsStocked, NetRefilled, NetInHand, Net!rxVars
<1>7. /\ NetSignals' /\ (NetHeeded' <=> NetHeeded)
      /\ (Net!NothingReceived' <=> Net!NothingReceived)
  BY <1>4
     DEF NetInv, WakeInv, NetSignals, NetHeeded, Net!NothingReceived, Net!rxVars, Net!intVars
<1>8. NetAway' => NetAway
  BY <1>4 DEF NetAway
<1> QED BY <1>3, <1>5, <1>6, <1>7, <1>8 DEF NetInv, WakeInv, NetNotice

-----------------------------------------------------------------------------
(* The controller and the interrupts. *)
LEMMA FrameArrivesKeeps ==
    ASSUME Net!NetworkAssumption, NetInv, Net!FrameArrives
    PROVE  NetInv'
<1>1. Net!RxAfter(net_rxprod) \in Net!RxSlots
  BY RxAfterInRing DEF NetInv, Net!TypeOK
<1>2. Net!TypeOK'
  BY <1>1 DEF NetInv, Net!TypeOK, Net!FrameArrives, Net!txVars, Net!netVars
<1>3. RxInv' /\ NetInHand' /\ NetQueued'
  BY DEF NetInv, Net!TypeOK, RxInv, Net!RxSlotsStocked, NetRefilled, NetInHand, NetQueued,
         Net!FrameArrives,
         Net!txVars, Net!netVars
<1>4. NetSignals' /\ NetHeeded'
  BY DEF NetInv, Net!TypeOK, WakeInv, NetSignals, NetHeeded, Net!FrameArrives
<1> QED BY <1>2, <1>3, <1>4 DEF NetInv, WakeInv, NetNotice

LEMMA FrameSentKeeps ==
    ASSUME Net!NetworkAssumption, NetInv, Net!FrameSent
    PROVE  NetInv'
<1>1. Net!TxAfter(net_txcons) \in Net!TxSlots
  BY TxAfterInRing DEF NetInv, Net!TypeOK
<1>2. Net!TypeOK'
  BY <1>1 DEF NetInv, Net!TypeOK, Net!FrameSent, Net!rxVars, Net!netVars
<1>3. RxInv' /\ NetInHand' /\ NetQueued'
  BY DEF NetInv, RxInv, Net!RxSlotsStocked, NetRefilled, NetInHand, NetQueued, Net!FrameSent,
         Net!rxVars, Net!netVars
<1>4. WakeInv'
  BY DEF NetInv, WakeInv, NetNotice, NetAway, NetHeeded, NetSignals, Net!NothingReceived,
         Net!FrameSent,
         Net!rxVars, Net!netVars
<1> QED BY <1>2, <1>3, <1>4 DEF NetInv

LEMMA HandleInterruptKeeps ==
    ASSUME Net!NetworkAssumption, NetInv, Net!HandleInterrupt
    PROVE  NetInv'
<1> DEFINE walk == IF "tx" \in net_intstatus THEN Net!Reclaimable ELSE <<>>
           freed == [n \in DOMAIN walk |-> net_txbuf[walk[n]]]
<1>1. /\ net_pool' = net_pool \o freed
      /\ net_txbuf' =
             [i \in Net!TxSlots |-> IF Net!Contains(walk, i) THEN NULL ELSE net_txbuf[i]]
      /\ net_txpkt' = [i \in Net!TxSlots |-> net_txpkt[i] /\ ~Net!Contains(walk, i)]
      /\ net_signal' = ("rx" \in net_intstatus \/ walk # <<>>)
      /\ net_handling' = net_intstatus /\ net_handling = {}
      /\ UNCHANGED <<Net!rxVars, net_txcons, net_txprod, net_intstatus, net_event, Net!netVars>>
  BY DEF Net!HandleInterrupt, Net!InThread
<1>2. walk \in Seq(Net!TxSlots) /\ \A k \in DOMAIN walk : net_txpkt[walk[k]]
  BY WalkReclaims, EmptySeq DEF NetInv
<1> HIDE DEF walk
<1>3. freed \in Seq(Buffers)
  <2>1. /\ Len(walk) \in Nat /\ DOMAIN walk = 1..Len(walk)
        /\ \A k \in DOMAIN walk : walk[k] \in Net!TxSlots
    BY <1>2, LenProperties, ElementOfSeq
  <2>2. \A k \in 1..Len(walk) : net_txbuf[walk[k]] \in Buffers
    BY <1>2, <2>1 DEF NetInv, Net!TypeOK, NetQueued
  <2>3. freed \in [1..Len(walk) -> Buffers]
    BY <2>1, <2>2
  <2> QED BY <2>1, <2>3, SeqDef
<1> HIDE DEF freed
<1>4. net_pool' \in Seq(Buffers)
  BY <1>1, <1>3, ConcatProperties DEF NetInv, Net!TypeOK
<1>5. /\ net_txbuf' \in [Net!TxSlots -> Buffers \cup {NULL}]
      /\ net_txpkt' \in [Net!TxSlots -> BOOLEAN]
      /\ NetQueued'
  <2> HIDE DEF Net!Contains
  <2>1. net_txbuf' \in [Net!TxSlots -> Buffers \cup {NULL}]
    BY <1>1 DEF NetInv, Net!TypeOK
  <2>2. \A i \in Net!TxSlots : net_txpkt'[i] = (net_txpkt[i] /\ ~Net!Contains(walk, i))
    BY <1>1
  <2>3. \A i \in Net!TxSlots :
            net_txbuf'[i] = IF Net!Contains(walk, i) THEN NULL ELSE net_txbuf[i]
    BY <1>1
  <2>4. net_txpkt' \in [Net!TxSlots -> BOOLEAN]
    BY <1>1
  <2>5. NetQueued'
    BY <2>2, <2>3 DEF NetInv, NetQueued
  <2> QED BY <2>1, <2>4, <2>5
<1>6. net_signal' \in BOOLEAN
  BY <1>1
<1>7. Net!TypeOK'
  BY <1>1, <1>4, <1>5, <1>6 DEF NetInv, Net!TypeOK, Net!rxVars, Net!netVars
<1>8. RxInv' /\ NetInHand'
  BY <1>1 DEF NetInv, RxInv, Net!RxSlotsStocked, NetRefilled, NetInHand, Net!rxVars, Net!netVars
<1>9. "rx" \in net_intstatus => net_signal'
  BY <1>1
<1>10. NetSignals' /\ (NetHeeded => NetHeeded')
  BY <1>1, <1>9 DEF NetSignals, NetHeeded
<1>11. (NetAway' <=> NetAway) /\ (Net!NothingReceived' <=> Net!NothingReceived)
  BY <1>1 DEF NetAway, Net!NothingReceived, Net!rxVars, Net!netVars
<1> QED BY <1>5, <1>7, <1>8, <1>10, <1>11 DEF NetInv, WakeInv, NetNotice

LEMMA SignalsKeep ==
    ASSUME Net!NetworkAssumption, NetInv, Net!ClearInterrupt \/ Net!PhyInterrupt
    PROVE  NetInv'
<1>1. UNCHANGED <<net_pool, Net!rxVars, Net!txVars, Net!netVars>>
  BY DEF Net!ClearInterrupt, Net!PhyInterrupt
<1>2. Net!TypeOK'
  BY <1>1 DEF NetInv, Net!TypeOK, Net!ClearInterrupt, Net!PhyInterrupt, Net!rxVars, Net!txVars,
              Net!netVars, Net!intVars
<1>3. RxInv' /\ NetInHand' /\ NetQueued'
  BY <1>1 DEF NetInv, RxInv, Net!RxSlotsStocked, NetRefilled, NetInHand, NetQueued, Net!rxVars,
              Net!txVars, Net!netVars
<1>4. (NetAway' <=> NetAway) /\ (Net!NothingReceived' <=> Net!NothingReceived)
  BY <1>1 DEF NetAway, Net!NothingReceived, Net!rxVars, Net!netVars
<1>5. NetSignals' /\ (NetHeeded => NetHeeded')
  BY DEF NetInv, WakeInv, NetSignals, NetHeeded, Net!ClearInterrupt, Net!PhyInterrupt,
         Net!intVars
<1> QED BY <1>2, <1>3, <1>4, <1>5 DEF NetInv, WakeInv, NetNotice

-----------------------------------------------------------------------------
LEMMA NetNext ==
    ASSUME Net!NetworkAssumption, NetInv, [Net!Next]_Net!vars
    PROVE  NetInv'
<1>1. CASE Net!NetThread
  BY <1>1, LoopKeeps, NetReceiveKeeps, RestockKeeps, RestockPopKeeps, HandKeeps, NetSendKeeps
     DEF Net!NetThread
<1>2. CASE Net!Hardware
  BY <1>2, FrameArrivesKeeps, FrameSentKeeps, HandleInterruptKeeps, SignalsKeep DEF Net!Hardware
<1>3. CASE UNCHANGED Net!vars
  BY <1>3, NetStutter
<1> QED BY <1>1, <1>2, <1>3 DEF Net!Next

LEMMA NetInvariance == Net!Spec => []NetInv
<1>1. Net!NetworkAssumption
  BY LibraryAssumption DEF LibraryAssumption
<1>2. Net!Init => NetInv
  BY <1>1, NetInit
<1>3. NetInv /\ [Net!Next]_Net!vars => NetInv'
  BY <1>1, NetNext
<1> QED
  BY <1>2, <1>3, PTL DEF Net!Spec

(* The Ethernet controller never comes to a receive slot without a buffer,  *)
(* or with a frame that was taken out (Ethernet::Receive, RestockRx).       *)
THEOREM AlwaysStocked == Spec => []RxSlotsStocked
<1>1. NetInv => RxSlotsStocked
  BY DEF NetInv, RxInv, RxSlotsStocked
<1> QED
  BY <1>1, NetInvariance, NetworkMapped, PTL

(* The network thread never sleeps on a frame that no signal is on its way  *)
(* for (NetThread, Ethernet::HandleInterrupt).                              *)
THEOREM NoFrameMissed == Spec => []PacketNoticed
<1>1. NetInv => PacketNoticed
  BY DEF NetInv, WakeInv, NetNotice, NetHeeded, NetAway, Net!PacketNoticed, PacketNoticed
<1> QED
  BY <1>1, NetInvariance, NetworkMapped, PTL

-----------------------------------------------------------------------------
(* UDP sockets, Sock. *)

(* A socket is listed by the tuple it has, and only while its owner has not *)
(* taken it off: from there to Relist it has no place in the list, so that  *)
(* it can change its tuple.                                                 *)
SockListed(s) == udp_opc[s] \in {"open", "found"}
SockPlaced ==
    \A t \in Tuples :
        udp_socklist[t] # NULL =>
            udp_id[udp_socklist[t]] = t /\ SockListed(udp_socklist[t])

(* A socket in use has a tuple, and one that is to change it has the next. *)
SockHasTuples ==
    \A s \in Sockets :
        /\ udp_opc[s] # "new" => udp_id[s] \in Tuples
        /\ udp_opc[s] \in {"found", "deregistered"} => udp_want[s] \in Tuples

(* Who has a socket in hand, and that a reader which is about to clear the  *)
(* event, and an error that is about to write it back, have read what is    *)
(* still so.                                                                *)
SockReaderInHand == \A r \in Readers : udp_rpc[r] # "idle" => udp_rsock[r] \in Sockets
SockNetInHand == udp_npc # "idle" => udp_nsock \in Sockets
SockClearsEmpty ==
    \A r \in Readers : udp_rpc[r] = "clear" => udp_recvq[udp_rsock[r]] = 0
SockErrorKeeps ==
    udp_npc = "error" /\ udp_recvq[udp_nsock] > 0 => "readable" \in udp_nev

SockListInv == SockPlaced /\ SockHasTuples
SockEventInv ==
    /\ SockReaderInHand /\ SockNetInHand /\ SockClearsEmpty /\ SockErrorKeeps
    /\ Sock!QueuedIsReadable
SockInv == Sock!TypeOK /\ SockListInv /\ SockEventInv

-----------------------------------------------------------------------------
(* No socket is open yet. *)
LEMMA SockInit ==
    ASSUME Sock!UdpAssumption, Sock!Init
    PROVE  SockInv
<1>1. Sock!TypeOK
  <2>1. {} \in Sock!Events /\ 0 \in 0..QueueMax
    BY DEF Sock!Events, Sock!UdpAssumption
  <2> QED BY <2>1 DEF Sock!Init, Sock!TypeOK
<1>2. SockListInv
  BY DEF Sock!Init, SockListInv, SockPlaced, SockHasTuples
<1>3. SockEventInv
  BY DEF Sock!Init, SockEventInv, SockReaderInHand, SockNetInHand, SockClearsEmpty,
         SockErrorKeeps, Sock!QueuedIsReadable
<1> QED BY <1>1, <1>2, <1>3 DEF SockInv

(* The steps of owners: they change the list and the tuples only. *)
LEMMA SockOwnerKeeps ==
    ASSUME Sock!UdpAssumption, SockInv, Sock!Owner
    PROVE  SockInv'
<1> USE DEF Sock!UdpAssumption
<1>1. Sock!TypeOK /\ SockPlaced /\ SockHasTuples /\ SockEventInv
  BY DEF SockInv, SockListInv
<1>2. PICK s \in Sockets :
        Sock!Create(s) \/ Sock!FindFree(s) \/ Sock!Unlist(s) \/ Sock!Rename(s)
            \/ Sock!Relist(s) \/ Sock!Close(s)
  BY DEF Sock!Owner
<1>3. UNCHANGED <<udp_recvq, udp_ev, Sock!netVars, Sock!readVars, udp_halted>>
  BY <1>2 DEF Sock!Owner, Sock!Create, Sock!FindFree, Sock!Unlist, Sock!Rename,
              Sock!Relist, Sock!Close
<1>4. SockEventInv'
  BY <1>1, <1>3 DEF SockEventInv, SockReaderInHand, SockNetInHand, SockClearsEmpty,
                    SockErrorKeeps,
                    Sock!QueuedIsReadable, Sock!netVars, Sock!readVars
<1>5. /\ udp_socklist' \in [Tuples -> Sockets \cup {NULL}]
      /\ udp_id' \in [Sockets -> Tuples \cup {NULL}]
      /\ udp_want' \in [Sockets -> Tuples \cup {NULL}]
      /\ udp_opc' \in [Sockets -> {"new", "open", "found", "deregistered", "renamed",
                                   "closed"}]
      /\ SockPlaced' /\ SockHasTuples'
  <2>1. CASE Sock!Create(s)
    <3>1. PICK t \in Tuples :
            /\ udp_socklist[t] = NULL
            /\ udp_id' = [udp_id EXCEPT ![s] = t]
            /\ udp_socklist' = [udp_socklist EXCEPT ![t] = s]
      BY <2>1 DEF Sock!Create, Sock!Register
    <3>2. udp_opc[s] = "new" /\ udp_opc' = [udp_opc EXCEPT ![s] = "open"]
              /\ UNCHANGED udp_want
      BY <2>1 DEF Sock!Create, Sock!OwnerGoes
    <3>3. \A u \in Tuples : udp_socklist[u] # s
      BY <1>1, <3>2 DEF SockPlaced, SockListed, Sock!TypeOK
    <3> QED BY <1>1, <3>1, <3>2, <3>3
            DEF Sock!TypeOK, SockPlaced, SockHasTuples, SockListed
  <2>2. CASE Sock!FindFree(s)
    <3>1. PICK t \in Tuples : udp_want' = [udp_want EXCEPT ![s] = t]
      BY <2>2 DEF Sock!FindFree
    <3>2. /\ udp_opc[s] = "open" /\ udp_opc' = [udp_opc EXCEPT ![s] = "found"]
          /\ UNCHANGED <<udp_socklist, udp_id>>
      BY <2>2 DEF Sock!FindFree, Sock!OwnerGoes
    <3> QED BY <1>1, <3>1, <3>2 DEF Sock!TypeOK, SockPlaced, SockHasTuples, SockListed
  <2>3. CASE Sock!Unlist(s)
    <3>1. /\ udp_opc[s] = "found" /\ udp_opc' = [udp_opc EXCEPT ![s] = "deregistered"]
          /\ udp_socklist' = [udp_socklist EXCEPT ![udp_id[s]] = NULL]
          /\ UNCHANGED <<udp_id, udp_want>>
      BY <2>3 DEF Sock!Unlist, Sock!OwnerGoes, Sock!Deregister
    <3>2. \A t \in Tuples : udp_socklist'[t] # s
      BY <1>1, <3>1 DEF SockPlaced, SockHasTuples, Sock!TypeOK
    <3> QED BY <1>1, <3>1, <3>2 DEF Sock!TypeOK, SockPlaced, SockHasTuples, SockListed
  <2>4. CASE Sock!Rename(s)
    <3>1. /\ udp_opc[s] = "deregistered" /\ udp_opc' = [udp_opc EXCEPT ![s] = "renamed"]
          /\ udp_id' = [udp_id EXCEPT ![s] = udp_want[s]]
          /\ udp_want' = [udp_want EXCEPT ![s] = NULL]
          /\ UNCHANGED udp_socklist
      BY <2>4 DEF Sock!Rename, Sock!OwnerGoes
    <3>2. \A t \in Tuples : udp_socklist[t] # s
      BY <1>1, <3>1 DEF SockPlaced, SockListed, Sock!TypeOK
    <3> QED BY <1>1, <3>1, <3>2 DEF Sock!TypeOK, SockPlaced, SockHasTuples, SockListed
  <2>5. CASE Sock!Relist(s)
    <3>1. /\ udp_opc[s] = "renamed" /\ udp_opc' = [udp_opc EXCEPT ![s] = "open"]
          /\ udp_socklist' = [udp_socklist EXCEPT ![udp_id[s]] = s]
          /\ UNCHANGED <<udp_id, udp_want>>
      BY <2>5 DEF Sock!Relist, Sock!OwnerGoes, Sock!Register
    <3>2. udp_id[s] \in Tuples
      BY <1>1, <3>1 DEF SockHasTuples
    <3> QED BY <1>1, <3>1, <3>2 DEF Sock!TypeOK, SockPlaced, SockHasTuples, SockListed
  <2>6. CASE Sock!Close(s)
    <3>1. /\ udp_opc[s] = "open" /\ udp_opc' = [udp_opc EXCEPT ![s] = "closed"]
          /\ udp_socklist' = [udp_socklist EXCEPT ![udp_id[s]] = NULL]
          /\ UNCHANGED <<udp_id, udp_want>>
      BY <2>6 DEF Sock!Close, Sock!OwnerGoes, Sock!Deregister
    <3>2. \A t \in Tuples : udp_socklist'[t] # s
      BY <1>1, <3>1 DEF SockPlaced, SockHasTuples, Sock!TypeOK
    <3> QED BY <1>1, <3>1, <3>2 DEF Sock!TypeOK, SockPlaced, SockHasTuples, SockListed
  <2> QED BY <1>2, <2>1, <2>2, <2>3, <2>4, <2>5, <2>6
<1>6. Sock!TypeOK'
  BY <1>1, <1>3, <1>5 DEF Sock!TypeOK, Sock!netVars, Sock!readVars
<1> QED BY <1>4, <1>5, <1>6 DEF SockInv, SockListInv

-----------------------------------------------------------------------------
(* Steps that leave the sockets' names and places alone. *)
LEMMA SockListUntouched ==
    ASSUME SockListInv, UNCHANGED <<udp_socklist, Sock!ownVars>>
    PROVE  SockListInv'
BY DEF SockListInv, SockPlaced, SockHasTuples, SockListed, Sock!ownVars

(* The network thread: an error writes back what it read, and no datagram   *)
(* has been delivered since.                                                 *)
LEMMA SockNetworkKeeps ==
    ASSUME Sock!UdpAssumption, SockInv, Sock!Network
    PROVE  SockInv'
<1>1. Sock!TypeOK /\ SockListInv /\ SockReaderInHand /\ SockNetInHand
          /\ SockClearsEmpty /\ SockErrorKeeps /\ Sock!QueuedIsReadable
  BY DEF SockInv, SockEventInv
<1>2. UNCHANGED <<udp_socklist, Sock!ownVars, Sock!readVars, udp_halted>>
  BY DEF Sock!Network, Sock!Find, Sock!Deliver, Sock!IcmpError
<1>3. SockListInv'
  BY <1>1, <1>2, SockListUntouched
<1>4. SockReaderInHand'
  BY <1>1, <1>2 DEF SockReaderInHand, Sock!readVars
<1>5. /\ udp_recvq' \in [Sockets -> 0..QueueMax] /\ udp_ev' \in [Sockets -> Sock!Events]
      /\ udp_npc' \in {"idle", "deliver", "error"}
      /\ udp_nsock' \in Sockets \cup {NULL} /\ udp_nev' \in Sock!Events
      /\ SockNetInHand' /\ SockClearsEmpty' /\ SockErrorKeeps' /\ Sock!QueuedIsReadable'
  <2>1. CASE Sock!Find
    <3>1. PICK t \in Tuples :
            /\ udp_socklist[t] # NULL /\ udp_nsock' = udp_socklist[t]
            /\ \/ udp_npc' = "deliver" /\ UNCHANGED udp_nev
               \/ udp_npc' = "error" /\ udp_nev' = udp_ev[udp_socklist[t]]
      BY <2>1 DEF Sock!Find
    <3>2. UNCHANGED <<udp_recvq, udp_ev, udp_rpc, udp_rsock>>
      BY <2>1 DEF Sock!Find, Sock!readVars
    <3>3. udp_nsock' \in Sockets
      BY <1>1, <3>1 DEF Sock!TypeOK
    <3> QED BY <1>1, <3>1, <3>2, <3>3
            DEF Sock!TypeOK, SockNetInHand, SockClearsEmpty, SockErrorKeeps,
                Sock!QueuedIsReadable
  <2>2. CASE Sock!Deliver
    <3>1. /\ udp_npc = "deliver" /\ ~Sock!Locked(udp_nsock)
          /\ udp_recvq[udp_nsock] < QueueMax
          /\ udp_recvq' = [udp_recvq EXCEPT ![udp_nsock] = @ + 1]
          /\ udp_ev' = [udp_ev EXCEPT ![udp_nsock] = @ \cup {"readable"}]
          /\ udp_npc' = "idle" /\ udp_nsock' = NULL
          /\ UNCHANGED <<udp_nev, udp_rpc, udp_rsock>>
      BY <2>2 DEF Sock!Deliver, Sock!readVars
    <3>2. udp_nsock \in Sockets /\ udp_ev[udp_nsock] \in Sock!Events
              /\ udp_recvq[udp_nsock] \in 0..QueueMax
      BY <1>1, <3>1 DEF SockNetInHand, Sock!TypeOK
    <3>3. udp_ev[udp_nsock] \cup {"readable"} \in Sock!Events
      BY <3>2 DEF Sock!Events
    <3>4. udp_recvq[udp_nsock] + 1 \in 0..QueueMax
      BY <3>1, <3>2 DEF Sock!UdpAssumption
    <3>5. SockClearsEmpty'
      BY <1>1, <3>1, <3>2 DEF SockClearsEmpty, Sock!Locked, SockReaderInHand,
                              Sock!TypeOK
    <3>6. Sock!QueuedIsReadable'
      BY <1>1, <3>1, <3>2 DEF Sock!QueuedIsReadable, Sock!TypeOK
    <3> QED BY <1>1, <3>1, <3>2, <3>3, <3>4, <3>5, <3>6
            DEF Sock!TypeOK, SockNetInHand, SockErrorKeeps
  <2>3. CASE Sock!IcmpError
    <3>1. /\ udp_npc = "error"
          /\ udp_ev' = [udp_ev EXCEPT ![udp_nsock] = udp_nev \cup {"error"}]
          /\ udp_npc' = "idle" /\ udp_nsock' = NULL /\ udp_nev' = {}
          /\ UNCHANGED <<udp_recvq, udp_rpc, udp_rsock>>
      BY <2>3 DEF Sock!IcmpError, Sock!readVars
    <3>2. udp_nsock \in Sockets /\ udp_nev \cup {"error"} \in Sock!Events
              /\ {} \in Sock!Events
      BY <1>1, <3>1 DEF SockNetInHand, Sock!TypeOK, Sock!Events
    <3>3. Sock!QueuedIsReadable'
      BY <1>1, <3>1, <3>2 DEF Sock!QueuedIsReadable, SockErrorKeeps, Sock!TypeOK
    <3>4. SockClearsEmpty'
      BY <1>1, <3>1 DEF SockClearsEmpty
    <3> QED BY <1>1, <3>1, <3>2, <3>3, <3>4
            DEF Sock!TypeOK, SockNetInHand, SockErrorKeeps
  <2> QED BY <2>1, <2>2, <2>3 DEF Sock!Network
<1>6. Sock!TypeOK'
  BY <1>1, <1>2, <1>5 DEF Sock!TypeOK, Sock!ownVars, Sock!readVars
<1> QED BY <1>3, <1>4, <1>5, <1>6 DEF SockInv, SockEventInv

-----------------------------------------------------------------------------
(* Readers: one that takes the last datagram keeps the socket's lock until  *)
(* it has cleared the event.                                                 *)
LEMMA SockRecvFromKeeps ==
    ASSUME Sock!UdpAssumption, SockInv, Sock!RecvFrom
    PROVE  SockInv'
<1>1. Sock!TypeOK /\ SockListInv /\ SockReaderInHand /\ SockNetInHand
          /\ SockClearsEmpty /\ SockErrorKeeps /\ Sock!QueuedIsReadable
  BY DEF SockInv, SockEventInv
<1>2. UNCHANGED <<udp_socklist, Sock!ownVars, Sock!netVars>>
  BY DEF Sock!RecvFrom
<1>3. SockListInv'
  BY <1>1, <1>2, SockListUntouched
<1>4. SockNetInHand'
  BY <1>1, <1>2 DEF SockNetInHand, Sock!netVars
<1>5. PICK r \in Readers : Sock!RecvTest(r) \/ Sock!RecvTake(r) \/ Sock!RecvClear(r)
  BY DEF Sock!RecvFrom
<1>6. /\ udp_recvq' \in [Sockets -> 0..QueueMax] /\ udp_ev' \in [Sockets -> Sock!Events]
      /\ udp_rpc' \in [Readers -> {"idle", "tested", "clear"}]
      /\ udp_rsock' \in [Readers -> Sockets \cup {NULL}]
      /\ udp_rev' \in [Readers -> Sock!Events]
      /\ udp_halted' \in BOOLEAN
      /\ SockReaderInHand' /\ SockClearsEmpty' /\ SockErrorKeeps'
      /\ Sock!QueuedIsReadable'
  <2>1. CASE Sock!RecvTest(r)
    <3>1. PICK s \in Sockets : udp_recvq[s] > 0
              /\ udp_rsock' = [udp_rsock EXCEPT ![r] = s]
      BY <2>1 DEF Sock!RecvTest
    <3>2. /\ udp_rpc[r] = "idle" /\ udp_rpc' = [udp_rpc EXCEPT ![r] = "tested"]
          /\ UNCHANGED <<udp_recvq, udp_ev, udp_rev, udp_halted>>
      BY <2>1 DEF Sock!RecvTest
    <3> QED BY <1>1, <1>2, <3>1, <3>2
            DEF Sock!TypeOK, SockReaderInHand, SockClearsEmpty, SockErrorKeeps,
                Sock!QueuedIsReadable, Sock!netVars
  <2>2. CASE Sock!RecvTake(r) /\ udp_recvq[udp_rsock[r]] = 0
    <3>1. /\ udp_halted' = TRUE
          /\ UNCHANGED <<udp_recvq, udp_rpc, udp_rsock, udp_rev, udp_ev>>
      BY <2>2 DEF Sock!RecvTake
    <3> QED BY <1>1, <1>2, <3>1
            DEF Sock!TypeOK, SockReaderInHand, SockClearsEmpty, SockErrorKeeps,
                Sock!QueuedIsReadable, Sock!netVars
  <2>3. CASE Sock!RecvTake(r) /\ udp_recvq[udp_rsock[r]] # 0
    <3> DEFINE s == udp_rsock[r]
    <3>1. /\ udp_rpc[r] = "tested" /\ ~Sock!Locked(s)
          /\ udp_recvq' = [udp_recvq EXCEPT ![s] = @ - 1]
          /\ UNCHANGED <<udp_ev, udp_halted>>
      BY <2>3 DEF Sock!RecvTake
    <3>2. s \in Sockets
      BY <1>1, <3>1 DEF SockReaderInHand
    <3>3. udp_recvq[s] \in 1..QueueMax /\ udp_recvq[s] - 1 \in 0..QueueMax
      BY <1>1, <2>3, <3>2 DEF Sock!TypeOK, Sock!UdpAssumption
    <3>4. udp_recvq' \in [Sockets -> 0..QueueMax]
      BY <1>1, <3>1, <3>3 DEF Sock!TypeOK
    <3>5. Sock!QueuedIsReadable' /\ SockErrorKeeps'
      BY <1>1, <1>2, <3>1, <3>2, <3>3
         DEF Sock!QueuedIsReadable, SockErrorKeeps, SockNetInHand, Sock!TypeOK,
             Sock!netVars
    <3>6. CASE udp_recvq[s] > 1
      <4>1. /\ udp_rpc' = [udp_rpc EXCEPT ![r] = "idle"]
            /\ udp_rsock' = [udp_rsock EXCEPT ![r] = NULL]
            /\ UNCHANGED udp_rev
        BY <2>3, <3>6 DEF Sock!RecvTake
      <4>2. SockClearsEmpty'
        BY <1>1, <3>1, <3>2, <4>1 DEF SockClearsEmpty, Sock!Locked, SockReaderInHand,
                                      Sock!TypeOK
      <4> QED BY <1>1, <3>1, <3>4, <3>5, <4>1, <4>2 DEF Sock!TypeOK, SockReaderInHand
    <3>7. CASE ~(udp_recvq[s] > 1)
      <4>1. /\ udp_rpc' = [udp_rpc EXCEPT ![r] = "clear"]
            /\ udp_rev' = [udp_rev EXCEPT ![r] = udp_ev[s]]
            /\ UNCHANGED udp_rsock
        BY <2>3, <3>7 DEF Sock!RecvTake
      <4>2. udp_recvq[s] - 1 = 0
        BY <3>3, <3>7 DEF Sock!UdpAssumption
      <4>3. SockClearsEmpty'
        BY <1>1, <3>1, <3>2, <4>1, <4>2
           DEF SockClearsEmpty, Sock!Locked, SockReaderInHand, Sock!TypeOK
      <4> QED BY <1>1, <3>1, <3>2, <3>4, <3>5, <4>1, <4>3
              DEF Sock!TypeOK, SockReaderInHand
    <3> QED BY <3>6, <3>7
  <2>4. CASE Sock!RecvClear(r)
    <3>1. /\ udp_rpc[r] = "clear"
          /\ udp_ev' = [udp_ev EXCEPT ![udp_rsock[r]] = udp_rev[r] \ {"readable"}]
          /\ udp_rpc' = [udp_rpc EXCEPT ![r] = "idle"]
          /\ udp_rsock' = [udp_rsock EXCEPT ![r] = NULL]
          /\ udp_rev' = [udp_rev EXCEPT ![r] = {}]
          /\ UNCHANGED <<udp_recvq, udp_halted>>
      BY <2>4 DEF Sock!RecvClear
    <3>2. udp_rsock[r] \in Sockets /\ udp_recvq[udp_rsock[r]] = 0
      BY <1>1, <3>1 DEF SockReaderInHand, SockClearsEmpty
    <3>3. udp_rev[r] \ {"readable"} \in Sock!Events /\ {} \in Sock!Events
      BY <1>1 DEF Sock!TypeOK, Sock!Events
    <3>4. Sock!QueuedIsReadable'
      BY <1>1, <3>1, <3>2 DEF Sock!QueuedIsReadable, Sock!TypeOK
    <3> QED BY <1>1, <1>2, <3>1, <3>2, <3>3, <3>4
            DEF Sock!TypeOK, SockReaderInHand, SockClearsEmpty, SockErrorKeeps,
                Sock!netVars
  <2> QED BY <1>5, <2>1, <2>2, <2>3, <2>4
<1>7. Sock!TypeOK'
  BY <1>1, <1>2, <1>6 DEF Sock!TypeOK, Sock!ownVars, Sock!netVars
<1> QED BY <1>3, <1>4, <1>6, <1>7 DEF SockInv, SockEventInv

LEMMA SockStep ==
    ASSUME Sock!UdpAssumption, SockInv, [Sock!Next]_Sock!vars
    PROVE  SockInv'
<1>1. CASE UNCHANGED Sock!vars
  BY <1>1
      DEF Sock!vars, Sock!ownVars, Sock!netVars, Sock!readVars, SockInv,
          Sock!TypeOK, SockListInv, SockPlaced, SockHasTuples, SockListed,
          SockEventInv, SockReaderInHand, SockNetInHand, SockClearsEmpty,
          SockErrorKeeps, Sock!QueuedIsReadable
<1> QED BY <1>1, SockOwnerKeeps, SockNetworkKeeps, SockRecvFromKeeps DEF Sock!Next

LEMMA SockInvariance == ASSUME Sock!UdpAssumption PROVE Sock!Spec => []SockInv
<1>1. Sock!Init => SockInv
  BY SockInit
<1>2. SockInv /\ [Sock!Next]_Sock!vars => SockInv'
  BY SockStep
<1> QED BY <1>1, <1>2, PTL DEF Sock!Spec

(* The library is UDP with its sockets. *)
LEMMA UdpMapped == Spec => Sock!Spec
<1>1. Init => Sock!Init
  BY DEF Init
<1>2. [Next]_vars => [Sock!Next]_Sock!vars
  <2>1. CASE UdpMoves
    BY <2>1 DEF UdpMoves
  <2>2. CASE UNCHANGED udpVars
    BY <2>2 DEF udpVars, Sock!vars, Sock!ownVars, Sock!netVars, Sock!readVars
  <2> QED
    BY <2>1, <2>2
        DEF vars, Next,
            NetworkMoves, DhcpMoves, HashTableMoves, FreelistMoves,
            Fat32Moves, BlkCacheMoves, DmaMoves, EepromMoves,
            ContainersMoves, UtilMoves, UsbMoves
<1> QED
  BY <1>1, <1>2, PTL DEF Spec, vars, Sock!Spec

(* The variables of the sockets stay in their types. *)
THEOREM UdpTypesHold == Spec => []Sock!TypeOK
<1>1. SockInv => Sock!TypeOK
  BY DEF SockInv
<1>2. Sock!Spec => []SockInv
  BY LibraryAssumption, SockInvariance DEF LibraryAssumption
<1> QED BY <1>1, <1>2, UdpMapped, PTL

(* No tuple leads to a socket with another name or a closed one             *)
(* (Udp::Bind, Connect, Close).                                             *)
THEOREM TuplesLeadHome == Spec => []ListedAsNamed
<1>1. SockInv => ListedAsNamed
  BY DEF SockInv, SockListInv, SockPlaced, SockListed, Sock!ListedAsNamed, ListedAsNamed
<1>2. Sock!Spec => []SockInv
  BY LibraryAssumption, SockInvariance DEF LibraryAssumption
<1> QED
  BY <1>1, <1>2, UdpMapped, PTL

(* A socket with datagrams in its queue shows that it is readable           *)
(* (Udp::Receive, RecvFrom).                                                *)
THEOREM NoEventLost == Spec => []QueuedIsReadable
<1>1. SockInv => QueuedIsReadable
  BY DEF SockInv, SockEventInv, QueuedIsReadable
<1>2. Sock!Spec => []SockInv
  BY LibraryAssumption, SockInvariance DEF LibraryAssumption
<1> QED
  BY <1>1, <1>2, UdpMapped, PTL

-----------------------------------------------------------------------------
(* The DHCP client, Lease. *)

(* The inductive invariant: the byte is a power of two, or 0 once a lease   *)
(* ended the backoff, and the wait to the next message is never above the   *)
(* longest backoff, which is why NetThread may take it as its own.          *)
BackoffIsPower ==
    /\ dhcp_backoff \in Lease!PowersOfTwo \cup {0} /\ dhcp_backoff <= MaxBackoff
    /\ dhcp_backoff = 0 => dhcp_state = "configured"

LeaseInv ==
    Lease!TypeOK /\ BackoffIsPower /\ dhcp_rexmit <= MaxBackoff /\ Lease!ServiceTimely

-----------------------------------------------------------------------------
(* A backoff that is not at its end doubles, without a wrap. *)
LEMMA BackoffDoubles ==
    ASSUME Lease!DhcpAssumption, NEW b \in Lease!PowersOfTwo, b < MaxBackoff
    PROVE  /\ (2 * b) % (2 * MaxBackoff) = 2 * b
           /\ 2 * b \in Lease!PowersOfTwo /\ 2 * b <= MaxBackoff
BY DEF Lease!DhcpAssumption, Lease!PowersOfTwo

(* What sending a message leaves, whether there was a buffer for it or not. *)
LEMMA SendBacksOff ==
    ASSUME Lease!DhcpAssumption, NEW to, NEW s, NEW b \in Lease!PowersOfTwo,
           b < MaxBackoff,
           Lease!Send(to, s, b)
    PROVE  /\ dhcp_state' \in {to, s}
           /\ dhcp_backoff' \in Lease!PowersOfTwo /\ dhcp_backoff' <= MaxBackoff
           /\ dhcp_rexmit' \in Nat /\ dhcp_rexmit' <= MaxBackoff
<1>1. CASE dhcp_state' = to /\ Lease!Backoff(b)
  BY <1>1, BackoffDoubles DEF Lease!Backoff, Lease!PowersOfTwo
<1>2. CASE dhcp_state' = s /\ dhcp_backoff' = b /\ dhcp_rexmit' = 1
  BY <1>2 DEF Lease!PowersOfTwo, Lease!DhcpAssumption
<1> QED BY <1>1, <1>2 DEF Lease!Send

LEMMA BackoffTyped ==
    ASSUME Lease!DhcpAssumption, NEW b \in Lease!PowersOfTwo \cup {0}, b <= MaxBackoff
    PROVE  b \in 0..(2 * MaxBackoff - 1)
BY DEF Lease!DhcpAssumption, Lease!PowersOfTwo

(* NetThread starts with the reset that the invariant begins from. *)
LEMMA LeaseInit ==
    ASSUME Lease!DhcpAssumption, Lease!Init
    PROVE  LeaseInv
<1>1. 2 % (2 * MaxBackoff) = 2 /\ 2 <= MaxBackoff /\ MaxBackoff \in Nat
  BY DEF Lease!DhcpAssumption, Lease!PowersOfTwo
<1>2. dhcp_backoff \in {1, 2} /\ dhcp_rexmit = dhcp_backoff /\ dhcp_next = dhcp_backoff
  BY <1>1 DEF Lease!Init
<1>3. dhcp_state \in {"discover", "reset"} /\ dhcp_renew = 0 /\ dhcp_asked = 0
  BY DEF Lease!Init
<1> QED BY <1>1, <1>2, <1>3
      DEF LeaseInv, Lease!TypeOK, BackoffIsPower, Lease!ServiceTimely, Lease!PowersOfTwo

-----------------------------------------------------------------------------
(* An answer changes the wait of the client, never that of NetThread: it is *)
(* within the longest backoff while the client has no lease.                *)
LEMMA ReceiveKeeps ==
    ASSUME Lease!DhcpAssumption, LeaseInv, Lease!Receive
    PROVE  LeaseInv'
<1>1. 1 \in Lease!PowersOfTwo /\ 1 < MaxBackoff /\ MaxBackoff \in Nat
  BY DEF Lease!DhcpAssumption, Lease!PowersOfTwo
<1>2. Lease!TypeOK /\ BackoffIsPower /\ dhcp_rexmit <= MaxBackoff /\ Lease!ServiceTimely
  BY DEF LeaseInv
<1>3. CASE Lease!Offer
  <2>1. dhcp_state = "discover" /\ dhcp_asked' = 0 /\ UNCHANGED <<dhcp_renew,
                                                                  dhcp_next>>
    BY <1>3 DEF Lease!Offer
  <2>2. Lease!Send("request", "discover", 1)
    BY <1>3 DEF Lease!Offer, Lease!SendRequest
  <2>3. /\ dhcp_state' \in {"request", "discover"}
        /\ dhcp_backoff' \in Lease!PowersOfTwo /\ dhcp_backoff' <= MaxBackoff
        /\ dhcp_rexmit' \in Nat /\ dhcp_rexmit' <= MaxBackoff
    BY <1>1, <2>2, SendBacksOff
  <2>4. dhcp_backoff' \in 0..(2 * MaxBackoff - 1) /\ dhcp_backoff' # 0
    BY <2>3, BackoffTyped DEF Lease!PowersOfTwo
  <2> QED BY <1>2, <2>1, <2>3, <2>4
        DEF LeaseInv, Lease!TypeOK, BackoffIsPower, Lease!ServiceTimely
<1>4. CASE Lease!Nack
  <2>1. dhcp_state = "request" /\ UNCHANGED <<dhcp_renew, dhcp_asked, dhcp_next>>
    BY <1>4 DEF Lease!Nack
  <2>2. Lease!Send("discover", "reset", 1)
    BY <1>4 DEF Lease!Nack, Lease!Reset, Lease!SendDiscover
  <2>3. /\ dhcp_state' \in {"discover", "reset"}
        /\ dhcp_backoff' \in Lease!PowersOfTwo /\ dhcp_backoff' <= MaxBackoff
        /\ dhcp_rexmit' \in Nat /\ dhcp_rexmit' <= MaxBackoff
    BY <1>1, <2>2, SendBacksOff
  <2>4. dhcp_backoff' \in 0..(2 * MaxBackoff - 1) /\ dhcp_backoff' # 0
    BY <2>3, BackoffTyped DEF Lease!PowersOfTwo
  <2> QED BY <1>2, <2>1, <2>3, <2>4
        DEF LeaseInv, Lease!TypeOK, BackoffIsPower, Lease!ServiceTimely
<1>5. CASE Lease!Ack
  <2>1. /\ dhcp_state = "request" /\ dhcp_state' = "configured" /\ dhcp_backoff' = 0
        /\ UNCHANGED <<dhcp_rexmit, dhcp_asked, dhcp_next>>
    BY <1>5 DEF Lease!Ack
  <2>2. dhcp_renew' \in Nat
    BY <1>2, <1>5 DEF Lease!Ack, Lease!Extract, Lease!TypeOK, Lease!DhcpAssumption
  <2>3. dhcp_backoff' \in 0..(2 * MaxBackoff - 1) /\ 0 <= MaxBackoff
    BY <1>1, <2>1
  <2> QED BY <1>2, <2>1, <2>2, <2>3
        DEF LeaseInv, Lease!TypeOK, BackoffIsPower, Lease!ServiceTimely
<1> QED BY <1>3, <1>4, <1>5 DEF Lease!Receive

(* A service that is due sets NetThread's wait from what it leaves. *)
LEMMA ServiceKeeps ==
    ASSUME Lease!DhcpAssumption, LeaseInv, Lease!Service
    PROVE  LeaseInv'
<1>1. 1 \in Lease!PowersOfTwo /\ 1 < MaxBackoff /\ MaxBackoff \in Nat
  BY DEF Lease!DhcpAssumption, Lease!PowersOfTwo
<1>2. Lease!TypeOK /\ BackoffIsPower /\ dhcp_rexmit <= MaxBackoff /\ Lease!ServiceTimely
  BY DEF LeaseInv
<1>3. /\ dhcp_next = 0 /\ UNCHANGED <<dhcp_renew, dhcp_asked>>
      /\ dhcp_next' = IF dhcp_state' = "configured" THEN dhcp_renew' ELSE dhcp_rexmit'
  BY DEF Lease!Service, Lease!ServiceTime
<1>4. /\ dhcp_state' \in {"reset", "discover", "request", "configured"}
      /\ dhcp_backoff' \in Lease!PowersOfTwo \cup {0} /\ dhcp_backoff' <= MaxBackoff
      /\ dhcp_backoff' = 0 => dhcp_state' = "configured"
      /\ dhcp_rexmit' \in Nat /\ dhcp_rexmit' <= MaxBackoff
  <2>1. CASE Lease!LinkDown
    BY <1>1, <1>2, <2>1, BackoffDoubles
          DEF Lease!LinkDown, Lease!Backoff, Lease!TypeOK, Lease!PowersOfTwo
  <2>2. CASE Lease!Configured
    <3>1. CASE dhcp_renew > 0
      BY <1>2, <2>2, <3>1 DEF Lease!Configured, Lease!TypeOK, BackoffIsPower
    <3>2. CASE ~(dhcp_renew > 0)
      <4>1. Lease!Send("request", "request", 1)
        BY <2>2, <3>2 DEF Lease!Configured, Lease!SendRequest
      <4> QED BY <1>1, <4>1, SendBacksOff DEF Lease!PowersOfTwo
    <3> QED BY <3>1, <3>2
  <2>3. CASE Lease!Requesting
    <3>1. dhcp_backoff # 0
      BY <1>2, <2>3 DEF Lease!Requesting, BackoffIsPower
    <3>2. CASE dhcp_backoff < MaxBackoff
      <4>1. Lease!Send("request", "request", dhcp_backoff)
        BY <2>3, <3>2 DEF Lease!Requesting, Lease!SendRequest
      <4> QED BY <1>2, <3>1, <3>2, <4>1, SendBacksOff
            DEF Lease!PowersOfTwo, BackoffIsPower
    <3>3. CASE ~(dhcp_backoff < MaxBackoff)
      <4>1. Lease!Send("discover", "discover", 1)
        BY <2>3, <3>3 DEF Lease!Requesting, Lease!SendDiscover
      <4> QED BY <1>1, <4>1, SendBacksOff DEF Lease!PowersOfTwo
    <3> QED BY <3>2, <3>3
  <2>4. CASE Lease!Discovering
    <3>1. dhcp_state \in {"reset", "discover"} /\ dhcp_backoff # 0
      BY <1>2, <2>4 DEF Lease!Discovering, BackoffIsPower
    <3>2. CASE dhcp_state = "reset" /\ dhcp_rexmit > 0
      BY <1>2, <2>4, <3>2 DEF Lease!Discovering, Lease!TypeOK, BackoffIsPower
    <3>3. CASE ~(dhcp_state = "reset" /\ dhcp_rexmit > 0)
      <4> DEFINE b == IF dhcp_backoff = MaxBackoff THEN 1 ELSE dhcp_backoff
      <4>1. Lease!Send("discover", dhcp_state, b)
        BY <2>4, <3>3 DEF Lease!Discovering, Lease!SendDiscover
      <4>2. b \in Lease!PowersOfTwo /\ b < MaxBackoff
        BY <1>1, <1>2, <3>1 DEF BackoffIsPower, Lease!PowersOfTwo
      <4> HIDE DEF b
      <4> QED BY <3>1, <4>1, <4>2, SendBacksOff DEF Lease!PowersOfTwo
    <3> QED BY <3>2, <3>3
  <2> QED BY <2>1, <2>2, <2>3, <2>4 DEF Lease!Service
<1>5. dhcp_backoff' \in 0..(2 * MaxBackoff - 1)
  BY <1>4, BackoffTyped
<1>6. dhcp_renew' \in Nat /\ dhcp_asked' \in Nat /\ dhcp_next' \in Nat
  BY <1>2, <1>3, <1>4 DEF Lease!TypeOK
<1>7. Lease!ServiceTimely'
  BY <1>1, <1>3, <1>4, <1>6 DEF Lease!ServiceTimely
<1> QED BY <1>4, <1>5, <1>6, <1>7 DEF LeaseInv, Lease!TypeOK, BackoffIsPower

(* All the waits come closer together. *)
LEMMA SecondKeeps ==
    ASSUME Lease!DhcpAssumption, LeaseInv, Lease!Second
    PROVE  LeaseInv'
<1>1. MaxBackoff \in Nat
  BY DEF Lease!DhcpAssumption, Lease!PowersOfTwo
<1>2. UNCHANGED <<dhcp_state, dhcp_backoff>>
  BY DEF Lease!Second
<1>3. /\ dhcp_rexmit' = IF dhcp_rexmit > 0 THEN dhcp_rexmit - 1 ELSE 0
      /\ dhcp_renew' = IF dhcp_renew > 0 THEN dhcp_renew - 1 ELSE 0
      /\ dhcp_next' = IF dhcp_next > 0 THEN dhcp_next - 1 ELSE 0
      /\ dhcp_asked' \in {dhcp_asked, dhcp_asked + 1}
  BY DEF Lease!Second, Lease!LessOne
<1>4. Lease!TypeOK'
  BY <1>2, <1>3 DEF LeaseInv, Lease!TypeOK
<1> QED BY <1>1, <1>2, <1>3, <1>4
      DEF LeaseInv, Lease!TypeOK, BackoffIsPower, Lease!ServiceTimely

LEMMA LeaseStep ==
    ASSUME Lease!DhcpAssumption, LeaseInv, [Lease!Next]_Lease!vars
    PROVE  LeaseInv'
<1>1. CASE UNCHANGED Lease!vars
  BY <1>1 DEF Lease!vars, LeaseInv, Lease!TypeOK, BackoffIsPower, Lease!ServiceTimely
<1> QED BY <1>1, ReceiveKeeps, ServiceKeeps, SecondKeeps DEF Lease!Next

LEMMA LeaseInvariance == ASSUME Lease!DhcpAssumption PROVE Lease!Spec => []LeaseInv
<1>1. Lease!Init => LeaseInv
  BY LeaseInit
<1>2. LeaseInv /\ [Lease!Next]_Lease!vars => LeaseInv'
  BY LeaseStep
<1> QED BY <1>1, <1>2, PTL DEF Lease!Spec

(* The library is a DHCP client. *)
LEMMA DhcpMapped == Spec => Lease!Spec
<1>1. Init => Lease!Init
  BY DEF Init
<1>2. [Next]_vars => [Lease!Next]_Lease!vars
  <2>1. CASE DhcpMoves
    BY <2>1 DEF DhcpMoves
  <2>2. CASE UNCHANGED dhcpVars
    BY <2>2 DEF dhcpVars, Lease!vars
  <2> QED
    BY <2>1, <2>2
        DEF vars, Next,
            NetworkMoves, UdpMoves, HashTableMoves, FreelistMoves,
            Fat32Moves, BlkCacheMoves, DmaMoves, EepromMoves,
            ContainersMoves, UtilMoves, UsbMoves
<1> QED
  BY <1>1, <1>2, PTL DEF Spec, vars, Lease!Spec

(* The client's variables stay in their types, for all leases. *)
THEOREM DhcpTypesHold == Spec => []Lease!TypeOK
<1>1. LeaseInv => Lease!TypeOK
  BY DEF LeaseInv
<1>2. Lease!Spec => []LeaseInv
  BY LibraryAssumption, LeaseInvariance DEF LibraryAssumption
<1> QED BY <1>1, <1>2, DhcpMapped, PTL

(* NetThread's wait, which it sets only after a Service, is never beyond    *)
(* the longest backoff or the end of the lease, whatever answers come in    *)
(* between and in whatever order (Receive, Service, GetServiceTime).        *)
THEOREM ServedInTime == Spec => []ServiceTimely
<1>1. LeaseInv => ServiceTimely
  BY DEF LeaseInv, ServiceTimely
<1>2. Lease!Spec => []LeaseInv
  BY LibraryAssumption, LeaseInvariance DEF LibraryAssumption
<1> QED BY <1>1, <1>2, DhcpMapped, PTL

(* The byte of the backoff never wraps to 0 while messages are sent         *)
(* (Dhcp::Backoff).                                                         *)
THEOREM BackoffNeverWraps == Spec => []BackoffCounts
<1>1. LeaseInv => BackoffCounts
  BY DEF LeaseInv, BackoffIsPower, Lease!BackoffCounts, BackoffCounts
<1>2. Lease!Spec => []LeaseInv
  BY LibraryAssumption, LeaseInvariance DEF LibraryAssumption
<1> QED BY <1>1, <1>2, DhcpMapped, PTL

-----------------------------------------------------------------------------
(* The EEPROM driver, Rom. *)

RomInside == {"begin", "poll", "go sleep", "asleep"}

(* The inductive invariant: whoever is inside is alone, the state is idle   *)
(* while nobody is, a finished transfer has nothing left, and a page that   *)
(* is still to be written is one of the device's.                            *)
RomAlone ==
    \A u, v \in Users : rom_pc[u] \in RomInside /\ rom_pc[v] \in RomInside => u = v
RomOccupied == rom_state # "idle" <=> \E u \in Users : rom_pc[u] \in RomInside
RomFinished == Rom!Done => rom_remain = 0 /\ rom_device = "none"
RomPageLeft == rom_device = "write" => rom_page <= Rom!LastPage

RomInv == Rom!TypeOK /\ RomAlone /\ RomOccupied /\ RomFinished /\ RomPageLeft

-----------------------------------------------------------------------------
LEMMA LastPageIsLast ==
    ASSUME Rom!EepromAssumption
    PROVE  /\ Rom!LastPage \in Pages /\ Rom!LastPage \in Nat
           /\ \A q \in Pages : q <= Rom!LastPage
BY DEF Rom!EepromAssumption, Rom!LastPage

LEMMA RomInit ==
    ASSUME Rom!EepromAssumption, Rom!Init
    PROVE  RomInv
<1>1. Rom!LastPage \in Nat /\ MaxLen \in Nat
  BY LastPageIsLast DEF Rom!EepromAssumption
<1> QED BY <1>1 DEF Rom!Init, RomInv, Rom!TypeOK, RomAlone, RomOccupied, RomFinished,
        RomPageLeft, Rom!Done, RomInside

(* A user moves alone; everybody else stays where he is. *)
LEMMA UserMoves ==
    ASSUME Rom!TypeOK, NEW u \in Users, NEW from, NEW to, Rom!Step(u, from, to)
    PROVE  /\ rom_pc[u] = from /\ rom_pc'[u] = to
           /\ \A v \in Users \ {u} : rom_pc'[v] = rom_pc[v]
           /\ DOMAIN rom_pc' = Users
BY DEF Rom!Step, Rom!TypeOK

(* The half words that are left and the page, as WriteFill moves them. *)
LEMMA WriteFillMoves ==
    ASSUME Rom!EepromAssumption, NEW r \in 0..MaxLen, NEW p \in 0..Rom!LastPage,
           Rom!WriteFill(r, p)
    PROVE  /\ rom_state' \in {"prog", "write"} /\ rom_device' \in {"write", "program"}
           /\ rom_remain' \in 0..MaxLen /\ rom_page' \in 0..(Rom!LastPage + 1)
           /\ rom_device' = "write" => rom_page' <= Rom!LastPage
<1>1. Rom!LastPage \in Nat /\ MaxLen \in Nat
  BY LastPageIsLast DEF Rom!EepromAssumption
<1> QED BY <1>1 DEF Rom!WriteFill

(* What a user does on his way in, where he changes nothing but his place. *)
LEMMA RomOutsideKeeps ==
    ASSUME Rom!EepromAssumption, RomInv, NEW u \in Users,
           Rom!Call(u) \/ Rom!Lock(u) \/ Rom!AcquireWaits(u)
    PROVE  RomInv'
<1>1. Rom!TypeOK /\ RomAlone /\ RomOccupied /\ RomFinished /\ RomPageLeft
  BY DEF RomInv
<1>2. PICK from \in {"out", "lock", "test"}, to \in {"lock", "test", "go wait"} :
        Rom!Step(u, from, to)
  BY DEF Rom!Call, Rom!Lock, Rom!AcquireWaits
<1>3. /\ UNCHANGED <<rom_state, rom_remain, rom_page, rom_device>>
      /\ rom_lock' \in Users \cup {NULL}
  BY <1>1 DEF Rom!Call, Rom!Lock, Rom!AcquireWaits, Rom!transfer, Rom!TypeOK
<1>4. /\ rom_pc[u] \notin RomInside /\ rom_pc'[u] \notin RomInside
      /\ \A v \in Users \ {u} : rom_pc'[v] = rom_pc[v]
  BY <1>1, <1>2, UserMoves DEF RomInside
<1>5. Rom!TypeOK'
  BY <1>1, <1>2, <1>3 DEF Rom!TypeOK, Rom!Step
<1> QED BY <1>1, <1>3, <1>4, <1>5
      DEF RomInv, RomAlone, RomOccupied, RomFinished, RomPageLeft, Rom!Done

LEMMA RomWaitForKeeps ==
    ASSUME Rom!EepromAssumption, RomInv, NEW u \in Users, Rom!WaitFor(u)
    PROVE  RomInv'
<1>1. Rom!TypeOK /\ RomAlone /\ RomOccupied /\ RomFinished /\ RomPageLeft
  BY DEF RomInv
<1>2. UNCHANGED <<rom_lock, rom_state, rom_remain, rom_page, rom_device>>
  BY DEF Rom!WaitFor, Rom!transfer
<1>3. Rom!Step(u, "go wait", "waiting") \/ Rom!Step(u, "go sleep", "asleep")
  BY DEF Rom!WaitFor
<1>4. /\ rom_pc'[u] \in RomInside <=> rom_pc[u] \in RomInside
      /\ \A v \in Users \ {u} : rom_pc'[v] = rom_pc[v]
  <2>1. CASE Rom!Step(u, "go wait", "waiting")
    <3>1. /\ rom_pc[u] = "go wait" /\ rom_pc'[u] = "waiting"
          /\ \A v \in Users \ {u} : rom_pc'[v] = rom_pc[v]
      BY <1>1, <2>1, UserMoves
    <3> QED BY <3>1 DEF RomInside
  <2>2. CASE Rom!Step(u, "go sleep", "asleep")
    BY <1>1, <2>2, UserMoves DEF RomInside
  <2> QED BY <1>3, <2>1, <2>2
<1>5. Rom!TypeOK'
  BY <1>1, <1>2, <1>3 DEF Rom!TypeOK, Rom!Step
<1> QED BY <1>1, <1>2, <1>4, <1>5
      DEF RomInv, RomAlone, RomOccupied, RomFinished, RomPageLeft, Rom!Done

(* Acquire finds the driver idle, so nobody is inside. *)
LEMMA RomAcquireKeeps ==
    ASSUME Rom!EepromAssumption, RomInv, NEW u \in Users, NEW op \in {"read", "write"},
           Rom!Acquire(u, op)
    PROVE  RomInv'
<1>1. Rom!TypeOK /\ RomAlone /\ RomOccupied /\ RomFinished /\ RomPageLeft
  BY DEF RomInv
<1>2. /\ rom_state = "idle" /\ rom_state' = op /\ rom_lock' = NULL
      /\ UNCHANGED <<rom_remain, rom_page, rom_device>> /\ Rom!Step(u, "test", "begin")
  BY DEF Rom!Acquire, Rom!transfer
<1>3. /\ rom_pc'[u] \in RomInside
      /\ \A v \in Users \ {u} : rom_pc'[v] = rom_pc[v] /\ rom_pc[v] \notin RomInside
  BY <1>1, <1>2, UserMoves DEF RomOccupied, RomInside
<1>4. Rom!TypeOK'
  BY <1>1, <1>2 DEF Rom!TypeOK, Rom!Step
<1> QED BY <1>1, <1>2, <1>3, <1>4
      DEF RomInv, RomAlone, RomOccupied, RomFinished, RomPageLeft, Rom!Done

(* The user inside begins its transfer or waits for its end. *)
LEMMA RomBeginKeeps ==
    ASSUME Rom!EepromAssumption, RomInv, NEW u \in Users,
           Rom!Write(u) \/ Rom!Read(u) \/ Rom!Sleep(u)
    PROVE  RomInv'
<1>1. /\ Rom!TypeOK /\ RomAlone /\ RomOccupied /\ RomFinished /\ RomPageLeft
      /\ UNCHANGED rom_lock
  BY DEF RomInv, Rom!Write, Rom!Read, Rom!Sleep
<1>2. Rom!Step(u, "begin", "poll") \/ Rom!Step(u, "poll", "go sleep")
  BY DEF Rom!Write, Rom!Read, Rom!Sleep
<1>3. /\ rom_pc[u] \in RomInside /\ rom_pc'[u] \in RomInside
      /\ \A v \in Users \ {u} : rom_pc'[v] = rom_pc[v]
      /\ rom_pc' \in [Users -> {"out", "lock", "test", "go wait", "waiting",
                            "begin", "poll", "go sleep", "asleep"}]
  BY <1>1, <1>2, UserMoves DEF RomInside, Rom!Step, Rom!TypeOK
<1>4. /\ rom_state' \in {"write", "prog", "write done", "read", "read done"}
      /\ rom_remain' \in 0..MaxLen /\ rom_page' \in 0..(Rom!LastPage + 1)
      /\ rom_device' \in {"none", "write", "program", "read"}
      /\ RomFinished' /\ RomPageLeft'
  <2>1. CASE Rom!Write(u)
    <3>1. PICK len \in 1..MaxLen, p \in Pages : Rom!WriteFill(len, p)
      BY <2>1 DEF Rom!Write
    <3>2. len \in 0..MaxLen /\ p \in 0..Rom!LastPage
      BY LastPageIsLast DEF Rom!EepromAssumption
    <3> QED BY <3>1, <3>2, WriteFillMoves DEF RomFinished, RomPageLeft, Rom!Done
  <2>2. CASE Rom!Read(u)
    BY <1>1, <2>2 DEF Rom!Read, RomFinished, RomPageLeft, Rom!Done, Rom!TypeOK
  <2>3. CASE Rom!Sleep(u)
    BY <1>1, <1>3, <2>3 DEF Rom!Sleep, RomFinished, RomPageLeft, RomOccupied, Rom!Done,
            Rom!transfer, Rom!TypeOK
  <2> QED BY <2>1, <2>2, <2>3
<1>5. RomAlone' /\ RomOccupied'
  BY <1>1, <1>3, <1>4 DEF RomAlone, RomOccupied
<1> QED BY <1>1, <1>3, <1>4, <1>5 DEF RomInv, Rom!TypeOK

(* It leaves an idle driver behind: it was the only one inside. *)
LEMMA RomLeaveKeeps ==
    ASSUME Rom!EepromAssumption, RomInv, NEW u \in Users,
           Rom!WriteNothing(u) \/ Rom!Return(u)
    PROVE  RomInv'
<1>1. /\ Rom!TypeOK /\ RomAlone /\ RomOccupied /\ RomFinished /\ RomPageLeft
      /\ UNCHANGED <<rom_lock, rom_device>>
  BY DEF RomInv, Rom!WriteNothing, Rom!Return, Rom!transfer
<1>2. rom_state' = "idle" /\ (Rom!Step(u, "begin", "out") \/ Rom!Step(u, "poll", "out"))
  BY DEF Rom!WriteNothing, Rom!Return
<1>3. /\ rom_pc[u] \in RomInside /\ rom_pc'[u] \notin RomInside
      /\ \A v \in Users \ {u} : rom_pc'[v] = rom_pc[v]
      /\ rom_pc' \in [Users -> {"out", "lock", "test", "go wait", "waiting",
                            "begin", "poll", "go sleep", "asleep"}]
  BY <1>1, <1>2, UserMoves DEF RomInside, Rom!Step, Rom!TypeOK
<1>4. rom_remain' \in 0..MaxLen /\ rom_page' \in 0..(Rom!LastPage + 1) /\ RomPageLeft'
  <2>1. /\ Rom!LastPage \in Nat /\ MaxLen \in Nat
        /\ \A q \in Pages : q \in Nat /\ q <= Rom!LastPage
    BY LastPageIsLast DEF Rom!EepromAssumption
  <2>2. CASE Rom!WriteNothing(u)
    <3>1. rom_remain' = 0 /\ rom_page' \in Pages
      BY <2>2 DEF Rom!WriteNothing
    <3> QED BY <2>1, <3>1 DEF RomPageLeft
  <2>3. CASE Rom!Return(u)
    BY <1>1, <2>3 DEF Rom!Return, Rom!transfer, Rom!TypeOK, RomPageLeft
  <2> QED BY <2>2, <2>3
<1>5. RomAlone' /\ RomOccupied'
  BY <1>1, <1>2, <1>3 DEF RomAlone, RomOccupied
<1>6. RomFinished'
  BY <1>2 DEF RomFinished, Rom!Done
<1> QED BY <1>1, <1>2, <1>3, <1>4, <1>5, <1>6 DEF RomInv, Rom!TypeOK

(* An interrupt moves the state of a transfer, and sends nobody out. *)
LEMMA RomInterruptKeeps ==
    ASSUME Rom!EepromAssumption, RomInv, Rom!HandleInterrupt
    PROVE  RomInv'
<1>1. Rom!TypeOK /\ RomAlone /\ RomOccupied /\ RomFinished /\ RomPageLeft
  BY DEF RomInv
<1>2. Rom!LastPage \in Nat /\ MaxLen \in Nat
  BY LastPageIsLast DEF Rom!EepromAssumption
<1>3. UNCHANGED rom_lock /\ rom_state # "idle" /\ (Rom!WakeAll \/ UNCHANGED rom_pc)
  BY DEF Rom!HandleInterrupt, Rom!Programmed, Rom!Written, Rom!Arrived
<1>4. /\ rom_state' \in {"write", "prog", "write done", "read", "read done"}
      /\ rom_remain' \in 0..MaxLen /\ rom_page' \in 0..(Rom!LastPage + 1)
      /\ rom_device' \in {"none", "write", "program", "read"}
      /\ RomFinished' /\ RomPageLeft'
  <2>1. CASE Rom!Programmed
    <3>1. rom_device' = "none" /\ UNCHANGED <<rom_remain, rom_page>>
      BY <2>1 DEF Rom!Programmed
    <3>2. (rom_remain = 0 /\ rom_state' = "write done") \/ rom_state' = "write"
      BY <2>1 DEF Rom!Programmed
    <3>3. rom_remain \in 0..MaxLen /\ rom_page \in 0..(Rom!LastPage + 1)
      BY <1>1 DEF Rom!TypeOK
    <3>4. /\ rom_state' \in {"write done", "write"}
          /\ (rom_state' = "write done" => rom_remain = 0)
      BY <3>2
    <3>5. RomFinished'
      BY <3>1, <3>4 DEF RomFinished, Rom!Done
    <3>6. RomPageLeft'
      BY <3>1 DEF RomPageLeft
    <3> QED BY <3>1, <3>3, <3>4, <3>5, <3>6
  <2>2. CASE Rom!Written
    <3>1. rom_page \in 0..Rom!LastPage /\ rom_remain \in 0..MaxLen
      <4>1. rom_page <= Rom!LastPage
        BY <1>1, <2>2 DEF Rom!Written, RomPageLeft
      <4>2. rom_page \in 0..(Rom!LastPage + 1) /\ rom_remain \in 0..MaxLen
        BY <1>1 DEF Rom!TypeOK
      <4> QED BY <1>2, <4>1, <4>2
    <3>2. Rom!WriteFill(rom_remain, rom_page)
      BY <2>2 DEF Rom!Written
    <3> QED BY <3>1, <3>2, WriteFillMoves DEF RomFinished, RomPageLeft, Rom!Done
  <2>3. CASE Rom!Arrived
    <3>1. rom_remain \in 0..MaxLen /\ rom_device = "read" /\ UNCHANGED rom_page
      BY <1>1, <2>3 DEF Rom!Arrived, Rom!TypeOK
    <3>2. CASE /\ rom_remain > 1 /\ rom_remain' = rom_remain - 1
               /\ UNCHANGED <<rom_pc, rom_state, rom_device>>
      <4>1. rom_state = "read" /\ rom_remain - 1 \in 0..MaxLen
        BY <1>2, <2>3, <3>1, <3>2 DEF Rom!Arrived
      <4> QED BY <1>1, <3>1, <3>2, <4>1 DEF RomFinished, RomPageLeft, Rom!Done,
                                            Rom!TypeOK
    <3>3. CASE /\ rom_remain <= 1 /\ rom_remain' = 0
               /\ rom_state' = "read done" /\ rom_device' = "none"
      <4>1. 0 \in 0..MaxLen
        BY <1>2
      <4> QED BY <1>1, <3>1, <3>3, <4>1 DEF RomFinished, RomPageLeft, Rom!Done,
                                            Rom!TypeOK
    <3> QED BY <2>3, <3>2, <3>3 DEF Rom!Arrived
  <2> QED BY <2>1, <2>2, <2>3 DEF Rom!HandleInterrupt
<1>5. /\ rom_pc' \in [Users -> {"out", "lock", "test", "go wait", "waiting",
                            "begin", "poll", "go sleep", "asleep"}]
      /\ \A u \in Users : rom_pc'[u] \in RomInside <=> rom_pc[u] \in RomInside
  <2>1. CASE Rom!WakeAll
    BY <1>1, <2>1 DEF Rom!WakeAll, Rom!TypeOK, RomInside
  <2>2. CASE UNCHANGED rom_pc
    BY <1>1, <2>2 DEF Rom!TypeOK
  <2> QED BY <1>3, <2>1, <2>2
<1>6. RomAlone' /\ RomOccupied'
  BY <1>1, <1>3, <1>4, <1>5 DEF RomAlone, RomOccupied
<1> QED BY <1>1, <1>3, <1>4, <1>5, <1>6 DEF RomInv, Rom!TypeOK

LEMMA RomStep ==
    ASSUME Rom!EepromAssumption, RomInv, [Rom!Next]_Rom!vars
    PROVE  RomInv'
<1>1. CASE UNCHANGED Rom!vars
  BY <1>1 DEF Rom!vars, RomInv, Rom!TypeOK, RomAlone, RomOccupied, RomFinished,
          RomPageLeft, Rom!Done
<1> QED BY <1>1, RomOutsideKeeps, RomWaitForKeeps, RomAcquireKeeps, RomBeginKeeps,
        RomLeaveKeeps, RomInterruptKeeps
        DEF Rom!Next

LEMMA RomInvariance == ASSUME Rom!EepromAssumption PROVE Rom!Spec => []RomInv
<1>1. Rom!Init => RomInv
  BY RomInit
<1>2. RomInv /\ [Rom!Next]_Rom!vars => RomInv'
  BY RomStep
<1> QED BY <1>1, <1>2, PTL DEF Rom!Spec

(* The library is an EEPROM driver. *)
LEMMA EepromMapped == Spec => Rom!Spec
<1>1. Init => Rom!Init
  BY DEF Init
<1>2. [Next]_vars => [Rom!Next]_Rom!vars
  <2>1. CASE EepromMoves
    BY <2>1 DEF EepromMoves
  <2>2. CASE UNCHANGED romVars
    BY <2>2 DEF romVars, Rom!vars
  <2> QED
    BY <2>1, <2>2
        DEF vars, Next,
            NetworkMoves, DhcpMoves, UdpMoves, HashTableMoves,
            FreelistMoves, Fat32Moves, BlkCacheMoves, DmaMoves,
            ContainersMoves, UtilMoves, UsbMoves
<1> QED
  BY <1>1, <1>2, PTL DEF Spec, vars, Rom!Spec

(* The driver's variables stay in their types. *)
THEOREM EepromTypesHold == Spec => []Rom!TypeOK
<1>1. RomInv => Rom!TypeOK
  BY DEF RomInv
<1>2. Rom!Spec => []RomInv
  BY LibraryAssumption, RomInvariance DEF LibraryAssumption
<1> QED BY <1>1, <1>2, EepromMapped, PTL

(* The driver is one user's from Acquire to the end of its call, and its    *)
(* data have all been moved before that ends (Acquire, Read, Write,         *)
(* HandleInterrupt), for any number of users.                               *)
THEOREM OneAtATime == Spec => []OneTransfer
<1>1. RomInv => OneTransfer
  BY DEF RomInv, RomAlone, RomOccupied, RomFinished, RomInside, Rom!OneTransfer,
          OneTransfer
<1>2. Rom!Spec => []RomInv
  BY LibraryAssumption, RomInvariance DEF LibraryAssumption
<1> QED BY <1>1, <1>2, EepromMapped, PTL
-----------------------------------------------------------------------------
(* The hash table.  Its inductive invariant places every key that was       *)
(* inserted in exactly one of the table, the hand of the loop, what is left *)
(* of a vector to rehash and the item of an Insert that waits for a rehash, *)
(* and each in the table at one of its two hashes.                          *)

(* What the rehash at depth i has left to insert. *)
Queued(i) == hash_work[i].prev \cup {hash_work[i].item}

HashHome ==
    \A p \in 0..(hash_size - 1) : hash_table[p] # NULL =>
        p \in {Hash!h1(hash_table[p]), Hash!h2(hash_table[p])}
HashOnce ==
    \A p, q \in 0..(hash_size - 1) :
        hash_table[p] # NULL /\ hash_table[p] = hash_table[q] => p = q
HashInHand ==
    hash_hand # NULL =>
        /\ hash_pos \in {Hash!h1(hash_hand), Hash!h2(hash_hand)}
        /\ \A p \in 0..(hash_size - 1) : hash_table[p] # hash_hand
HashWaits ==
    \A i \in 1..Len(hash_work) :
        /\ hash_hand \notin Queued(i)
        /\ \A p \in 0..(hash_size - 1) : hash_table[p] \notin Queued(i)
        /\ hash_work[i].item \notin hash_work[i].prev
        /\ \A j \in 1..Len(hash_work) :
                i # j => Queued(i) \cap Queued(j) = {}
HashWhole ==
    \A k \in Keys : k \in hash_inserted <=>
        \/ k = hash_hand
        \/ \E p \in 0..(hash_size - 1) : hash_table[p] = k
        \/ \E i \in 1..Len(hash_work) : k \in Queued(i)
HashInv ==
    Hash!TypeOK /\ HashHome /\ HashOnce /\ HashInHand /\ HashWaits /\ HashWhole

Rehashing == [prev : SUBSET Keys, item : Keys]

LEMMA HashSizes == Hash!HashTableAssumption
BY LibraryAssumption DEF LibraryAssumption

(* A rehash is put in front of those it is nested in. *)
LEMMA PushedInFront ==
    ASSUME NEW S, NEW s \in Seq(S), NEW e \in S
    PROVE  /\ <<e>> \o s \in Seq(S) /\ Len(<<e>> \o s) = Len(s) + 1
           /\ (<<e>> \o s)[1] = e
           /\ \A i \in 1..Len(s) : (<<e>> \o s)[i + 1] = s[i]
OBVIOUS

(* And is taken from the front when it is over. *)
LEMMA TailIs ==
    ASSUME NEW S, NEW s \in Seq(S), s # <<>>
    PROVE  /\ Tail(s) \in Seq(S)
           /\ Len(Tail(s)) = Len(s) - 1
           /\ Len(s) \in Nat \ {0}
           /\ s[1] \in S
           /\ \A i \in 1..Len(s) - 1 : Tail(s)[i] = s[i + 1]
OBVIOUS

(* The masks keep both hashes within the table. *)
LEMMA HashIndexes ==
    ASSUME Hash!TypeOK, NEW k \in Keys
    PROVE  Hash!h1(k) \in 0..(hash_size - 1) /\ Hash!h2(k) \in 0..(hash_size - 1)
<1>1. hash_size \in Nat \ {0}
  BY HashSizes DEF Hash!TypeOK, Hash!HashTableAssumption
<1>2. hash_hash[k][1] \in Nat /\ hash_hash[k][2] \in Nat
  BY HashSizes DEF Hash!TypeOK, Hash!HashTableAssumption
<1> QED
  BY <1>1, <1>2 DEF Hash!h1, Hash!h2

(* Only keys wait for a rehash. *)
LEMMA WaitingKeys ==
    ASSUME Hash!TypeOK
    PROVE  \A i \in 1..Len(hash_work) : Queued(i) \subseteq Keys
<1>1. hash_work \in Seq(Rehashing)
  BY DEF Hash!TypeOK, Rehashing
<1>2. \A i \in 1..Len(hash_work) : hash_work[i] \in Rehashing
  BY <1>1
<1> QED
  BY <1>2 DEF Queued, Rehashing

(* The table starts empty. *)
LEMMA HashInit == Hash!Init => HashInv
<1> SUFFICES ASSUME Hash!Init PROVE HashInv
  OBVIOUS
<1>1. Hash!TypeOK
  BY HashSizes DEF Hash!Init, Hash!TypeOK, Hash!HashTableAssumption, Hash!Empty
<1>2. HashHome /\ HashOnce /\ HashWhole /\ HashWaits /\ HashInHand
  BY HashSizes DEF Hash!Init, HashHome, HashOnce, HashWhole, HashWaits, HashInHand,
          Hash!Empty, Hash!HashTableAssumption
<1> QED
  BY <1>1, <1>2 DEF HashInv

(* A key that Find does not see is in no place, so that to take it in hand   *)
(* makes no second one (Insert).                                            *)
LEMMA HashInsertKeeps == ASSUME HashInv, NEW k \in Keys, Hash!Insert(k)
                         PROVE  HashInv'
<1>0. /\ Hash!TypeOK
      /\ Hash!h1(k) \in 0..(hash_size - 1)
      /\ Hash!h2(k) \in 0..(hash_size - 1)
  BY HashIndexes DEF HashInv
<1>1. hash_hand' = k /\ hash_pos' = Hash!h1(k) /\ hash_n' = 0
  BY DEF Hash!Insert, Hash!Start, Hash!h1
<1>2. Hash!TypeOK'
  BY <1>0, <1>1, HashSizes DEF Hash!Insert, Hash!TypeOK, Hash!HashTableAssumption
<1>3. \A p \in 0..(hash_size - 1) : hash_table[p] # k
  BY <1>0, HashSizes
        DEF Hash!Insert, Hash!Find, HashInv, HashHome, Hash!HashTableAssumption
<1>4. HashInHand' /\ HashHome' /\ HashOnce'
  BY <1>0, <1>1, <1>3
        DEF Hash!Insert, HashInv, HashInHand, HashHome, HashOnce, Hash!h1, Hash!h2
<1>5. hash_work = <<>> /\ hash_work' = <<>>
  BY DEF Hash!Insert, Hash!Resting
<1>6. HashWaits'
  BY <1>5 DEF HashWaits
<1>7. hash_hand = NULL
  BY DEF Hash!Insert, Hash!Resting
<1>8. HashWhole'
  BY <1>1, <1>5, <1>7, HashSizes
        DEF Hash!Insert, HashInv, HashWhole, Hash!HashTableAssumption
<1> QED
  BY <1>2, <1>4, <1>6, <1>8 DEF HashInv

(* The place that Find gives is the only one (Erase). *)
LEMMA HashEraseKeeps == ASSUME HashInv, NEW k \in Keys, Hash!Erase(k) PROVE HashInv'
<1>0. /\ Hash!TypeOK
      /\ Hash!h1(k) \in 0..(hash_size - 1)
      /\ Hash!h2(k) \in 0..(hash_size - 1)
  BY HashIndexes DEF HashInv
<1> DEFINE f == Hash!Find(k)
<1>1. f \in 0..(hash_size - 1) /\ hash_table[f] = k
  BY <1>0 DEF Hash!Erase, Hash!Find
<1>2. /\ hash_table' = [hash_table EXCEPT ![f] = NULL]
      /\ UNCHANGED <<hash_hash, hash_size, hash_hand, hash_pos, hash_n, hash_work>>
  BY DEF Hash!Erase
<1>3. hash_inserted' = hash_inserted \ {k} /\ hash_hand = NULL /\ hash_work = <<>>
  BY DEF Hash!Erase, Hash!Resting
<1> HIDE DEF f
<1>4. Hash!TypeOK'
  BY <1>0, <1>1, <1>2, <1>3 DEF Hash!TypeOK
<1>5. \A p \in 0..(hash_size - 1) :
          hash_table'[p] = IF p = f THEN NULL ELSE hash_table[p]
  BY <1>0, <1>1, <1>2 DEF Hash!TypeOK
<1>6. HashHome' /\ HashOnce' /\ HashInHand' /\ HashWaits'
  BY <1>2, <1>3, <1>5
        DEF HashInv, HashHome, HashOnce, HashInHand, HashWaits, Hash!h1, Hash!h2
<1>7. HashWhole'
  BY <1>1, <1>2, <1>3, <1>5, HashSizes
        DEF HashInv, HashWhole, HashOnce, Hash!HashTableAssumption
<1> QED
  BY <1>4, <1>6, <1>7 DEF HashInv

(* The loop of Insert puts the item it has in hand where it fits. *)
LEMMA PlaceKeeps == ASSUME HashInv, Hash!Place PROVE HashInv'
<1>1. /\ Hash!TypeOK
      /\ hash_hand \in Keys
      /\ hash_pos \in 0..(hash_size - 1)
      /\ hash_table[hash_pos] = NULL
      /\ hash_hand' = NULL
      /\ UNCHANGED <<hash_hash, hash_size, hash_pos, hash_n, hash_work, hash_inserted>>
  BY DEF HashInv, Hash!TypeOK, Hash!Place
<1>2. hash_table' = [hash_table EXCEPT ![hash_pos] = hash_hand]
  BY DEF Hash!Place
<1>3. Hash!TypeOK'
  BY <1>1, <1>2 DEF Hash!TypeOK
<1>4. \A p \in 0..(hash_size - 1) :
          hash_table'[p] = IF p = hash_pos THEN hash_hand ELSE hash_table[p]
  BY <1>1, <1>2 DEF Hash!TypeOK
<1>5. HashHome' /\ HashOnce' /\ HashInHand'
  BY <1>1, <1>4, HashSizes DEF HashInv, HashHome, HashOnce, HashInHand, Hash!h1,
                               Hash!h2,
          Hash!HashTableAssumption
<1>6. \A i \in 1..Len(hash_work) :
          Queued(i)' = Queued(i) /\ Queued(i) \subseteq Keys
  BY <1>1, WaitingKeys DEF Queued
<1>7. HashWaits'
  BY <1>1, <1>4, <1>6, HashSizes DEF HashInv, HashWaits, Hash!HashTableAssumption
<1>8. HashWhole'
  BY <1>1, <1>4, <1>6, HashSizes DEF HashInv, HashWhole, Hash!HashTableAssumption
<1> QED
  BY <1>3, <1>5, <1>7, <1>8 DEF HashInv

(* Or exchanges it for the one that is there. *)
LEMMA EvictKeeps == ASSUME HashInv, Hash!Evict PROVE HashInv'
<1> DEFINE e == hash_table[hash_pos]
<1>1. /\ Hash!TypeOK
      /\ hash_hand \in Keys
      /\ hash_pos \in 0..(hash_size - 1)
      /\ e \in Keys
      /\ hash_hand' = e
      /\ hash_n' = hash_n + 1
      /\ UNCHANGED <<hash_hash, hash_size, hash_work, hash_inserted>>
  BY DEF HashInv, Hash!TypeOK, Hash!Evict
<1>2. hash_table' = [hash_table EXCEPT ![hash_pos] = hash_hand]
  BY DEF Hash!Evict
<1>3. /\ Hash!h1(e) \in 0..(hash_size - 1)
      /\ Hash!h2(e) \in 0..(hash_size - 1)
      /\ hash_pos' \in {Hash!h1(e), Hash!h2(e)}
  BY <1>1, HashIndexes DEF Hash!Evict, Hash!Other
<1> HIDE DEF e
<1>4. hash_n' \in 0..EvictionDepth
  BY <1>1, HashSizes DEF Hash!Evict, Hash!TypeOK, Hash!HashTableAssumption
<1>5. Hash!TypeOK'
  BY <1>1, <1>2, <1>3, <1>4 DEF Hash!TypeOK
<1>6. \A p \in 0..(hash_size - 1) :
          hash_table'[p] = IF p = hash_pos THEN hash_hand ELSE hash_table[p]
  BY <1>1, <1>2 DEF Hash!TypeOK
<1>7. /\ e = hash_table[hash_pos]
      /\ \A p \in 0..(hash_size - 1) : hash_table[p] = e => p = hash_pos
  BY <1>1, HashSizes DEF e, HashInv, HashOnce, Hash!HashTableAssumption
<1>8. hash_hand # e
  BY <1>1, <1>7, HashSizes DEF HashInv, HashInHand, Hash!HashTableAssumption
<1>9. HashHome' /\ HashOnce'
  BY <1>1, <1>6, HashSizes DEF HashInv, HashHome, HashOnce, HashInHand, Hash!h1,
                               Hash!h2,
          Hash!HashTableAssumption
<1>10. HashInHand'
  BY <1>1, <1>3, <1>6, <1>7, <1>8 DEF HashInHand, Hash!h1, Hash!h2
<1>11. \A i \in 1..Len(hash_work) :
           Queued(i)' = Queued(i) /\ Queued(i) \subseteq Keys
  BY <1>1, WaitingKeys DEF Queued
<1>12. HashWaits'
  BY <1>1, <1>6, <1>7, <1>11 DEF HashInv, HashWaits
<1>13. HashWhole'
  BY <1>1, <1>6, <1>7, <1>11 DEF HashInv, HashWhole
<1> QED
  BY <1>5, <1>9, <1>10, <1>12, <1>13 DEF HashInv

(* What was in the table waits, and behind it the item in hand (Rehash). *)
LEMMA RehashKeeps == ASSUME HashInv, Hash!Rehash PROVE HashInv'
<1> DEFINE r == [prev |-> Hash!Items, item |-> hash_hand]
<1>1. /\ Hash!TypeOK
      /\ hash_hand \in Keys
      /\ hash_hand' = NULL
      /\ hash_pos' = 0
      /\ hash_size' = 2 * hash_size
      /\ 2 * hash_size <= MaxSlots /\ UNCHANGED <<hash_hash, hash_n, hash_inserted>>
  BY DEF HashInv, Hash!TypeOK, Hash!Rehash
<1>2. /\ hash_size \in Nat \ {0}
      /\ hash_size \in 0..MaxSlots
      /\ hash_size' \in StartSize..MaxSlots
  BY <1>1, HashSizes DEF Hash!TypeOK, Hash!HashTableAssumption
<1>3. \A p \in 0..(hash_size' - 1) : hash_table'[p] = NULL
  BY DEF Hash!Rehash, Hash!Empty
<1>4. r \in Rehashing /\ Hash!Items \subseteq Keys
  BY <1>1 DEF Hash!Items, Hash!TypeOK, Rehashing
<1>5. hash_work \in Seq(Rehashing) /\ hash_work' = <<r>> \o hash_work
  BY <1>1 DEF Hash!Rehash, Hash!TypeOK, Rehashing
<1>6. r.prev = Hash!Items /\ r.item = hash_hand
  OBVIOUS
<1> HIDE DEF r
<1>7. /\ hash_work' \in Seq(Rehashing)
      /\ Len(hash_work') = Len(hash_work) + 1
      /\ hash_work'[1] = r
      /\ \A i \in 1..Len(hash_work) : hash_work'[i + 1] = hash_work[i]
  BY <1>4, <1>5, PushedInFront
<1>8. Hash!TypeOK'
  <2>1. hash_table' \in [0..(hash_size' - 1) -> Keys \cup {NULL}]
    BY DEF Hash!Rehash, Hash!Empty
  <2> QED
    BY <1>1, <1>2, <1>7, <2>1 DEF Hash!TypeOK, Rehashing
<1>9. HashHome' /\ HashOnce' /\ HashInHand'
  BY <1>1, <1>3 DEF HashHome, HashOnce, HashInHand
<1>10. /\ Queued(1)' = Hash!Items \cup {hash_hand}
       /\ \A i \in 1..Len(hash_work) :
              Queued(i + 1)' = Queued(i) /\ Queued(i) \subseteq Keys
  <2>1. Queued(1)' = Hash!Items \cup {hash_hand}
    BY <1>6, <1>7 DEF Queued
  <2>2. \A i \in 1..Len(hash_work) : Queued(i + 1)' = Queued(i)
    BY <1>7 DEF Queued
  <2> QED
    BY <1>1, <2>1, <2>2, WaitingKeys
<1>11. Len(hash_work) \in Nat
  BY <1>5
<1>12. \A i \in 1..Len(hash_work') : i = 1 \/ \E j \in 1..Len(hash_work) : i = j + 1
  <2> SUFFICES ASSUME NEW i \in 1..Len(hash_work'), i # 1
               PROVE  \E j \in 1..Len(hash_work) : i = j + 1
    OBVIOUS
  <2>1. i - 1 \in 1..Len(hash_work) /\ i = (i - 1) + 1
    BY <1>7, <1>11
  <2> QED
    BY <2>1
<1>13. \A i \in 1..Len(hash_work) :
           Queued(i) \cap (Hash!Items \cup {hash_hand}) = {}
  BY DEF HashInv, HashWaits, Hash!Items
<1>14. hash_hand \notin Hash!Items
  BY <1>1, HashSizes DEF HashInv, HashInHand, Hash!Items, Hash!HashTableAssumption
<1>15. HashWaits'
  <2>1. \A i \in 1..Len(hash_work') : Queued(i)' \subseteq Keys
    BY <1>1, <1>4, <1>10, <1>12
  <2>2. \A i \in 1..Len(hash_work') : hash_work'[i].item \notin hash_work'[i].prev
    BY <1>6, <1>7, <1>12, <1>14 DEF HashInv, HashWaits
  <2>3. ASSUME NEW i \in 1..Len(hash_work'), NEW j \in 1..Len(hash_work'), i # j
        PROVE  Queued(i)' \cap Queued(j)' = {}
    <3>1. CASE i = 1
      <4>1. PICK j1 \in 1..Len(hash_work) : j = j1 + 1
        BY <1>12, <2>3, <3>1
      <4> QED
        BY <1>10, <1>13, <3>1, <4>1
    <3>2. CASE j = 1
      <4>1. PICK i1 \in 1..Len(hash_work) : i = i1 + 1
        BY <1>12, <2>3, <3>2
      <4> QED
        BY <1>10, <1>13, <3>2, <4>1
    <3>3. CASE i # 1 /\ j # 1
      <4>1. PICK i1 \in 1..Len(hash_work) : i = i1 + 1
        BY <1>12, <3>3
      <4>2. PICK j1 \in 1..Len(hash_work) : j = j1 + 1
        BY <1>12, <3>3
      <4>3. i1 # j1
        BY <2>3, <4>1, <4>2
      <4>4. Queued(i1) \cap Queued(j1) = {}
        BY <4>3 DEF HashInv, HashWaits
      <4> QED
        BY <1>10, <4>1, <4>2, <4>4
    <3> QED
      BY <3>1, <3>2, <3>3
  <2> QED
    BY <1>1, <1>3, <2>1, <2>2, <2>3, HashSizes DEF HashWaits, Hash!HashTableAssumption
<1>16. HashWhole'
  <2> SUFFICES ASSUME NEW k \in Keys
               PROVE  k \in hash_inserted
                          <=> \E i \in 1..Len(hash_work') : k \in Queued(i)'
    BY <1>1, <1>3, HashSizes DEF HashWhole, Hash!HashTableAssumption
  <2>1. k \in Hash!Items \cup {hash_hand}
            <=> k = hash_hand \/ \E p \in 0..(hash_size - 1) : hash_table[p] = k
    BY HashSizes DEF Hash!Items, Hash!HashTableAssumption
  <2>2. (\E i \in 1..Len(hash_work') : k \in Queued(i)')
            <=> k \in Hash!Items \cup {hash_hand} \/ \E i \in 1..Len(hash_work) :
                k \in Queued(i)
    <3>1. /\ 1 \in 1..Len(hash_work')
          /\ \A i \in 1..Len(hash_work) : i + 1 \in 1..Len(hash_work')
      BY <1>7, <1>11
    <3> QED
      BY <1>10, <1>12, <3>1
  <2> QED
    BY <1>1, <2>1, <2>2 DEF HashInv, HashWhole
<1> QED
  BY <1>8, <1>9, <1>15, <1>16 DEF HashInv

(* One that waits is taken in hand (Rehash). *)
LEMMA ReinsertKeeps == ASSUME HashInv, Hash!Reinsert PROVE HashInv'
<1>1. PICK k \in hash_work[1].prev :
        /\ hash_work' = [hash_work EXCEPT ![1].prev = @ \ {k}]
        /\ UNCHANGED <<hash_hash, hash_size, hash_table, hash_inserted>>
        /\ Hash!Start(k)
  BY DEF Hash!Reinsert
<1>2. Hash!TypeOK /\ hash_hand = NULL /\ hash_work # <<>>
  BY DEF HashInv, Hash!Reinsert
<1>3. hash_work \in Seq(Rehashing)
  BY <1>2 DEF Hash!TypeOK, Rehashing
<1>4. /\ Len(hash_work) \in Nat
      /\ 1 \in 1..Len(hash_work)
      /\ \A i \in 1..Len(hash_work) : hash_work[i] \in Rehashing
  BY <1>2, <1>3
<1>5. hash_work[1].prev \subseteq Keys /\ hash_work[1].item \in Keys /\ k \in Keys
  BY <1>1, <1>4 DEF Rehashing
<1>6. /\ Len(hash_work') = Len(hash_work) /\ hash_work' \in Seq(Rehashing)
      /\ hash_work'[1] = [hash_work[1] EXCEPT !.prev = hash_work[1].prev \ {k}]
      /\ \A i \in 1..Len(hash_work) : i # 1 => hash_work'[i] = hash_work[i]
  <2> DEFINE r == [hash_work[1] EXCEPT !.prev = hash_work[1].prev \ {k}]
  <2>1. r \in Rehashing
    BY <1>4, <1>5 DEF Rehashing
  <2>2. hash_work' = [hash_work EXCEPT ![1] = r]
    BY <1>1
  <2> HIDE DEF r
  <2>3. /\ Len(hash_work') = Len(hash_work)
        /\ hash_work' \in Seq(Rehashing)
        /\ hash_work'[1] = r
        /\ \A i \in 1..Len(hash_work) : i # 1 => hash_work'[i] = hash_work[i]
    BY <1>3, <1>4, <2>1, <2>2
  <2> QED
    BY <2>3 DEF r
<1>7. /\ hash_work'[1].prev = hash_work[1].prev \ {k}
      /\ hash_work'[1].item = hash_work[1].item
  BY <1>4, <1>6 DEF Rehashing
<1>8. /\ Queued(1)' = Queued(1) \ {k}
      /\ \A i \in 1..Len(hash_work) : i # 1 => Queued(i)' = Queued(i)
  <2>1. k # hash_work[1].item
    BY <1>1, <1>4 DEF HashInv, HashWaits
  <2>2. Queued(1)' = Queued(1) \ {k}
    BY <1>7, <2>1 DEF Queued
  <2> QED
    BY <1>6, <2>2 DEF Queued
<1>9. hash_hand' = k /\ hash_pos' = Hash!h1(k) /\ hash_n' = 0
  BY <1>1 DEF Hash!Start, Hash!h1
<1>10. Hash!TypeOK'
  <2>1. /\ hash_hand' \in Keys
        /\ hash_pos' \in 0..(hash_size' - 1)
        /\ hash_n' \in 0..EvictionDepth
    BY <1>1, <1>2, <1>5, <1>9, HashIndexes, HashSizes DEF Hash!HashTableAssumption
  <2> QED
    BY <1>1, <1>2, <1>6, <2>1 DEF Hash!TypeOK, Rehashing
<1>11. k \in Queued(1)
  BY <1>1 DEF Queued
<1>12. \A p \in 0..(hash_size - 1) : hash_table[p] # k
  BY <1>4, <1>11 DEF HashInv, HashWaits
<1>13. HashHome' /\ HashOnce' /\ HashInHand'
  BY <1>1, <1>9, <1>12 DEF HashInv, HashHome, HashOnce, HashInHand, Hash!h1, Hash!h2
<1>14. HashWaits'
  <2>1. \A i \in 1..Len(hash_work) :
            k \notin Queued(i)' /\ Queued(i)' \subseteq Queued(i)
    BY <1>4, <1>8, <1>11 DEF HashInv, HashWaits
  <2>2. \A i \in 1..Len(hash_work) : hash_work'[i].item \notin hash_work'[i].prev
    BY <1>6, <1>7 DEF HashInv, HashWaits
  <2> QED
    BY <1>1, <1>6, <1>9, <2>1, <2>2 DEF HashInv, HashWaits
<1>15. HashWhole'
  <2> SUFFICES ASSUME NEW m \in Keys
               PROVE  m \in hash_inserted <=>
                          \/ m = k
                          \/ \E p \in 0..(hash_size - 1) : hash_table[p] = m
                          \/ \E i \in 1..Len(hash_work) : m \in Queued(i)'
    BY <1>1, <1>6, <1>9 DEF HashWhole
  <2>1. (m = k \/ \E i \in 1..Len(hash_work) : m \in Queued(i)')
            <=> \E i \in 1..Len(hash_work) : m \in Queued(i)
    BY <1>4, <1>8, <1>11
  <2> QED
    BY <1>2, <2>1, HashSizes DEF HashInv, HashWhole, Hash!HashTableAssumption
<1> QED
  BY <1>10, <1>13, <1>14, <1>15 DEF HashInv

(* After the last the Insert that needed the rehash goes on with its item. *)
LEMMA RehashedKeeps == ASSUME HashInv, Hash!Rehashed PROVE HashInv'
<1> DEFINE k == hash_work[1].item
<1>1. /\ Hash!TypeOK
      /\ hash_hand = NULL
      /\ hash_work # <<>>
      /\ hash_work[1].prev = {}
      /\ hash_work' = Tail(hash_work)
      /\ UNCHANGED <<hash_hash, hash_size, hash_table, hash_inserted>>
  BY DEF HashInv, Hash!Rehashed
<1>2. hash_work \in Seq(Rehashing)
  BY <1>1 DEF Hash!TypeOK, Rehashing
<1>3. /\ hash_work' \in Seq(Rehashing)
      /\ Len(hash_work') = Len(hash_work) - 1
      /\ Len(hash_work) \in Nat \ {0}
      /\ hash_work[1] \in Rehashing
      /\ \A i \in 1..Len(hash_work') : hash_work'[i] = hash_work[i + 1]
  BY <1>1, <1>2, TailIs
<1>4. k \in Keys /\ hash_hand' = k /\ hash_pos' = Hash!h1(k) /\ hash_n' = 0
  BY <1>1, <1>3 DEF Hash!Rehashed, Hash!Start, Hash!h1, Rehashing
<1>5. Queued(1) = {k}
  BY <1>1 DEF Queued
<1> HIDE DEF k
<1>6. \A i \in 1..Len(hash_work') :
          i + 1 \in 1..Len(hash_work) /\ i + 1 # 1 /\ Queued(i)' = Queued(i + 1)
  <2>1. \A i \in 1..Len(hash_work') : i + 1 \in 1..Len(hash_work) /\ i + 1 # 1
    BY <1>3
  <2>2. \A i \in 1..Len(hash_work') : Queued(i)' = Queued(i + 1)
    BY <1>3 DEF Queued
  <2> QED
    BY <2>1, <2>2
<1>7. 1 \in 1..Len(hash_work)
  BY <1>3
<1>8. Hash!TypeOK'
  BY <1>1, <1>3, <1>4, HashIndexes, HashSizes
        DEF Hash!TypeOK, Rehashing, Hash!HashTableAssumption
<1>9. \A p \in 0..(hash_size - 1) : hash_table[p] # k
  BY <1>5, <1>7 DEF HashInv, HashWaits
<1>10. HashHome' /\ HashOnce' /\ HashInHand'
  BY <1>1, <1>4, <1>9 DEF HashInv, HashHome, HashOnce, HashInHand, Hash!h1, Hash!h2
<1>11. HashWaits'
  <2> SUFFICES ASSUME NEW i \in 1..Len(hash_work')
               PROVE  /\ k \notin Queued(i)'
                      /\ \A p \in 0..(hash_size - 1) :
                             hash_table[p] \notin Queued(i)'
                      /\ hash_work'[i].item \notin hash_work'[i].prev
                      /\ \A j \in 1..Len(hash_work') :
                             i # j => Queued(i)' \cap Queued(j)' = {}
    BY <1>1, <1>4 DEF HashWaits
  <2>1. k \notin Queued(i)'
    BY <1>5, <1>6, <1>7 DEF HashInv, HashWaits
  <2>2. \A p \in 0..(hash_size - 1) : hash_table[p] \notin Queued(i)'
    BY <1>6 DEF HashInv, HashWaits
  <2>3. hash_work'[i].item \notin hash_work'[i].prev
    BY <1>3, <1>6 DEF HashInv, HashWaits
  <2>4. ASSUME NEW j \in 1..Len(hash_work'), i # j
        PROVE  Queued(i)' \cap Queued(j)' = {}
    <3>1. /\ i + 1 # j + 1
          /\ i + 1 \in 1..Len(hash_work)
          /\ j + 1 \in 1..Len(hash_work)
      BY <1>6, <2>4
    <3>2. Queued(i + 1) \cap Queued(j + 1) = {}
      BY <3>1 DEF HashInv, HashWaits
    <3> QED
      BY <1>6, <2>4, <3>2
  <2> QED
    BY <2>1, <2>2, <2>3, <2>4
<1>12. HashWhole'
  <2> SUFFICES ASSUME NEW m \in Keys
               PROVE  m \in hash_inserted <=>
                          \/ m = k
                          \/ \E p \in 0..(hash_size - 1) : hash_table[p] = m
                          \/ \E i \in 1..Len(hash_work') : m \in Queued(i)'
    BY <1>1, <1>4 DEF HashWhole
  <2>1. \A i \in 1..Len(hash_work) :
            i # 1 => i - 1 \in 1..Len(hash_work') /\ i = (i - 1) + 1
    BY <1>3
  <2>2. (m = k \/ \E i \in 1..Len(hash_work') : m \in Queued(i)')
            <=> \E i \in 1..Len(hash_work) : m \in Queued(i)
    BY <1>5, <1>6, <1>7, <2>1
  <2> QED
    BY <1>1, <2>2, HashSizes DEF HashInv, HashWhole, Hash!HashTableAssumption
<1> QED
  BY <1>8, <1>10, <1>11, <1>12 DEF HashInv

(* Every step keeps the invariant. *)
LEMMA HashInvariance == Hash!Spec => []HashInv
<1>1. HashInv /\ [Hash!Next]_Hash!vars => HashInv'
  <2> SUFFICES ASSUME HashInv, [Hash!Next]_Hash!vars PROVE HashInv'
    OBVIOUS
  <2>1. CASE UNCHANGED Hash!vars
    BY <2>1 DEF Hash!vars, HashInv, Hash!TypeOK, HashHome, HashOnce, HashInHand,
            HashWaits, HashWhole, Queued, Hash!h1, Hash!h2
  <2>2. CASE \E k \in Keys : Hash!Insert(k) \/ Hash!Erase(k)
    BY <2>2, HashInsertKeeps, HashEraseKeeps
  <2> QED
    BY <2>1, <2>2, PlaceKeeps, EvictKeeps, RehashKeeps, ReinsertKeeps, RehashedKeeps
          DEF Hash!Next
<1> QED
  BY <1>1, HashInit, PTL DEF Hash!Spec

(* Between operations everything inserted is in the table. *)
LEMMA HashExact == HashInv => Hash!FindExact
<1> SUFFICES ASSUME HashInv, Hash!Resting PROVE Hash!FindExact
  BY DEF Hash!FindExact
<1>1. hash_hand = NULL /\ hash_work = <<>> /\ Hash!TypeOK
  BY DEF Hash!Resting, HashInv
<1>2. ASSUME NEW k \in Keys PROVE k \in hash_inserted <=> Hash!Find(k) # NULL
  <2>1. /\ Hash!h1(k) \in 0..(hash_size - 1)
        /\ Hash!h2(k) \in 0..(hash_size - 1)
        /\ k # NULL
    BY <1>1, HashIndexes, HashSizes DEF Hash!HashTableAssumption
  <2>2. Hash!Find(k) # NULL <=> \E p \in 0..(hash_size - 1) : hash_table[p] = k
    BY <2>1, HashSizes DEF Hash!Find, HashInv, HashHome, Hash!HashTableAssumption
  <2>3. k \in hash_inserted <=> \E p \in 0..(hash_size - 1) : hash_table[p] = k
    BY <1>1, <2>1 DEF HashInv, HashWhole
  <2> QED
    BY <2>2, <2>3
<1> QED
  BY <1>2 DEF Hash!FindExact, HashInv, HashOnce

(* The library is a hash table. *)
LEMMA HashTableMapped == Spec => Hash!Spec
<1>1. Init => Hash!Init
  BY DEF Init
<1>2. [Next]_vars => [Hash!Next]_Hash!vars
  <2>1. CASE HashTableMoves
    BY <2>1 DEF HashTableMoves
  <2>2. CASE UNCHANGED hashVars
    BY <2>2 DEF hashVars, Hash!vars
  <2> QED
    BY <2>1, <2>2
        DEF vars, Next,
            NetworkMoves, DhcpMoves, UdpMoves, FreelistMoves,
            Fat32Moves, BlkCacheMoves, DmaMoves, EepromMoves,
            ContainersMoves, UtilMoves, UsbMoves
<1> QED
  BY <1>1, <1>2, PTL DEF Spec, vars, Hash!Spec

(* Between operations Find returns the place of a key exactly if the key is  *)
(* in the table, and none is there twice, whatever the hashes and however    *)
(* deep the rehashes were nested (Insert, Rehash).                           *)
THEOREM FoundExactly == Spec => []FindExact
<1>1. HashInv => FindExact
  BY HashExact DEF FindExact
<1> QED
  BY <1>1, HashInvariance, HashTableMapped, PTL

-----------------------------------------------------------------------------
(* The free list, Objs: its types and ObjectsHeld are inductive together.   *)
FreeInv == Objs!TypeOK /\ Objs!ObjectsHeld

(* What leaves the chain at one place and nothing else. *)
LEMMA UnlinkedIsRest ==
    ASSUME FreeInv, NEW k \in 1..Len(free_chain)
    PROVE  LET rest == Objs!Unlinked(free_chain[k])
           IN  /\ rest \in Seq(Magazines) /\ Len(rest) = Len(free_chain) - 1
               /\ \A i \in 1..(Len(free_chain) - 1) :
                      rest[i] = IF i < k THEN free_chain[i] ELSE free_chain[i + 1]
<1>1. free_chain \in Seq(Magazines)
  BY DEF FreeInv, Objs!TypeOK
<1>2. Objs!Position(free_chain[k]) = k
  BY DEF FreeInv, Objs!ObjectsHeld, Objs!Position
<1>3. Len(free_chain) - 1 \in Nat
  BY <1>1
<1> QED BY <1>1, <1>2, <1>3 DEF Objs!Unlinked

LEMMA AllocKeeps ==
    ASSUME FreeInv, Objs!Alloc
    PROVE  FreeInv'
<1>1. PICK i \in 1..Len(free_chain) :
        \E p \in Places \ free_used[free_chain[i]] : Objs!Take(free_chain[i], p)
  BY DEF Objs!Alloc
<1>2. PICK p \in Places \ free_used[free_chain[i]] : Objs!Take(free_chain[i], p)
  BY <1>1
<1>3. free_chain' = free_chain /\ free_nummag' = free_nummag
  BY DEF Objs!Alloc
<1> DEFINE m == free_chain[i]
<1>4. /\ m \in Magazines /\ m \in Objs!Linked
      /\ free_used' = [free_used EXCEPT ![m] = @ \cup {p}]
      /\ free_objects' = free_objects \cup {<<m, p>>}
  BY <1>2 DEF Objs!Take, FreeInv, Objs!TypeOK, Objs!Linked
<1>5. /\ free_used'[m] = free_used[m] \cup {p}
      /\ \A l \in Magazines \ {m} : free_used'[l] = free_used[l]
  BY <1>4 DEF FreeInv, Objs!TypeOK
<1>6. Objs!TypeOK'
  BY <1>3, <1>4 DEF FreeInv, Objs!TypeOK
<1> HIDE DEF m
<1>7. Objs!Linked' = Objs!Linked /\ Objs!Linked \subseteq Magazines
  BY <1>3 DEF Objs!Linked, FreeInv, Objs!TypeOK
<1>8. free_objects' = {o \in Objs!Linked' \X Places : o[2] \in free_used'[o[1]]}
  <2>1. free_objects = {o \in Objs!Linked \X Places : o[2] \in free_used[o[1]]}
    BY DEF FreeInv, Objs!ObjectsHeld
  <2> QED BY <1>4, <1>5, <1>7, <2>1
<1>9. \A j \in 1..Len(free_chain) : free_used'[free_chain[j]] = {} => j = 1
  BY <1>4, <1>5 DEF FreeInv, Objs!TypeOK, Objs!ObjectsHeld
<1> QED BY <1>3, <1>6, <1>8, <1>9 DEF FreeInv, Objs!ObjectsHeld

(* Expand runs when no magazine has room, so none is empty behind it. *)
LEMMA ExpandKeeps ==
    ASSUME FreeInv, NumKeep \in Nat, Objs!Expand
    PROVE  FreeInv'
<1>1. PICK m \in Magazines \ Objs!Linked, p \in Places :
        /\ free_chain' = <<m>> \o free_chain
        /\ free_used' = [free_used EXCEPT ![m] = {p}]
        /\ free_objects' = free_objects \cup {<<m, p>>}
  BY DEF Objs!Expand
<1>2. /\ free_chain \in Seq(Magazines) /\ Len(free_chain') = Len(free_chain) + 1
      /\ free_chain'[1] = m
      /\ \A i \in 2..Len(free_chain') :
            i - 1 \in 1..Len(free_chain) /\ free_chain'[i] = free_chain[i - 1]
  BY <1>1 DEF FreeInv, Objs!TypeOK
<1>3. /\ free_used'[m] = {p} /\ \A l \in Magazines \ {m} : free_used'[l] = free_used[l]
      /\ \A l \in Objs!Linked : l \in Magazines /\ l # m /\ free_used'[l] = Places
  <2>1. Objs!Linked \subseteq Magazines
    BY <1>2 DEF Objs!Linked
  <2>2. \A l \in Objs!Linked : free_used[l] = Places
    BY DEF Objs!Expand, Objs!HasRoom
  <2> QED BY <1>1, <2>1, <2>2 DEF FreeInv, Objs!TypeOK
<1>4. Objs!TypeOK'
  BY <1>1, <1>2 DEF FreeInv, Objs!TypeOK, Objs!Expand
<1>5. Objs!Linked' = Objs!Linked \cup {m}
  <2>1. \A i \in 1..Len(free_chain) :
            i + 1 \in 1..Len(free_chain') /\ free_chain[i] = free_chain'[i + 1]
    BY <1>2
  <2>2. \A l \in Objs!Linked \cup {m} : l \in Objs!Linked'
    BY <1>2, <2>1 DEF Objs!Linked
  <2>3. ASSUME NEW i \in 1..Len(free_chain')
        PROVE  free_chain'[i] \in Objs!Linked \cup {m}
    BY <1>2 DEF Objs!Linked
  <2>4. \A l \in Objs!Linked' : l \in Objs!Linked \cup {m}
    BY <2>3 DEF Objs!Linked
  <2> QED BY <2>2, <2>4
<1>6. \A i, j \in 1..Len(free_chain') : free_chain'[i] = free_chain'[j] => i = j
  <2> SUFFICES ASSUME NEW i \in 1..Len(free_chain'), NEW j \in 1..Len(free_chain'),
                      free_chain'[i] = free_chain'[j]
               PROVE  i = j
    OBVIOUS
  <2>1. \A k \in 2..Len(free_chain') : free_chain'[k] # m
    BY <1>2, <1>3 DEF Objs!Linked
  <2>2. CASE i = 1 \/ j = 1
    BY <1>2, <2>1, <2>2
  <2>3. CASE i # 1 /\ j # 1
    <3>1. /\ i - 1 \in 1..Len(free_chain) /\ j - 1 \in 1..Len(free_chain)
          /\ free_chain[i - 1] = free_chain[j - 1]
      BY <1>2, <2>3
    <3>2. i - 1 = j - 1
      BY <3>1 DEF FreeInv, Objs!ObjectsHeld
    <3> QED BY <3>2
  <2> QED BY <2>2, <2>3
<1>7. free_objects' = {o \in Objs!Linked' \X Places : o[2] \in free_used'[o[1]]}
  <2>1. free_objects = {o \in Objs!Linked \X Places : o[2] \in free_used[o[1]]}
    BY DEF FreeInv, Objs!ObjectsHeld
  <2>2. \A l \in Objs!Linked : free_used[l] = free_used'[l]
    BY <1>3
  <2> QED BY <1>1, <1>3, <1>5, <2>1, <2>2
<1>8. \A i \in 1..Len(free_chain') : free_used'[free_chain'[i]] = {} => i = 1
  <2> SUFFICES ASSUME NEW i \in 2..Len(free_chain')
               PROVE  free_used'[free_chain'[i]] # {}
    BY <1>2
  <2>1. free_chain'[i] \in Objs!Linked
    BY <1>2 DEF Objs!Linked
  <2> QED BY <1>1, <1>3, <2>1
<1> QED BY <1>4, <1>6, <1>7, <1>8 DEF FreeInv, Objs!ObjectsHeld

LEMMA FreeKeeps ==
    ASSUME FreeInv, NEW m \in Magazines, NEW p \in Places, Objs!Free(m, p)
    PROVE  FreeInv'
<1>1. /\ <<m, p>> \in free_objects
      /\ free_used' = [free_used EXCEPT ![m] = @ \ {p}]
      /\ free_objects' = free_objects \ {<<m, p>>}
      /\ free_nummag' = free_nummag
  BY DEF Objs!Free
<1>2. /\ free_objects = {o \in Objs!Linked \X Places : o[2] \in free_used[o[1]]}
      /\ \A i, j \in 1..Len(free_chain) : free_chain[i] = free_chain[j] => i = j
      /\ \A i \in 1..Len(free_chain) : free_used[free_chain[i]] = {} => i = 1
      /\ free_chain \in Seq(Magazines) /\ Objs!Linked \subseteq Magazines
  BY DEF FreeInv, Objs!ObjectsHeld, Objs!TypeOK, Objs!Linked
<1>3. m \in Objs!Linked /\ p \in free_used[m]
  BY <1>1, <1>2
<1>4. PICK k \in 1..Len(free_chain) : free_chain[k] = m
  BY <1>3 DEF Objs!Linked
<1>5. /\ free_used'[m] = free_used[m] \ {p}
      /\ \A l \in Magazines \ {m} : free_used'[l] = free_used[l]
  BY <1>1 DEF FreeInv, Objs!TypeOK
<1>6. CASE free_used[m] = {p} /\ ~Objs!Keeps(m)
  <2> DEFINE n == Len(free_chain) - 1
  <2>1. /\ free_chain' = Objs!Unlinked(m) /\ n \in Nat
        /\ free_chain' \in Seq(Magazines) /\ Len(free_chain') = n
        /\ \A i \in 1..n : free_chain'[i] = IF i < k THEN free_chain[i]
               ELSE free_chain[i + 1]
    <3>1. free_chain' = Objs!Unlinked(m)
      BY <1>6 DEF Objs!Free
    <3>2. n \in Nat
      BY <1>2
    <3> QED BY <1>4, <3>1, <3>2, UnlinkedIsRest
  <2>2. Objs!TypeOK'
    BY <1>1, <2>1 DEF FreeInv, Objs!TypeOK
  <2>3. \A i, j \in 1..n : free_chain'[i] = free_chain'[j] => i = j
    BY <1>2, <2>1
  <2>4. Objs!Linked' = Objs!Linked \ {m}
    <3>1. ASSUME NEW i \in 1..n
          PROVE  free_chain'[i] \in Objs!Linked /\ free_chain'[i] # m
      <4>1. PICK j \in 1..Len(free_chain) : j # k /\ free_chain'[i] = free_chain[j]
        BY <2>1
      <4> QED BY <1>2, <1>4, <4>1 DEF Objs!Linked
    <3>2. ASSUME NEW i \in 1..Len(free_chain), i # k
          PROVE  \E j \in 1..n : free_chain'[j] = free_chain[i]
      <4>1. CASE i < k
        BY <2>1, <4>1
      <4>2. CASE i > k
        <5>1. i - 1 \in 1..n /\ free_chain'[i - 1] = free_chain[i]
          BY <2>1, <4>2
        <5> QED BY <5>1
      <4> QED BY <3>2, <4>1, <4>2
    <3>3. ASSUME NEW l \in Objs!Linked \ {m}
          PROVE  l \in Objs!Linked'
      <4>1. PICK i \in 1..Len(free_chain) : free_chain[i] = l
        BY DEF Objs!Linked
      <4>2. PICK j \in 1..n : free_chain'[j] = l
        BY <1>4, <3>2, <4>1
      <4> QED BY <2>1, <4>2 DEF Objs!Linked
    <3>4. \A l \in Objs!Linked' : l \in Objs!Linked /\ l # m
      BY <2>1, <3>1 DEF Objs!Linked
    <3> QED BY <3>3, <3>4
  <2>5. free_objects' = {o \in Objs!Linked' \X Places : o[2] \in free_used'[o[1]]}
    BY <1>1, <1>2, <1>5, <1>6, <2>4
  <2>6. \A i \in 1..n : free_used'[free_chain'[i]] = {} => i = 1
    <3> SUFFICES ASSUME NEW i \in 1..n, i # 1
                 PROVE  free_used'[free_chain'[i]] # {}
      OBVIOUS
    <3>1. PICK j \in 2..Len(free_chain) : j # k /\ free_chain'[i] = free_chain[j]
      <4>0. i \in 1..n /\ i >= 2 /\ i \in Nat /\ Len(free_chain) = n + 1
        BY <1>2, <2>1
      <4>1. CASE i < k
        BY <2>1, <4>0, <4>1
      <4>2. CASE i >= k
        <5>1. free_chain'[i] = free_chain[i + 1]
          BY <2>1, <4>0, <4>2
        <5>2. i + 1 \in 2..Len(free_chain) /\ i + 1 # k
          BY ONLY <4>0, <4>2, k \in 1..Len(free_chain)
        <5> QED BY <5>1, <5>2
      <4> QED BY <4>0, <4>1, <4>2
    <3>2. free_chain[j] \in Magazines \ {m} /\ free_used[free_chain[j]] # {}
      BY <1>2, <1>4, <3>1
    <3> QED BY <1>5, <3>1, <3>2
  <2> QED BY <2>1, <2>2, <2>3, <2>5, <2>6 DEF FreeInv, Objs!ObjectsHeld
<1>7. CASE ~(free_used[m] = {p} /\ ~Objs!Keeps(m))
  <2>1. free_chain' = free_chain
    BY <1>7 DEF Objs!Free
  <2>2. Objs!TypeOK' /\ Objs!Linked' = Objs!Linked
    BY <1>1, <2>1 DEF FreeInv, Objs!TypeOK, Objs!Linked
  <2>3. free_objects' = {o \in Objs!Linked' \X Places : o[2] \in free_used'[o[1]]}
    BY <1>1, <1>2, <1>5, <2>2
  <2>4. \A i \in 1..Len(free_chain) : free_used'[free_chain[i]] = {} => i = 1
    <3> SUFFICES ASSUME NEW i \in 1..Len(free_chain), i # 1
                 PROVE  free_used'[free_chain[i]] # {}
      OBVIOUS
    <3>1. free_chain[i] \in Magazines /\ free_used[free_chain[i]] # {}
      BY <1>2
    <3>2. CASE i = k
      <4>1. m # Head(free_chain)
        BY <1>2, <1>4, <3>2
      <4>2. free_used[m] # {p}
        BY <1>7, <4>1 DEF Objs!Keeps
      <4> QED BY <1>3, <1>4, <1>5, <3>2, <4>2
    <3>3. CASE i # k
      BY <1>2, <1>4, <1>5, <3>1, <3>3
    <3> QED BY <3>2, <3>3
  <2> QED BY <1>2, <2>1, <2>2, <2>3, <2>4 DEF FreeInv, Objs!ObjectsHeld
<1> QED BY <1>6, <1>7
LEMMA FreeInvariance == ASSUME NumKeep \in Nat PROVE Objs!Spec => []FreeInv
<1>1. Objs!Init => FreeInv
  BY DEF Objs!Init, FreeInv, Objs!TypeOK, Objs!ObjectsHeld, Objs!Linked
<1>2. FreeInv /\ [Objs!Next]_Objs!vars => FreeInv'
  <2>1. ASSUME FreeInv, UNCHANGED Objs!vars
        PROVE  FreeInv'
    BY <2>1 DEF Objs!vars, FreeInv, Objs!TypeOK, Objs!ObjectsHeld, Objs!Linked
  <2> QED BY <2>1, AllocKeeps, ExpandKeeps, FreeKeeps DEF Objs!Next
<1> QED BY <1>1, <1>2, PTL DEF Objs!Spec

(* The library is a free list. *)
LEMMA FreelistMapped == Spec => Objs!Spec
<1>1. Init => Objs!Init
  BY DEF Init
<1>2. [Next]_vars => [Objs!Next]_Objs!vars
  <2>1. CASE FreelistMoves
    BY <2>1 DEF FreelistMoves
  <2>2. CASE UNCHANGED freeVars
    BY <2>2 DEF freeVars, Objs!vars
  <2> QED
    BY <2>1, <2>2
        DEF vars, Next,
            NetworkMoves, DhcpMoves, UdpMoves, HashTableMoves,
            Fat32Moves, BlkCacheMoves, DmaMoves, EepromMoves,
            ContainersMoves, UtilMoves, UsbMoves
<1> QED
  BY <1>1, <1>2, PTL DEF Spec, vars, Objs!Spec

(* An object in use is in a magazine that is linked, once, and marked       *)
(* there, for magazines of any size and any number of them (Alloc, Expand,  *)
(* Free).                                                                   *)
THEOREM ObjectsStayHeld == Spec => []ObjectsHeld
<1>1. FreeInv => ObjectsHeld
  BY DEF FreeInv, ObjectsHeld
<1>2. Objs!Spec => []FreeInv
  BY LibraryAssumption, FreeInvariance DEF LibraryAssumption
<1> QED BY <1>1, <1>2, FreelistMapped, PTL

-----------------------------------------------------------------------------
(* The library is a file system. *)
LEMMA Fat32Mapped == Spec => Fat!Spec
<1>1. Init => Fat!Init
  BY DEF Init
<1>2. [Next]_vars => [Fat!Next]_Fat!vars
  <2>1. CASE Fat32Moves
    BY <2>1 DEF Fat32Moves
  <2>2. CASE UNCHANGED fatVars
    BY <2>2 DEF fatVars, Fat!vars
  <2> QED
    BY <2>1, <2>2
        DEF vars, Next,
            NetworkMoves, DhcpMoves, UdpMoves, HashTableMoves,
            FreelistMoves, BlkCacheMoves, DmaMoves, EepromMoves,
            ContainersMoves, UtilMoves, UsbMoves
<1> QED
  BY <1>1, <1>2, PTL DEF Spec, vars, Fat!Spec

(* The variables of the file system stay in their types. *)
THEOREM Fat32TypesHold == Spec => []Fat!TypeOK
<1>1. Fat!Spec => []Fat!TypeOK
  BY LibraryAssumption, Fat!Typed DEF LibraryAssumption
<1> QED BY <1>1, Fat32Mapped, PTL

(* Whenever power may fail, every cluster that an entry leads to is         *)
(* allocated and is no other entry's (fat_set, update_dirent).              *)
THEOREM ClustersApart == Spec => []NoCrossLink
<1>1. Fat!Spec => []Fat!NoCrossLink
  BY LibraryAssumption, Fat!NoCrossLinks DEF LibraryAssumption
<1>2. Fat!NoCrossLink => NoCrossLink
  BY DEF NoCrossLink
<1> QED BY <1>1, <1>2, Fat32Mapped, PTL

(* The size of a file is within the clusters it can reach, whatever was     *)
(* written when power failed (write, update_dirent).                        *)
THEOREM SizeReached == Spec => []SizeCovered
<1>1. Fat!Spec => []Fat!SizeCovered
  BY LibraryAssumption, Fat!SizesCovered DEF LibraryAssumption
<1>2. Fat!SizeCovered => SizeCovered
  BY DEF SizeCovered
<1> QED BY <1>1, <1>2, Fat32Mapped, PTL

(* Between calls, until power fails or a call loses clusters, none is lost  *)
(* and the free count is right (fat_allocate, fat_free_chain).              *)
THEOREM ClustersKept == Spec => []NothingLost
<1>1. Fat!Spec => []Fat!NothingLost
  BY LibraryAssumption, Fat!NothingIsLost DEF LibraryAssumption
<1>2. Fat!NothingLost => NothingLost
  BY DEF NothingLost
<1> QED BY <1>1, <1>2, Fat32Mapped, PTL

(* Between calls fsck reports the clusters that are lost, and nothing that  *)
(* is not so (fsck_scan_directory, fsck_mark_chain).                        *)
THEOREM FsckReports == Spec => []FsckTruthful
<1>1. Fat!Spec => []Fat!FsckTruthful
  BY LibraryAssumption, Fat!FsckTellsTruth DEF LibraryAssumption
<1>2. Fat!FsckTruthful => FsckTruthful
  BY DEF FsckTruthful
<1> QED BY <1>1, <1>2, Fat32Mapped, PTL

-----------------------------------------------------------------------------
(* The library is a sector cache. *)
LEMMA BlkCacheMapped == Spec => Cache!Spec
<1>1. Init => Cache!Init
  BY DEF Init
<1>2. [Next]_vars => [Cache!Next]_Cache!vars
  <2>1. CASE BlkCacheMoves
    BY <2>1 DEF BlkCacheMoves
  <2>2. CASE UNCHANGED blkVars
    BY <2>2 DEF blkVars, Cache!vars
  <2> QED
    BY <2>1, <2>2
        DEF vars, Next,
            NetworkMoves, DhcpMoves, UdpMoves, HashTableMoves,
            FreelistMoves, Fat32Moves, DmaMoves, EepromMoves,
            ContainersMoves, UtilMoves, UsbMoves
<1> QED
  BY <1>1, <1>2, PTL DEF Spec, vars, Cache!Spec

(* The cache and the device never disagree unnoticed (blkcache.cxx). *)
THEOREM CacheCoherent == Spec => []Coherent
<1>1. Cache!Spec => []Cache!Coherent
  BY LibraryAssumption, Cache!CacheCoherent DEF LibraryAssumption
<1>2. Cache!Coherent => Coherent
  BY DEF Coherent
<1> QED BY <1>1, <1>2, BlkCacheMapped, PTL

(* The LRU list of the cache stays one list (lru_move_to_front). *)
THEOREM ListStaysSound == Spec => []ListSound
<1>1. Cache!Spec => []Cache!ListSound
  BY LibraryAssumption, Cache!ListStaysSound DEF LibraryAssumption
<1>2. Cache!ListSound => ListSound
  BY DEF ListSound
<1> QED BY <1>1, <1>2, BlkCacheMapped, PTL
-----------------------------------------------------------------------------
(* The DMA controller, Dmac.  The inductive invariant: a character is       *)
(* pushed only while some are left, and whoever waits for a stream is       *)
(* heard.                                                                   *)
DmaInv ==
    /\ Dmac!TypeOK
    /\ dma_wpc = "push" => dma_left > 0
    /\ Dmac!ClaimsHeard

DmaAssumption == SendSize \in Nat \ {0} /\ MaxWrite \in Nat /\ NULL \notin {"usart",
                                                                            "spi"}

LEMMA RingIndex == ASSUME NEW n \in Nat \ {0}, NEW i \in Nat PROVE i % n \in 0..(n - 1)
OBVIOUS

(* What a thread waits for, stream by stream, before a step and after. *)
LEMMA WaitsFor ==
    /\ Dmac!FreeFor("usart_tx") = {}
           <=> dma_assignment[3] # NULL /\ dma_assignment[4] # NULL
    /\ Dmac!FreeFor("spi_tx") = {} <=> dma_assignment[4] # NULL
    /\ Dmac!FreeFor("spi_rx") = {} <=> dma_assignment[3] # NULL
    /\ Dmac!FreeFor("usart_tx")' = {} <=>
           dma_assignment'[3] # NULL /\ dma_assignment'[4] # NULL
    /\ Dmac!FreeFor("spi_tx")' = {} <=> dma_assignment'[4] # NULL
    /\ Dmac!FreeFor("spi_rx")' = {} <=> dma_assignment'[3] # NULL
BY DEF Dmac!FreeFor, Dmac!_target_sch

(* TryAssign takes a stream and frees none. *)
LEMMA TryAssignTakes ==
    ASSUME DmaAssumption, Dmac!TypeOK, NEW l \in Dmac!Lines, Dmac!TryAssign(l)
    PROVE  /\ \A s \in Dmac!Streams : dma_assignment[s] # NULL => dma_assignment'[s] # NULL
           /\ dma_assignment' \in [Dmac!Streams -> {"usart", "spi", NULL}]
           /\ dma_is_tx' \in [Dmac!Streams -> BOOLEAN]
           /\ dma_stream' \in [Dmac!Lines -> Dmac!Streams]
           /\ UNCHANGED <<dma_active, dma_enabled, dma_tcif>>
<1> DEFINE first == CHOOSE i \in Dmac!FreeFor(l) : \A j \in Dmac!FreeFor(l) : i <= j
           s == Dmac!_target_sch[l][first]
<1>1. /\ dma_assignment' = [dma_assignment EXCEPT ![s] = Dmac!Peripheral(l)]
      /\ dma_is_tx' = [dma_is_tx EXCEPT ![s] = Dmac!IsTx(l)]
      /\ dma_stream' = [dma_stream EXCEPT ![l] = s]
      /\ Dmac!FreeFor(l) # {}
      /\ UNCHANGED <<dma_active, dma_enabled, dma_tcif>>
  BY DEF Dmac!TryAssign
<1>2. s \in Dmac!Streams
  <2>1. l \in {"usart_tx", "spi_tx", "spi_rx"} /\ Dmac!FreeFor(l) \subseteq {1, 2}
    BY DEF Dmac!Lines, Dmac!FreeFor, Dmac!_target_sch
  <2>2. first \in Dmac!FreeFor(l)
    BY <1>1, <2>1
  <2> QED BY <2>1, <2>2 DEF Dmac!FreeFor, Dmac!_target_sch, Dmac!Streams
<1>3. Dmac!Peripheral(l) \in {"usart", "spi"} /\ Dmac!IsTx(l) \in BOOLEAN
  BY DEF Dmac!Peripheral, Dmac!IsTx
<1> HIDE DEF s
<1> QED BY <1>1, <1>2, <1>3 DEF DmaAssumption, Dmac!TypeOK
(* A step that frees no stream may make a thread wait that finds none. *)
LEMMA NothingFreed ==
    ASSUME Dmac!ClaimsHeard,
           \A s \in Dmac!Streams : dma_assignment[s] # NULL => dma_assignment'[s] # NULL,
           \/ dma_wpc' = dma_wpc
           \/ dma_wpc' = "assignWait" /\ Dmac!FreeFor("usart_tx") = {}
           \/ dma_wpc' # "assignWait",
           \/ dma_spc' = dma_spc
           \/ dma_spc' = "txWait" /\ Dmac!FreeFor("spi_tx") = {}
           \/ dma_spc' = "rxWait" /\ Dmac!FreeFor("spi_rx") = {}
           \/ dma_spc' \notin {"txWait", "rxWait"}
    PROVE  Dmac!ClaimsHeard'
<1>1. /\ dma_assignment[3] # NULL => dma_assignment'[3] # NULL
      /\ dma_assignment[4] # NULL => dma_assignment'[4] # NULL
  BY DEF Dmac!Streams
<1>2. dma_wpc' = "assignWait" => Dmac!FreeFor("usart_tx")' = {}
  BY <1>1, WaitsFor DEF Dmac!ClaimsHeard
<1>3. dma_spc' = "txWait" => Dmac!FreeFor("spi_tx")' = {}
  BY <1>1, WaitsFor DEF Dmac!ClaimsHeard
<1>4. dma_spc' = "rxWait" => Dmac!FreeFor("spi_rx")' = {}
  BY <1>1, WaitsFor DEF Dmac!ClaimsHeard
<1> QED BY <1>2, <1>3, <1>4 DEF Dmac!ClaimsHeard

WriterPlaces ==
    {"idle", "fill", "more", "push", "test", "assign", "assignWait", "start", "full",
     "wait"}
PanelPlaces ==
    {"idle", "tx", "txWait", "rx", "rxWait", "receive", "transmit", "sent", "wait"}

(* StartTx keeps the types, and either frees nothing and moves nobody or    *)
(* empties the queue and wakes the touch panel's thread.                    *)
LEMMA StartTxKeeps ==
    ASSUME DmaAssumption, Dmac!TypeOK, NEW h \in 0..(SendSize - 1), NEW on,
           on.active \subseteq Dmac!Lines, on.enabled \subseteq Dmac!Streams,
           on.tcif \subseteq Dmac!Streams, on.size \in 0..SendSize, Dmac!StartTx(h, on)
    PROVE  /\ dma_assignment' \in [Dmac!Streams -> {"usart", "spi", NULL}]
           /\ UNCHANGED <<dma_is_tx, dma_stream>>
           /\ dma_active' \subseteq Dmac!Lines
           /\ dma_enabled' \subseteq Dmac!Streams /\ dma_tcif' \subseteq Dmac!Streams
           /\ dma_head' \in 0..(SendSize - 1) /\ dma_tail' \in 0..(SendSize - 1)
           /\ dma_tx_size' \in 0..SendSize
           /\ dma_spc' \in PanelPlaces
           /\ \/ dma_head' # dma_tail' /\ UNCHANGED <<dma_assignment, dma_spc>>
              \/ dma_head' = dma_tail' /\ dma_spc' \notin {"txWait", "rxWait"}
<1>1. CASE Dmac!SendRun(h, on)
  <2>1. /\ dma_head' = h /\ dma_head' # dma_tail'
        /\ UNCHANGED <<dma_assignment, dma_is_tx, dma_stream, dma_tail, dma_spc>>
    BY <1>1 DEF Dmac!SendRun
  <2>2. Dmac!Continuous(h) \in 0..SendSize
    BY DEF DmaAssumption, Dmac!TypeOK, Dmac!Continuous
  <2>3. "usart_tx" \in Dmac!Lines /\ dma_stream["usart_tx"] \in Dmac!Streams
    BY DEF Dmac!Lines, Dmac!TypeOK
  <2>4. /\ dma_active' \subseteq Dmac!Lines
        /\ dma_enabled' \subseteq Dmac!Streams /\ dma_tcif' \subseteq Dmac!Streams
        /\ dma_tx_size' \in 0..SendSize
    BY <1>1, <2>2, <2>3 DEF Dmac!SendRun
  <2> QED BY <2>1, <2>4 DEF Dmac!TypeOK, PanelPlaces
<1>2. CASE Dmac!GiveUp(h, on)
  <2>1. /\ dma_head' = 0 /\ dma_tail' = 0
        /\ dma_active' = on.active /\ dma_enabled' = on.enabled /\ dma_tcif' = on.tcif
        /\ dma_tx_size' = on.size
        /\ dma_assignment' = [dma_assignment EXCEPT ![dma_stream["usart_tx"]] = NULL]
        /\ dma_spc' = Dmac!WokenPanel
        /\ UNCHANGED <<dma_is_tx, dma_stream>>
    BY <1>2 DEF Dmac!GiveUp, Dmac!Released
  <2>2. dma_assignment' \in [Dmac!Streams -> {"usart", "spi", NULL}]
    BY <2>1 DEF Dmac!TypeOK
  <2>3. dma_spc' \in PanelPlaces \ {"txWait", "rxWait"}
    BY <2>1 DEF Dmac!WokenPanel, Dmac!TypeOK, PanelPlaces
  <2>4. 0 \in 0..(SendSize - 1)
    BY DEF DmaAssumption
  <2> QED BY <2>1, <2>2, <2>3, <2>4
<1> QED BY <1>1, <1>2 DEF Dmac!StartTx
(* The writer's steps but the one that starts the transfer. *)
LEMMA WriterKeeps ==
    ASSUME DmaAssumption, DmaInv,
           \/ Dmac!Write \/ Dmac!Fill \/ Dmac!PushBack \/ Dmac!TestActive
           \/ Dmac!AssignTx \/ Dmac!WaitForRoom
    PROVE  DmaInv'
<1>1. /\ Dmac!TypeOK /\ Dmac!ClaimsHeard
      /\ dma_wpc = "push" => dma_left > 0
  BY DEF DmaInv
<1>2. SendSize \in Nat \ {0} /\ MaxWrite \in Nat
  BY DEF DmaAssumption
<1>3. CASE Dmac!Write
  <2>1. /\ UNCHANGED <<dma_assignment, dma_is_tx, dma_stream, dma_active,
                       dma_enabled, dma_tcif,
                       dma_head, dma_tail, dma_tx_size, dma_read, dma_spc>>
        /\ dma_wpc' = "fill" /\ dma_left' \in 0..MaxWrite
    BY <1>2, <1>3 DEF Dmac!Write, Dmac!dmaVars, Dmac!queueVars
  <2>2. Dmac!ClaimsHeard'
    BY <1>1, <2>1, NothingFreed
  <2> QED BY <1>1, <2>1, <2>2 DEF DmaInv, Dmac!TypeOK
<1>4. CASE Dmac!Fill
  <2>1. /\ UNCHANGED <<dma_assignment, dma_is_tx, dma_stream, dma_active,
                       dma_enabled, dma_tcif,
                       dma_head, dma_tail, dma_tx_size, dma_left, dma_spc>>
        /\ dma_read' = dma_tail /\ dma_wpc' \in {"push", "full", "test"}
        /\ dma_wpc' = "push" => dma_left > 0
    BY <1>4 DEF Dmac!Fill, Dmac!dmaVars, Dmac!queueVars
  <2>2. Dmac!ClaimsHeard'
    BY <1>1, <2>1, NothingFreed
  <2> QED BY <1>1, <2>1, <2>2 DEF DmaInv, Dmac!TypeOK
<1>5. CASE Dmac!PushBack
  <2>1. /\ UNCHANGED <<dma_assignment, dma_is_tx, dma_stream, dma_active,
                       dma_enabled, dma_tcif,
                       dma_head, dma_tx_size, dma_read, dma_spc>>
        /\ dma_tail' = (dma_read + 1) % SendSize
        /\ dma_left' = dma_left - 1 /\ dma_wpc' = "more" /\ dma_left > 0
    BY <1>1, <1>5 DEF Dmac!PushBack, Dmac!dmaVars
  <2>2. Dmac!ClaimsHeard'
    BY <1>1, <2>1, NothingFreed
  <2>3. dma_tail' \in 0..(SendSize - 1)
    <3>1. dma_read + 1 \in Nat
      BY <1>1 DEF Dmac!TypeOK
    <3> QED BY <1>2, <2>1, <3>1, RingIndex
  <2>4. dma_left' \in 0..MaxWrite
    BY <1>1, <1>2, <2>1 DEF Dmac!TypeOK
  <2> QED BY <1>1, <2>1, <2>2, <2>3, <2>4 DEF DmaInv, Dmac!TypeOK
<1>6. CASE Dmac!TestActive \/ Dmac!WaitForRoom
  <2>1. /\ UNCHANGED <<dma_assignment, dma_is_tx, dma_stream, dma_active,
                       dma_enabled, dma_tcif,
                       dma_head, dma_tail, dma_tx_size, dma_left, dma_read, dma_spc>>
        /\ dma_wpc' \in {"start", "assign", "wait"}
    BY <1>6 DEF Dmac!TestActive, Dmac!WaitForRoom, Dmac!dmaVars, Dmac!queueVars
  <2>2. Dmac!ClaimsHeard'
    BY <1>1, <2>1, NothingFreed
  <2> QED BY <1>1, <2>1, <2>2 DEF DmaInv, Dmac!TypeOK
<1>7. CASE Dmac!AssignTx
  <2>1. UNCHANGED <<dma_head, dma_tail, dma_tx_size, dma_left, dma_read, dma_spc>>
    BY <1>7 DEF Dmac!AssignTx, Dmac!queueVars
  <2>2. CASE Dmac!TryAssign("usart_tx") /\ dma_wpc' = "start"
    <3>1. "usart_tx" \in Dmac!Lines
      BY DEF Dmac!Lines
    <3>2. Dmac!ClaimsHeard'
      BY <1>1, <2>1, <2>2, <3>1, TryAssignTakes, NothingFreed
    <3> QED BY <1>1, <2>1, <2>2, <3>1, <3>2, TryAssignTakes DEF DmaInv, Dmac!TypeOK
  <2>3. CASE Dmac!MustWait("usart_tx") /\ dma_wpc' = "assignWait"
    <3>1. /\ UNCHANGED <<dma_assignment, dma_is_tx, dma_stream, dma_active,
                         dma_enabled, dma_tcif>>
          /\ Dmac!FreeFor("usart_tx") = {}
      BY <2>3 DEF Dmac!MustWait, Dmac!dmaVars
    <3>2. Dmac!ClaimsHeard'
      BY <1>1, <2>1, <2>3, <3>1, NothingFreed
    <3> QED BY <1>1, <2>1, <2>3, <3>1, <3>2 DEF DmaInv, Dmac!TypeOK
  <2> QED BY <1>7, <2>2, <2>3 DEF Dmac!AssignTx
<1> QED BY <1>3, <1>4, <1>5, <1>6, <1>7

(* A transfer of the writer's that is started, or found to have nothing to  *)
(* send, by the writer itself or by a character that arrives.               *)
LEMMA StartKeeps ==
    ASSUME DmaAssumption, DmaInv, Dmac!WriteStart \/ Dmac!HandleInterrupt
    PROVE  DmaInv'
<1>1. /\ Dmac!TypeOK /\ Dmac!ClaimsHeard
      /\ dma_wpc = "push" => dma_left > 0
  BY DEF DmaInv
<1>2. Dmac!StartTx(dma_head, Dmac!Now) /\ UNCHANGED <<dma_left, dma_read>>
  BY DEF Dmac!WriteStart, Dmac!HandleInterrupt
<1>3. /\ dma_head \in 0..(SendSize - 1)
      /\ Dmac!Now.active \subseteq Dmac!Lines /\ Dmac!Now.enabled \subseteq Dmac!Streams
      /\ Dmac!Now.tcif \subseteq Dmac!Streams /\ Dmac!Now.size \in 0..SendSize
  BY <1>1 DEF Dmac!TypeOK, Dmac!Now
<1>4. /\ dma_assignment' \in [Dmac!Streams -> {"usart", "spi", NULL}]
      /\ UNCHANGED <<dma_is_tx, dma_stream>>
      /\ dma_active' \subseteq Dmac!Lines
      /\ dma_enabled' \subseteq Dmac!Streams /\ dma_tcif' \subseteq Dmac!Streams
      /\ dma_head' \in 0..(SendSize - 1) /\ dma_tail' \in 0..(SendSize - 1)
      /\ dma_tx_size' \in 0..SendSize
      /\ dma_spc' \in PanelPlaces
      /\ \/ dma_head' # dma_tail' /\ UNCHANGED <<dma_assignment, dma_spc>>
         \/ dma_head' = dma_tail' /\ dma_spc' \notin {"txWait", "rxWait"}
  BY <1>1, <1>2, <1>3, StartTxKeeps
<1>5. /\ dma_wpc' \in WriterPlaces
      /\ dma_wpc' = "push" => dma_wpc = "push"
      /\ dma_wpc' = dma_wpc \/ dma_wpc' # "assignWait"
      /\ dma_head' = dma_tail' => dma_wpc' # "assignWait"
  <2>1. CASE Dmac!WriteStart
    BY <2>1 DEF Dmac!WriteStart, WriterPlaces
  <2>2. CASE Dmac!HandleInterrupt
    BY <1>1, <2>2 DEF Dmac!HandleInterrupt, Dmac!TypeOK, WriterPlaces
  <2> QED BY <2>1, <2>2
<1>6. Dmac!ClaimsHeard'
  <2>1. CASE dma_head' # dma_tail' /\ UNCHANGED <<dma_assignment, dma_spc>>
    BY <1>1, <1>5, <2>1, NothingFreed
  <2>2. CASE dma_head' = dma_tail' /\ dma_spc' \notin {"txWait", "rxWait"}
    BY <1>5, <2>2 DEF Dmac!ClaimsHeard
  <2> QED BY <1>4, <2>1, <2>2
<1>7. Dmac!TypeOK'
  BY <1>1, <1>2, <1>4, <1>5 DEF Dmac!TypeOK, WriterPlaces, PanelPlaces
<1> QED BY <1>1, <1>2, <1>5, <1>6, <1>7 DEF DmaInv

LEMMA PanelKeeps ==
    ASSUME DmaAssumption, DmaInv, Dmac!Panel
    PROVE  DmaInv'
<1>1. /\ Dmac!TypeOK /\ Dmac!ClaimsHeard
      /\ dma_wpc = "push" => dma_left > 0
  BY DEF DmaInv
<1>2. /\ UNCHANGED <<dma_head, dma_tail, dma_tx_size, dma_left, dma_read, dma_wpc>>
      /\ {"spi_tx", "spi_rx"} \subseteq Dmac!Lines
  BY DEF Dmac!Panel, Dmac!AssignRxTx, Dmac!Transact, Dmac!ReadPosition, Dmac!queueVars,
         Dmac!writerVars, Dmac!Lines
<1>3. CASE \E l \in {"spi_tx", "spi_rx"} : Dmac!TryAssign(l) /\ dma_spc' \in {"rx",
                                                                              "receive"}
  <2>1. PICK l \in Dmac!Lines : Dmac!TryAssign(l) /\ dma_spc' \in {"rx", "receive"}
    BY <1>2, <1>3
  <2>2. Dmac!ClaimsHeard'
    BY <1>1, <1>2, <2>1, TryAssignTakes, NothingFreed
  <2> QED BY <1>1, <1>2, <2>1, <2>2, TryAssignTakes DEF DmaInv, Dmac!TypeOK
<1>4. CASE \/ Dmac!MustWait("spi_tx") /\ dma_spc' = "txWait"
           \/ Dmac!MustWait("spi_rx") /\ dma_spc' = "rxWait"
  <2>1. UNCHANGED <<dma_assignment, dma_is_tx, dma_stream, dma_active,
                    dma_enabled, dma_tcif>>
    BY <1>4 DEF Dmac!MustWait, Dmac!dmaVars
  <2>2. Dmac!ClaimsHeard'
    BY <1>1, <1>2, <1>4, <2>1, NothingFreed DEF Dmac!MustWait
  <2> QED BY <1>1, <1>2, <1>4, <2>1, <2>2 DEF DmaInv, Dmac!TypeOK
<1>5. CASE Dmac!Transact \/ Dmac!ReadPosition
  <2>1. /\ UNCHANGED <<dma_assignment, dma_is_tx, dma_stream>>
        /\ dma_spc' \in {"transmit", "sent", "wait"}
        /\ dma_active' \subseteq Dmac!Lines
        /\ dma_enabled' \subseteq Dmac!Streams /\ dma_tcif' \subseteq Dmac!Streams
    <3>1. CASE Dmac!ReadPosition
      BY <1>1, <3>1 DEF Dmac!ReadPosition, Dmac!dmaVars, Dmac!TypeOK
    <3>2. CASE \E l \in Dmac!Lines : Dmac!Transfer(l) /\ dma_spc' \in {"transmit",
                                                                       "sent"}
      BY <1>1, <3>2 DEF Dmac!Transfer, Dmac!TypeOK
    <3> QED BY <1>2, <1>5, <3>1, <3>2 DEF Dmac!Transact
  <2>2. Dmac!ClaimsHeard'
    BY <1>1, <1>2, <2>1, NothingFreed
  <2> QED BY <1>1, <1>2, <2>1, <2>2 DEF DmaInv, Dmac!TypeOK
<1> QED BY <1>3, <1>4, <1>5 DEF Dmac!Panel, Dmac!AssignRxTx

(* Whoever waits is woken by the handler of a transfer that ends.           *)
LEMMA DmaInterruptKeeps ==
    ASSUME DmaAssumption, DmaInv, NEW s \in Dmac!Streams, Dmac!Interrupt(s)
    PROVE  DmaInv'
<1>1. /\ Dmac!TypeOK /\ Dmac!ClaimsHeard
      /\ dma_wpc = "push" => dma_left > 0
  BY DEF DmaInv
<1>2. CASE Dmac!NobodyHolds(s)
  <2>1. /\ UNCHANGED <<dma_assignment, dma_is_tx, dma_stream, dma_active, dma_head,
                       dma_tail,
                       dma_tx_size, dma_left, dma_read, dma_wpc, dma_spc>>
        /\ dma_enabled' = dma_enabled \ {s} /\ dma_tcif' = dma_tcif \ {s}
    BY <1>2 DEF Dmac!NobodyHolds, Dmac!queueVars, Dmac!writerVars
  <2>2. Dmac!ClaimsHeard'
    BY <1>1, <2>1, NothingFreed
  <2> QED BY <1>1, <2>1, <2>2 DEF DmaInv, Dmac!TypeOK
<1>3. CASE Dmac!UsartComplete(s)
  <2> DEFINE h == (dma_head + dma_tx_size) % SendSize
             on == Dmac!Quiet(s, {"usart_tx"})
  <2>1. h \in 0..(SendSize - 1)
    <3>1. dma_head + dma_tx_size \in Nat /\ SendSize \in Nat \ {0}
      BY <1>1 DEF Dmac!TypeOK, DmaAssumption
    <3> QED BY <3>1, RingIndex
  <2>2. /\ on.active \subseteq Dmac!Lines /\ on.enabled \subseteq Dmac!Streams
        /\ on.tcif \subseteq Dmac!Streams /\ on.size \in 0..SendSize
    BY <1>1 DEF Dmac!TypeOK, Dmac!Quiet, DmaAssumption
  <2>3. Dmac!StartTx(h, on) /\ UNCHANGED <<dma_left, dma_read>>
    BY <1>3 DEF Dmac!UsartComplete
  <2> HIDE DEF h, on
  <2>4. /\ dma_assignment' \in [Dmac!Streams -> {"usart", "spi", NULL}]
        /\ UNCHANGED <<dma_is_tx, dma_stream>>
        /\ dma_active' \subseteq Dmac!Lines
        /\ dma_enabled' \subseteq Dmac!Streams /\ dma_tcif' \subseteq Dmac!Streams
        /\ dma_head' \in 0..(SendSize - 1) /\ dma_tail' \in 0..(SendSize - 1)
        /\ dma_tx_size' \in 0..SendSize
        /\ dma_spc' \in PanelPlaces
        /\ \/ dma_head' # dma_tail' /\ UNCHANGED <<dma_assignment, dma_spc>>
           \/ dma_head' = dma_tail' /\ dma_spc' \notin {"txWait", "rxWait"}
    BY <1>1, <2>1, <2>2, <2>3, StartTxKeeps
  <2>5. /\ dma_wpc' \in WriterPlaces
        /\ dma_wpc' = "push" => dma_wpc = "push"
        /\ dma_wpc' = dma_wpc \/ dma_wpc' # "assignWait"
        /\ dma_head' = dma_tail' => dma_wpc' # "assignWait"
    BY <1>1, <1>3 DEF Dmac!UsartComplete, Dmac!TypeOK, WriterPlaces
  <2>6. Dmac!ClaimsHeard'
    <3>1. CASE dma_head' # dma_tail' /\ UNCHANGED <<dma_assignment, dma_spc>>
      BY <1>1, <2>5, <3>1, NothingFreed
    <3>2. CASE dma_head' = dma_tail' /\ dma_spc' \notin {"txWait", "rxWait"}
      BY <2>5, <3>2 DEF Dmac!ClaimsHeard
    <3> QED BY <2>4, <3>1, <3>2
  <2>7. Dmac!TypeOK'
    BY <1>1, <2>3, <2>4, <2>5 DEF Dmac!TypeOK, WriterPlaces, PanelPlaces
  <2> QED BY <1>1, <2>3, <2>5, <2>6, <2>7 DEF DmaInv
<1>4. CASE Dmac!SpiComplete(s)
  <2> DEFINE l == Dmac!Line("spi", dma_is_tx[s])
  <2>1. /\ dma_active' = dma_active \ {l}
        /\ dma_enabled' = dma_enabled \ {s} /\ dma_tcif' = dma_tcif \ {s}
        /\ dma_assignment' = [dma_assignment EXCEPT ![dma_stream[l]] = NULL]
        /\ UNCHANGED <<dma_is_tx, dma_stream, dma_head, dma_tail, dma_tx_size,
                       dma_left, dma_read>>
        /\ dma_wpc' = Dmac!WokenWriter
        /\ dma_spc' \in {"idle", Dmac!WokenPanel}
    BY <1>4 DEF Dmac!SpiComplete, Dmac!Released, Dmac!queueVars
  <2>2. /\ dma_wpc' \in WriterPlaces \ {"assignWait"}
        /\ dma_wpc' = "push" => dma_wpc = "push"
        /\ dma_spc' \in PanelPlaces \ {"txWait", "rxWait"}
    BY <1>1, <2>1
       DEF Dmac!TypeOK, Dmac!WokenWriter, Dmac!WokenPanel, WriterPlaces, PanelPlaces
  <2>3. Dmac!ClaimsHeard'
    BY <2>2 DEF Dmac!ClaimsHeard
  <2> HIDE DEF l
  <2>4. Dmac!TypeOK'
    BY <1>1, <2>1, <2>2 DEF Dmac!TypeOK, WriterPlaces, PanelPlaces
  <2> QED BY <1>1, <2>1, <2>2, <2>3, <2>4 DEF DmaInv
<1> QED BY <1>2, <1>3, <1>4 DEF Dmac!Interrupt

LEMMA CompletesKeeps ==
    ASSUME DmaInv, NEW s \in Dmac!Streams, Dmac!Completes(s)
    PROVE  DmaInv'
<1>1. /\ UNCHANGED <<dma_assignment, dma_is_tx, dma_stream, dma_active, dma_enabled,
                     dma_head,
                     dma_tail, dma_tx_size, dma_left, dma_read, dma_wpc, dma_spc>>
      /\ dma_tcif' = dma_tcif \cup {s}
  BY DEF Dmac!Completes, Dmac!queueVars, Dmac!writerVars
<1>2. Dmac!ClaimsHeard'
  BY <1>1, NothingFreed DEF DmaInv
<1> QED BY <1>1, <1>2 DEF DmaInv, Dmac!TypeOK

LEMMA DmaInvariance == ASSUME DmaAssumption PROVE Dmac!Spec => []DmaInv
<1>1. Dmac!Init => DmaInv
  <2> SUFFICES ASSUME Dmac!Init
               PROVE  DmaInv
    OBVIOUS
  <2>1. Dmac!TypeOK
    BY DEF Dmac!Init, Dmac!TypeOK, Dmac!Lines, Dmac!Streams, DmaAssumption
  <2> QED BY <2>1 DEF Dmac!Init, DmaInv, Dmac!ClaimsHeard
<1>2. DmaInv /\ [Dmac!Next]_Dmac!vars => DmaInv'
  <2>1. ASSUME DmaInv, UNCHANGED Dmac!vars
        PROVE  DmaInv'
    BY <2>1 DEF Dmac!vars, Dmac!dmaVars, Dmac!queueVars, Dmac!writerVars, DmaInv,
            Dmac!TypeOK,
                Dmac!ClaimsHeard, Dmac!FreeFor
  <2> QED BY <2>1, WriterKeeps, StartKeeps, PanelKeeps, DmaInterruptKeeps,
             CompletesKeeps
          DEF Dmac!Next, Dmac!Writer
<1> QED BY <1>1, <1>2, PTL DEF Dmac!Spec

(* The library is a DMA controller with its two peripherals. *)
LEMMA DmaMapped == Spec => Dmac!Spec
<1>1. Init => Dmac!Init
  BY DEF Init
<1>2. [Next]_vars => [Dmac!Next]_Dmac!vars
  <2>1. CASE DmaMoves
    BY <2>1 DEF DmaMoves
  <2>2. CASE UNCHANGED dmaVars
    BY <2>2 DEF dmaVars, Dmac!vars, Dmac!dmaVars, Dmac!queueVars, Dmac!writerVars
  <2> QED
    BY <2>1, <2>2
        DEF vars, Next,
            NetworkMoves, DhcpMoves, UdpMoves, HashTableMoves,
            FreelistMoves, Fat32Moves, BlkCacheMoves, EepromMoves,
            ContainersMoves, UtilMoves, UsbMoves
<1> QED
  BY <1>1, <1>2, PTL DEF Spec, vars, Dmac!Spec

(* A thread waits for a stream only while others hold every stream it could *)
(* take: no release passes it by (AssignTx, AssignRx, ReleaseTx, ReleaseRx), *)
(* for queues of any size.                                                  *)
THEOREM NoClaimUnheard == Spec => []ClaimsHeard
<1>1. DmaInv => ClaimsHeard
  BY DEF DmaInv, ClaimsHeard
<1>2. Dmac!Spec => []DmaInv
  BY LibraryAssumption, DmaInvariance DEF LibraryAssumption, DmaAssumption
<1> QED BY <1>1, <1>2, DmaMapped, PTL

-----------------------------------------------------------------------------
(* The containers, Seqs.  In m from h on are the items of c, ordered. *)
SeqHeld(m, h, c) ==
    Len(c) = Len(m) - h /\ \A i \in 1..Len(c) : c[i] = m[h + i]
SeqSorted(m, h) ==
    \A i, j \in (h + 1)..Len(m) : i <= j => m[i][1] <= m[j][1]
SeqApart(m) == \A i, j \in 1..Len(m) : m[i][1] = m[j][1] => i = j

(* The ring m with its head at h has the items of c. *)
SeqRing(m, h, c) ==
    \A i \in 1..Len(c) : c[i] = m[((h + i) % RingSize) + 1]

(* The inductive invariant. *)
SeqInv ==
    /\ Seqs!TypeOK
    /\ seq_kind # "ring" => SeqHeld(seq_mem, seq_head, seq_content)
    /\ seq_kind \in {"odeque", "set"} => SeqSorted(seq_mem, seq_head)
    /\ seq_kind = "set" => seq_head = 0 /\ SeqApart(seq_mem)
    /\ seq_kind = "ring" =>
        /\ Len(seq_mem) = RingSize /\ seq_head < RingSize
        /\ Len(seq_content) = Seqs!RingUsed
        /\ SeqRing(seq_mem, seq_head, seq_content)

-----------------------------------------------------------------------------
(* What Insert and Erase of a vector do to each place. *)
Inserted(w, v, p, a) ==
    /\ w \in Seq(Seqs!Items) /\ Len(w) = Len(v) + 1
    /\ \A i \in 1..(Len(v) + 1) :
           w[i] = IF i <= p THEN v[i] ELSE IF i = p + 1 THEN a ELSE v[i - 1]
Erased(w, v, p, n) ==
    /\ w \in Seq(Seqs!Items) /\ Len(w) = Len(v) - n
    /\ \A i \in 1..(Len(v) - n) : w[i] = IF i <= p THEN v[i] ELSE v[i + n]
Fewer(n, m) == IF n < m THEN n ELSE m

(* An insertion moves what is behind its place up by one. *)
LEMMA VectorInserts ==
    ASSUME NEW v \in Seq(Seqs!Items), NEW p \in 0..Len(v), NEW a \in Seqs!Items
    PROVE  Inserted(Seqs!VectorInsert(v, p, a), v, p, a)
<1> DEFINE S == Seqs!Items
           l == SubSeq(v, 1, p)
           r == SubSeq(v, p + 1, Len(v))
<1> HIDE DEF S
<1>1. v \in Seq(S) /\ a \in S
  BY DEF S
<1>2. /\ l \in Seq(S) /\ Len(l) = p /\ \A i \in 1..p : l[i] = v[i]
  BY <1>1
<1>3. /\ r \in Seq(S) /\ Len(r) = Len(v) - p /\ \A i \in 1..(Len(v) - p) : r[i] = v[p + i]
  BY <1>1
<1> HIDE DEF l, r
<1>4. /\ l \o <<a>> \in Seq(S) /\ Len(l \o <<a>>) = p + 1
      /\ \A i \in 1..p : (l \o <<a>>)[i] = v[i]
      /\ (l \o <<a>>)[p + 1] = a
  BY <1>1, <1>2
<1> DEFINE b == l \o <<a>>
           w == b \o r
<1>5. /\ b \in Seq(S) /\ Len(b) = p + 1 /\ b[p + 1] = a /\ \A i \in 1..p : b[i] = v[i]
  BY <1>4
<1> HIDE DEF b
<1>6. /\ w \in Seq(S) /\ Len(w) = Len(b) + Len(r)
      /\ \A i \in 1..(Len(b) + Len(r)) : w[i] = IF i <= Len(b) THEN b[i] ELSE r[i - Len(b)]
  BY <1>3, <1>5, ConcatProperties
<1> HIDE DEF w
<1>7. ASSUME NEW i \in 1..(Len(v) + 1)
      PROVE  w[i] = IF i <= p THEN v[i] ELSE IF i = p + 1 THEN a ELSE v[i - 1]
  <2> Len(v) \in Nat /\ p \in Nat
    BY <1>1
  <2> Len(b) + Len(r) = Len(v) + 1
    BY <1>3, <1>5
  <2>1. CASE i <= p
    <3>1. i \in 1..p /\ i \in 1..(Len(b) + Len(r)) /\ i <= Len(b)
      BY <1>5, <2>1
    <3> QED BY <1>5, <1>6, <2>1, <3>1
  <2>2. CASE i = p + 1
    BY <1>5, <1>6, <2>2
  <2>3. CASE i > p + 1
    <3>1. i - (p + 1) \in 1..(Len(v) - p) /\ i > Len(b)
      BY <1>1, <1>5, <2>3
    <3>2. w[i] = r[i - (p + 1)]
      BY <1>5, <1>6, <3>1
    <3> QED BY <1>3, <2>3, <3>1, <3>2
  <2> QED BY <2>1, <2>2, <2>3
<1>8. Inserted(w, v, p, a)
  BY <1>3, <1>5, <1>6, <1>7 DEF Inserted, S
<1> QED BY <1>8 DEF Seqs!VectorInsert, w, b, l, r

(* An erasure moves what is behind it down, and stops at the end. *)
LEMMA VectorErases ==
    ASSUME NEW v \in Seq(Seqs!Items), NEW p \in 0..Len(v), NEW num \in Nat
    PROVE  Erased(Seqs!VectorErase(v, p, num), v, p, Fewer(num, Len(v) - p))
<1> DEFINE S == Seqs!Items
           n == Fewer(num, Len(v) - p)
           l == SubSeq(v, 1, p)
           r == SubSeq(v, p + n + 1, Len(v))
<1> HIDE DEF S
<1>1. v \in Seq(S) /\ n \in 0..(Len(v) - p)
  BY DEF S, Fewer
<1>2. n = IF num < Len(v) - p THEN num ELSE Len(v) - p
  BY DEF Fewer
<1> HIDE DEF n
<1>3. /\ l \in Seq(S) /\ Len(l) = p /\ \A i \in 1..p : l[i] = v[i]
  BY <1>1
<1>4. /\ r \in Seq(S) /\ Len(r) = Len(v) - p - n
      /\ \A i \in 1..(Len(v) - p - n) : r[i] = v[p + n + i]
  BY <1>1
<1> HIDE DEF l, r
<1> DEFINE w == l \o r
<1>5. /\ w \in Seq(S) /\ Len(w) = Len(l) + Len(r)
      /\ \A i \in 1..(Len(l) + Len(r)) : w[i] = IF i <= Len(l) THEN l[i] ELSE r[i - Len(l)]
  BY <1>3, <1>4, ConcatProperties
<1> HIDE DEF w
<1>6. ASSUME NEW i \in 1..(Len(v) - n) PROVE w[i] = IF i <= p THEN v[i] ELSE v[i + n]
  <2>1. CASE i <= p
    BY <1>1, <1>3, <1>4, <1>5, <2>1
  <2>2. CASE i > p
    <3>1. i - p \in 1..(Len(v) - p - n) /\ p + n + (i - p) = i + n
      BY <1>1, <2>2
    <3>2. w[i] = r[i - p]
      BY <1>1, <1>3, <1>4, <1>5, <2>2, <3>1
    <3>3. r[i - p] = v[p + n + (i - p)]
      BY <1>4, <3>1
    <3> QED BY <2>2, <3>1, <3>2, <3>3
  <2> QED BY <2>1, <2>2
<1>7. Erased(w, v, p, n)
  BY <1>1, <1>3, <1>4, <1>5, <1>6 DEF Erased, S
<1> QED BY <1>2, <1>7 DEF Seqs!VectorErase, w, l, r, n

-----------------------------------------------------------------------------
(* What that does to the items held. *)
Holds(m, h, c) ==
    /\ m \in Seq(Seqs!Items) /\ c \in Seq(Seqs!Items) /\ h \in 0..Len(m)
    /\ SeqHeld(m, h, c)

(* What is held is the sequence from the head on. *)
LEMMA HeldWhole ==
    ASSUME NEW m, NEW h, NEW c, Holds(m, h, c)
    PROVE  SubSeq(m, h + 1, Len(m)) = c
<1> DEFINE S == Seqs!Items
           t == SubSeq(m, h + 1, Len(m))
<1> HIDE DEF S
<1>1. /\ m \in Seq(S) /\ c \in Seq(S) /\ h \in 0..Len(m) /\ Len(m) \in Nat
      /\ Len(c) = Len(m) - h /\ \A i \in 1..Len(c) : c[i] = m[h + i]
  <2>1. m \in Seq(S) /\ c \in Seq(S) /\ h \in 0..Len(m) /\ SeqHeld(m, h, c)
    BY DEF Holds, S
  <2>2. Len(c) = Len(m) - h /\ \A i \in 1..Len(c) : c[i] = m[h + i]
    BY <2>1 DEF SeqHeld
  <2> QED BY <2>1, <2>2
<1>2. t \in Seq(S) /\ Len(t) = Len(m) - h /\ \A i \in 1..(Len(m) - h) : t[i] = m[h + i]
  BY <1>1
<1> HIDE DEF t
<1>3. t = c
  BY <1>1, <1>2, SeqEqual
<1> QED BY <1>3 DEF t

(* Inserting behind the head and in what is expected agree. *)
LEMMA HeldInserted ==
    ASSUME NEW m, NEW h, NEW c, Holds(m, h, c), NEW p \in 0..Len(c), NEW a,
           NEW m2, NEW c2, Inserted(m2, m, h + p, a), Inserted(c2, c, p, a)
    PROVE  Holds(m2, h, c2)
<1>1. /\ Len(m) \in Nat /\ Len(c) \in Nat /\ h \in Nat /\ h <= Len(m) /\ p \in Nat
      /\ Len(c) = Len(m) - h /\ \A i \in 1..Len(c) : c[i] = m[h + i]
  BY DEF Holds, SeqHeld
<1>2. /\ Len(m2) = Len(m) + 1
      /\ \A i \in 1..(Len(m) + 1) :
             m2[i] = IF i <= h + p THEN m[i] ELSE IF i = h + p + 1 THEN a ELSE m[i - 1]
  BY DEF Inserted
<1>3. /\ Len(c2) = Len(c) + 1
      /\ \A i \in 1..(Len(c) + 1) :
             c2[i] = IF i <= p THEN c[i] ELSE IF i = p + 1 THEN a ELSE c[i - 1]
  BY DEF Inserted
<1>4. ASSUME NEW i \in 1..Len(c2) PROVE c2[i] = m2[h + i]
  <2>1. h + i \in 1..(Len(m) + 1) /\ i \in 1..(Len(c) + 1) /\ i - 1 \in Nat
    BY <1>1, <1>3
  <2>2. CASE i <= p
    BY <1>1, <1>2, <1>3, <2>1, <2>2
  <2>3. CASE i = p + 1
    BY <1>1, <1>2, <1>3, <2>1, <2>3
  <2>4. CASE i > p + 1
    <3>1. i - 1 \in 1..Len(c) /\ h + (i - 1) = (h + i) - 1 /\ ~(h + i <= h + p)
          /\ h + i # h + p + 1
      BY <1>1, <2>1, <2>4
    <3>2. m2[h + i] = m[(h + i) - 1]
      BY <1>2, <2>1, <3>1
    <3>3. c2[i] = c[i - 1]
      BY <1>1, <1>3, <2>1, <2>4
    <3>4. c[i - 1] = m[h + (i - 1)]
      BY <1>1, <3>1
    <3> QED BY <3>1, <3>2, <3>3, <3>4
  <2> QED BY <1>1, <2>1, <2>2, <2>3, <2>4
<1>5. Len(c2) = Len(m2) - h /\ h \in 0..Len(m2)
  BY <1>1, <1>2, <1>3
<1> QED BY <1>4, <1>5 DEF Holds, SeqHeld, Inserted

(* So does putting an item into the slot before the head. *)
LEMMA HeldBack ==
    ASSUME NEW m, NEW h, NEW c, Holds(m, h, c), h >= 1, NEW a \in Seqs!Items,
           NEW c2, Inserted(c2, c, 0, a), NEW m2, m2 = [m EXCEPT ![h] = a]
    PROVE  Holds(m2, h - 1, c2) /\ Len(m2) = Len(m)
<1> DEFINE S == Seqs!Items
<1> HIDE DEF S
<1>1. /\ Len(m) \in Nat /\ Len(c) \in Nat /\ h \in Nat /\ h <= Len(m)
      /\ Len(c) = Len(m) - h /\ \A i \in 1..Len(c) : c[i] = m[h + i]
      /\ m \in Seq(S) /\ a \in S
  BY DEF Holds, SeqHeld, S
<1>2. /\ m2 \in Seq(S) /\ Len(m2) = Len(m) /\ m2[h] = a
      /\ \A i \in 1..Len(m) : i # h => m2[i] = m[i]
  BY <1>1
<1>3. /\ Len(c2) = Len(c) + 1
      /\ \A i \in 1..(Len(c) + 1) : c2[i] = IF i = 1 THEN a ELSE c[i - 1]
  BY <1>1 DEF Inserted
<1>4. ASSUME NEW i \in 1..Len(c2) PROVE c2[i] = m2[(h - 1) + i]
  <2>1. CASE i = 1
    BY <1>1, <1>2, <1>3, <2>1
  <2>2. CASE i # 1
    <3>0. i \in 1..(Len(c) + 1)
      BY <1>3
    <3>1. /\ i - 1 \in 1..Len(c) /\ h + (i - 1) = (h - 1) + i
          /\ (h - 1) + i \in 1..Len(m) /\ (h - 1) + i # h
      BY <1>1, <2>2, <3>0
    <3>2. c[i - 1] = m[h + (i - 1)]
      BY <1>1, <3>1
    <3> QED BY <1>2, <1>3, <2>2, <3>0, <3>1, <3>2
  <2> QED BY <2>1, <2>2
<1>5. Len(c2) = Len(m2) - (h - 1) /\ h - 1 \in 0..Len(m2)
  BY <1>1, <1>2, <1>3
<1> QED BY <1>2, <1>4, <1>5 DEF Holds, SeqHeld, Inserted, S

(* Erasing behind the head and in what is expected agree. *)
LEMMA HeldErased ==
    ASSUME NEW m, NEW h, NEW c, Holds(m, h, c), NEW p \in 0..Len(c),
           NEW n \in 0..(Len(c) - p),
           NEW m2, NEW c2, Erased(m2, m, h + p, n), Erased(c2, c, p, n)
    PROVE  Holds(m2, h, c2)
<1>1. /\ Len(m) \in Nat /\ Len(c) \in Nat /\ h \in Nat /\ h <= Len(m) /\ p \in Nat
      /\ n \in Nat /\ p + n <= Len(c)
      /\ Len(c) = Len(m) - h /\ \A i \in 1..Len(c) : c[i] = m[h + i]
  BY DEF Holds, SeqHeld
<1>2. /\ Len(m2) = Len(m) - n
      /\ \A i \in 1..(Len(m) - n) : m2[i] = IF i <= h + p THEN m[i] ELSE m[i + n]
  BY DEF Erased
<1>3. /\ Len(c2) = Len(c) - n
      /\ \A i \in 1..(Len(c) - n) : c2[i] = IF i <= p THEN c[i] ELSE c[i + n]
  BY DEF Erased
<1>4. ASSUME NEW i \in 1..Len(c2) PROVE c2[i] = m2[h + i]
  <2>1. /\ h + i \in 1..(Len(m) - n) /\ i \in 1..(Len(c) - n)
        /\ i + n \in 1..Len(c) /\ (h + i) + n = h + (i + n) /\ i \in 1..Len(c)
    BY <1>1, <1>3
  <2>2. CASE i <= p
    BY <1>1, <1>2, <1>3, <2>1, <2>2
  <2>3. CASE i > p
    <3>1. m2[h + i] = m[(h + i) + n]
      BY <1>1, <1>2, <2>1, <2>3
    <3>2. c2[i] = c[i + n]
      BY <1>1, <1>3, <2>1, <2>3
    <3>3. c[i + n] = m[h + (i + n)]
      BY <1>1, <2>1
    <3> QED BY <2>1, <3>1, <3>2, <3>3
  <2> QED BY <1>1, <2>1, <2>2, <2>3
<1>5. Len(c2) = Len(m2) - h /\ h \in 0..Len(m2)
  BY <1>1, <1>2, <1>3
<1> QED BY <1>4, <1>5 DEF Holds, SeqHeld, Erased

(* So does moving the head over the first items. *)
LEMMA HeldConsumed ==
    ASSUME NEW m, NEW h, NEW c, Holds(m, h, c), NEW n \in 0..Len(c),
           NEW c2, Erased(c2, c, 0, n)
    PROVE  Holds(m, h + n, c2)
<1>1. /\ Len(m) \in Nat /\ Len(c) \in Nat /\ h \in Nat /\ h <= Len(m) /\ n \in Nat
      /\ n <= Len(c) /\ Len(c) = Len(m) - h /\ \A i \in 1..Len(c) : c[i] = m[h + i]
  BY DEF Holds, SeqHeld
<1>2. Len(c2) = Len(c) - n /\ \A i \in 1..(Len(c) - n) : c2[i] = c[i + n]
  BY <1>1 DEF Erased
<1>3. ASSUME NEW i \in 1..Len(c2) PROVE c2[i] = m[(h + n) + i]
  <2>1. i + n \in 1..Len(c) /\ (h + n) + i = h + (i + n)
    BY <1>1, <1>2
  <2> QED BY <1>1, <1>2, <2>1
<1>4. Len(c2) = Len(m) - (h + n) /\ h + n \in 0..Len(m)
  BY <1>1, <1>2
<1> QED BY <1>3, <1>4 DEF Holds, SeqHeld, Erased

(* Erasing what is before the head changes nothing. *)
LEMMA HeldCompacted ==
    ASSUME NEW m, NEW h, NEW c, Holds(m, h, c), NEW m2, Erased(m2, m, 0, h)
    PROVE  Holds(m2, 0, c) /\ Len(m2) = Len(m) - h
<1>1. /\ Len(m) \in Nat /\ Len(c) \in Nat /\ h \in Nat /\ h <= Len(m)
      /\ Len(c) = Len(m) - h /\ \A i \in 1..Len(c) : c[i] = m[h + i]
  BY DEF Holds, SeqHeld
<1>2. Len(m2) = Len(m) - h /\ \A i \in 1..(Len(m) - h) : m2[i] = m[i + h]
  BY <1>1 DEF Erased
<1>3. ASSUME NEW i \in 1..Len(c) PROVE c[i] = m2[0 + i]
  BY <1>1, <1>2
<1>4. Len(c) = Len(m2) - 0 /\ 0 \in 0..Len(m2)
  BY <1>1, <1>2
<1> QED BY <1>2, <1>3, <1>4 DEF Holds, SeqHeld, Erased

-----------------------------------------------------------------------------
(* The deque.  The compaction that some calls end with, or begin with.      *)
LEMMA Compacts ==
    ASSUME NEW m, NEW h, NEW c, Holds(m, h, c)
    PROVE  Holds(Seqs!Compacted(m, h), 0, c) /\ Len(Seqs!Compacted(m, h)) = Len(m) - h
<1>1. /\ m \in Seq(Seqs!Items) /\ h \in 0..Len(m) /\ h \in Nat /\ 0 \in 0..Len(m)
      /\ Len(m) \in Nat
  BY DEF Holds
<1>2. CASE h > 0
  <2>1. Erased(Seqs!VectorErase(m, 0, h), m, 0, Fewer(h, Len(m) - 0))
    BY <1>1, VectorErases
  <2>2. Fewer(h, Len(m) - 0) = h
    BY <1>1 DEF Fewer
  <2>3. Erased(Seqs!VectorErase(m, 0, h), m, 0, h)
    BY <2>1, <2>2
  <2>4. Seqs!Compacted(m, h) = Seqs!VectorErase(m, 0, h)
    BY <1>2 DEF Seqs!Compacted
  <2> QED BY <2>3, <2>4, HeldCompacted
<1>3. CASE h = 0
  BY <1>1, <1>3 DEF Seqs!Compacted
<1> QED BY <1>1, <1>2, <1>3

(* The compaction that a call may end with (AutoCompact). *)
LEMMA AutoCompacts ==
    ASSUME NEW m, NEW h, NEW c, Holds(m, h, c), Seqs!AutoCompact(m, h)
    PROVE  Holds(seq_mem', seq_head', c) /\ Len(seq_mem') <= Len(m)
<1>1. h \in 0..Len(m) /\ Len(m) \in Nat
  BY DEF Holds
<1>2. CASE Seqs!Crowded(m, h)
  BY <1>1, <1>2, Compacts DEF Seqs!AutoCompact
<1>3. CASE ~Seqs!Crowded(m, h)
  BY <1>1, <1>3 DEF Seqs!AutoCompact
<1> QED BY <1>2, <1>3

(* Inserting in the items held. *)
LEMMA InsertsAt ==
    ASSUME NEW c \in Seq(Seqs!Items), NEW p \in 0..Len(c), NEW a \in Seqs!Items
    PROVE  Inserted(Seqs!InsertAt(c, p + 1, a), c, p, a)
<1>1. (p + 1) - 1 = p
  OBVIOUS
<1>2. Seqs!InsertAt(c, p + 1, a) = Seqs!VectorInsert(c, p, a)
  BY <1>1, Zenon DEF Seqs!InsertAt, Seqs!VectorInsert
<1> QED BY <1>2, VectorInserts

(* Grow leaves room for what it is asked for. *)
LEMMA GrownFits ==
    ASSUME Seqs!ContainersAssumption, seq_alloc \in Nat, NEW n \in Nat
    PROVE  Seqs!Grown(n) \in Nat /\ n <= Seqs!Grown(n)
BY DEF Seqs!Grown, Seqs!ContainersAssumption

(* What holds of a deque, and what has to. *)
LEMMA SeqBefore ==
    ASSUME SeqInv, seq_kind # "ring"
    PROVE  /\ Holds(seq_mem, seq_head, seq_content) /\ seq_alloc \in Nat
           /\ Len(seq_mem) <= seq_alloc /\ Seqs!Size = Len(seq_content)
           /\ seq_mem \in Seq(Seqs!Items) /\ seq_content \in Seq(Seqs!Items)
           /\ seq_head \in 0..Len(seq_mem)
<1>1. Seqs!TypeOK /\ SeqHeld(seq_mem, seq_head, seq_content)
  BY DEF SeqInv
<1> QED BY <1>1 DEF Holds, SeqHeld, Seqs!TypeOK, Seqs!Size

(* What a step of a deque, an ordered one or a set has to leave. *)
LEMMA SeqAfter ==
    ASSUME SeqInv, seq_kind # "ring", seq_kind' = seq_kind, seq_tail' = seq_tail,
           Holds(seq_mem', seq_head', seq_content'),
           seq_alloc' \in Nat, Len(seq_mem') <= seq_alloc',
           seq_kind \in {"odeque", "set"} => SeqSorted(seq_mem', seq_head'),
           seq_kind = "set" => seq_head' = 0 /\ SeqApart(seq_mem')
    PROVE  SeqInv'
<1>1. Seqs!TypeOK
  BY DEF SeqInv
<1>2. Seqs!TypeOK'
  BY <1>1 DEF Seqs!TypeOK, Holds
<1> QED BY <1>2 DEF SeqInv, Holds

(* Insert, into a slot before the head or between the items. *)
LEMMA DequeInsertKeeps ==
    ASSUME Seqs!ContainersAssumption, SeqInv, NEW pos, NEW arg \in Seqs!Items,
           Seqs!DequeInsert(pos, arg)
    PROVE  SeqInv'
<1> DEFINE m == seq_mem
           h == seq_head
           c == seq_content
           c2 == Seqs!InsertAt(c, pos + 1, arg)
<1>1. /\ seq_kind = "deque" /\ pos \in 0..Seqs!Size
      /\ seq_content' = c2 /\ seq_kind' = seq_kind /\ seq_tail' = seq_tail
  BY DEF Seqs!DequeInsert
<1>2. /\ Holds(m, h, c) /\ seq_alloc \in Nat /\ Len(m) <= seq_alloc
      /\ pos \in 0..Len(c) /\ m \in Seq(Seqs!Items) /\ c \in Seq(Seqs!Items)
      /\ h \in 0..Len(m) /\ Len(m) \in Nat /\ Len(c) \in Nat
      /\ Len(c) = Len(m) - h
  BY <1>1, SeqBefore DEF Holds, SeqHeld
<1>3. Inserted(c2, c, pos, arg)
  BY <1>2, InsertsAt
<1> HIDE DEF m, h, c, c2
<1>4. CASE pos = 0 /\ h >= 1
  <2>1. seq_head' = h - 1 /\ seq_mem' = [m EXCEPT ![h] = arg] /\ seq_alloc' = seq_alloc
    BY <1>4, Zenon DEF Seqs!DequeInsert, m, h
  <2>2. Inserted(c2, c, 0, arg)
    BY <1>3, <1>4
  <2>3. Holds(m, h, c) /\ h >= 1 /\ seq_mem' = [m EXCEPT ![h] = arg]
    BY <1>2, <1>4, <2>1
  <2>4. Holds(seq_mem', h - 1, c2)
    BY <2>2, <2>3, HeldBack
  <2>5. Len(seq_mem') = Len(m)
    BY <2>2, <2>3, HeldBack
  <2> QED BY <1>1, <1>2, <2>1, <2>4, <2>5, SeqAfter
<1>5. CASE ~(pos = 0 /\ h >= 1)
  <2> DEFINE crowded == Seqs!Crowded(m, h)
             v == IF crowded THEN Seqs!Compacted(m, h) ELSE m
             g == IF crowded THEN 0 ELSE h
  <2>1. /\ seq_head' = g /\ seq_mem' = Seqs!VectorInsert(v, g + pos, arg)
        /\ seq_alloc' = Seqs!Grown(Len(v) + 1)
    BY <1>5 DEF Seqs!DequeInsert, m, h
  <2>2. Holds(v, g, c)
    BY <1>2, Compacts
  <2> HIDE DEF v, g
  <2>3. /\ v \in Seq(Seqs!Items) /\ Len(v) \in Nat /\ g \in 0..Len(v)
        /\ Len(c) = Len(v) - g
    BY <2>2 DEF Holds, SeqHeld
  <2>4. g + pos \in 0..Len(v)
    BY <1>2, <2>3
  <2>5. Inserted(seq_mem', v, g + pos, arg)
    BY <2>1, <2>3, <2>4, VectorInserts
  <2>6. Holds(seq_mem', g, c2)
    BY <1>2, <1>3, <2>2, <2>5, HeldInserted
  <2>7. Len(seq_mem') = Len(v) + 1
    BY <2>5 DEF Inserted
  <2>8. seq_alloc' \in Nat /\ Len(v) + 1 <= seq_alloc'
    BY <1>2, <2>1, <2>3, GrownFits
  <2> QED BY <1>1, <2>1, <2>6, <2>7, <2>8, SeqAfter
<1> QED BY <1>4, <1>5

(* PushBack of several items. *)
LEMMA DequePushBackKeeps ==
    ASSUME Seqs!ContainersAssumption, SeqInv, NEW a \in Seqs!Items, NEW b \in Seqs!Items,
           Seqs!DequePushBack(<<a, b>>)
    PROVE  SeqInv'
<1> DEFINE S == Seqs!Items
           m == seq_mem
           h == seq_head
           c == seq_content
           w == <<a, b>>
<1>1. /\ seq_kind = "deque" /\ Seqs!AutoCompact(m \o w, h)
      /\ seq_alloc' = Seqs!Grown(Len(m) + Len(w)) /\ seq_content' = c \o w
      /\ seq_kind' = seq_kind /\ seq_tail' = seq_tail
  BY DEF Seqs!DequePushBack
<1>2. /\ seq_alloc \in Nat /\ m \in Seq(S) /\ c \in Seq(S)
      /\ h \in 0..Len(m) /\ h \in Nat /\ Len(m) \in Nat /\ Len(c) \in Nat
      /\ Len(c) = Len(m) - h /\ \A i \in 1..Len(c) : c[i] = m[h + i]
  BY <1>1, SeqBefore DEF Holds, SeqHeld
<1>3. w \in Seq(S) /\ Len(w) = 2
  OBVIOUS
<1> HIDE DEF S, m, h, c, w
<1>4. /\ m \o w \in Seq(S) /\ Len(m \o w) = Len(m) + Len(w)
      /\ \A i \in 1..(Len(m) + Len(w)) :
             (m \o w)[i] = IF i <= Len(m) THEN m[i] ELSE w[i - Len(m)]
  BY <1>2, <1>3, ConcatProperties
<1>5. /\ c \o w \in Seq(S) /\ Len(c \o w) = Len(c) + Len(w)
      /\ \A i \in 1..(Len(c) + Len(w)) :
             (c \o w)[i] = IF i <= Len(c) THEN c[i] ELSE w[i - Len(c)]
  BY <1>2, <1>3, ConcatProperties
<1> DEFINE m2 == m \o w
           c2 == c \o w
<1> HIDE DEF m2, c2
<1>6. ASSUME NEW i \in 1..Len(c2) PROVE c2[i] = m2[h + i]
  <2>1. /\ i \in 1..(Len(c) + Len(w)) /\ h + i \in 1..(Len(m) + Len(w))
        /\ (h + i) - Len(m) = i - Len(c) /\ (i <= Len(c) <=> h + i <= Len(m))
    BY <1>2, <1>3, <1>5 DEF c2
  <2> QED BY <1>2, <1>4, <1>5, <2>1 DEF c2, m2
<1>7. Len(c2) = Len(m2) - h /\ h \in 0..Len(m2)
  BY <1>2, <1>3, <1>4, <1>5 DEF c2, m2
<1>8. Holds(m2, h, c2)
  BY <1>4, <1>5, <1>6, <1>7 DEF Holds, SeqHeld, S, c2, m2
<1>9. Holds(seq_mem', seq_head', c2) /\ Len(seq_mem') <= Len(m2)
  BY <1>1, <1>8, AutoCompacts DEF m2
<1>10. seq_alloc' \in Nat /\ Len(m2) <= seq_alloc'
  BY <1>1, <1>2, <1>3, <1>4, GrownFits DEF m2
<1>11. Len(seq_mem') <= seq_alloc'
  <2>1. Len(seq_mem') \in Nat /\ Len(m2) \in Nat
    BY <1>4, <1>9 DEF Holds, m2
  <2> QED BY <1>9, <1>10, <2>1
<1> QED BY <1>1, <1>9, <1>10, <1>11, SeqAfter DEF c2

(* Erase, at the head or behind it. *)
LEMMA DequeEraseKeeps ==
    ASSUME Seqs!ContainersAssumption, SeqInv, NEW pos, NEW num,
           Seqs!DequeErase(pos, num)
    PROVE  SeqInv'
<1> DEFINE m == seq_mem
           h == seq_head
           c == seq_content
           n == Fewer(num, Len(c) - pos)
           c2 == Seqs!VectorErase(c, pos, num)
<1>1. /\ seq_kind = "deque" /\ pos \in 0..(Seqs!Size - 1) /\ num \in 1..Seqs!Size
      /\ seq_content' = c2 /\ seq_kind' = seq_kind /\ seq_tail' = seq_tail
      /\ seq_alloc' = seq_alloc
  BY DEF Seqs!DequeErase
<1>2. /\ Holds(m, h, c) /\ seq_alloc \in Nat /\ Len(m) <= seq_alloc
      /\ m \in Seq(Seqs!Items) /\ c \in Seq(Seqs!Items)
      /\ h \in 0..Len(m) /\ h \in Nat /\ Len(m) \in Nat /\ Len(c) \in Nat
      /\ Len(c) = Len(m) - h /\ Seqs!Size = Len(c)
  BY <1>1, SeqBefore DEF Holds, SeqHeld
<1>3. /\ pos \in 0..Len(c) /\ num \in Nat /\ num <= Len(c) /\ n \in 0..(Len(c) - pos)
      /\ pos = 0 => n = num
  BY <1>1, <1>2 DEF Fewer
<1>4. Erased(c2, c, pos, n)
  BY <1>2, <1>3, VectorErases
<1>5. Fewer(num, Len(m) - (h + pos)) = n
  <2>1. Len(m) - (h + pos) = Len(c) - pos
    BY <1>2, <1>3
  <2> QED BY <2>1
<1> HIDE DEF m, h, c, c2, n
<1>6. CASE pos = 0
  <2>1. Seqs!AutoCompact(m, h + n)
    BY <1>3, <1>6 DEF Seqs!DequeErase, m, h
  <2>2. Holds(m, h + n, c2)
    BY <1>2, <1>3, <1>4, <1>6, HeldConsumed
  <2>3. Holds(seq_mem', seq_head', c2) /\ Len(seq_mem') <= Len(m)
    BY <2>1, <2>2, AutoCompacts
  <2>4. Len(seq_mem') \in Nat
    BY <2>3 DEF Holds
  <2> QED BY <1>1, <1>2, <2>3, <2>4, SeqAfter
<1>7. CASE pos # 0
  <2> DEFINE v == Seqs!VectorErase(m, h + pos, num)
  <2>1. Seqs!AutoCompact(v, h)
    BY <1>7 DEF Seqs!DequeErase, m, h
  <2>2. h + pos \in 0..Len(m)
    BY <1>2, <1>3
  <2>3. Erased(v, m, h + pos, n)
    BY <1>2, <1>3, <1>5, <2>2, VectorErases
  <2> HIDE DEF v
  <2>4. Holds(v, h, c2)
    BY <1>2, <1>3, <1>4, <2>3, HeldErased
  <2>5. Holds(seq_mem', seq_head', c2) /\ Len(seq_mem') <= Len(v)
    BY <2>1, <2>4, AutoCompacts
  <2>6. Len(seq_mem') \in Nat /\ Len(v) = Len(m) - n /\ n \in Nat
    BY <1>3, <2>3, <2>5 DEF Holds, Erased
  <2> QED BY <1>1, <1>2, <2>5, <2>6, SeqAfter
<1> QED BY <1>6, <1>7

(* PopBack. *)
LEMMA DequePopBackKeeps ==
    ASSUME SeqInv, Seqs!DequePopBack
    PROVE  SeqInv'
<1> DEFINE S == Seqs!Items
           m == seq_mem
           h == seq_head
           c == seq_content
<1>1. /\ seq_kind = "deque" /\ Seqs!Size > 0
      /\ seq_mem' = Seqs!Front(m) /\ seq_content' = Seqs!Front(c)
      /\ seq_kind' = seq_kind /\ seq_tail' = seq_tail /\ seq_head' = h
      /\ seq_alloc' = seq_alloc
  BY DEF Seqs!DequePopBack
<1>2. /\ seq_alloc \in Nat /\ Len(m) <= seq_alloc
      /\ m \in Seq(S) /\ c \in Seq(S)
      /\ h \in 0..Len(m) /\ h \in Nat /\ Len(m) \in Nat /\ Len(c) \in Nat
      /\ Len(c) = Len(m) - h /\ \A i \in 1..Len(c) : c[i] = m[h + i]
      /\ Seqs!Size = Len(c)
  BY <1>1, SeqBefore DEF Holds, SeqHeld
<1>3. /\ Len(m) > 0 /\ Len(c) > 0
  BY <1>1, <1>2
<1> HIDE DEF S, m, h, c
<1>4. /\ seq_mem' \in Seq(S) /\ Len(seq_mem') = Len(m) - 1
      /\ \A i \in 1..(Len(m) - 1) : seq_mem'[i] = m[i]
  BY <1>1, <1>2, <1>3 DEF Seqs!Front
<1>5. /\ seq_content' \in Seq(S) /\ Len(seq_content') = Len(c) - 1
      /\ \A i \in 1..(Len(c) - 1) : seq_content'[i] = c[i]
  BY <1>1, <1>2, <1>3 DEF Seqs!Front
<1>6. ASSUME NEW i \in 1..Len(seq_content') PROVE seq_content'[i] = seq_mem'[h + i]
  <2>1. i \in 1..(Len(c) - 1) /\ h + i \in 1..(Len(m) - 1) /\ i \in 1..Len(c)
    BY <1>2, <1>5
  <2> QED BY <1>2, <1>4, <1>5, <2>1
<1>7. /\ Len(seq_content') = Len(seq_mem') - h /\ h \in 0..Len(seq_mem')
      /\ Len(seq_mem') <= seq_alloc
  BY <1>2, <1>3, <1>4, <1>5
<1>8. Holds(seq_mem', h, seq_content')
  BY <1>4, <1>5, <1>6, <1>7 DEF Holds, SeqHeld, S
<1> QED BY <1>1, <1>2, <1>7, <1>8, SeqAfter DEF h

(* Flush and Clear. *)
LEMMA FlushKeeps ==
    ASSUME SeqInv, Seqs!Flush
    PROVE  SeqInv'
<1>1. Holds(<<>>, 0, <<>>)
  BY DEF Holds, SeqHeld
<1>2. /\ seq_kind = "deque" /\ seq_mem' = <<>> /\ seq_head' = 0 /\ seq_content' = <<>>
      /\ seq_alloc' \in {seq_alloc, 0} /\ seq_kind' = seq_kind /\ seq_tail' = seq_tail
  BY DEF Seqs!Flush
<1>3. seq_alloc' \in Nat
  BY <1>2, SeqBefore
<1> QED BY <1>1, <1>2, <1>3, SeqAfter

-----------------------------------------------------------------------------
(* The bisection.  The function that it computes is the one its equation    *)
(* defines: windows only become smaller.                                    *)
BisectStep(g, w, arg) ==
    IF w.lo >= w.hi THEN w.last
    ELSE LET mid == (w.lo + w.hi) \div 2
         IN  IF Seqs!Greater(arg, seq_mem[mid + 1])
             THEN g[Seqs!Window(mid + 1, w.hi, mid)]
             ELSE IF Seqs!Greater(seq_mem[mid + 1], arg)
             THEN g[Seqs!Window(w.lo, mid, mid)]
             ELSE mid
Bisects(g, arg) == g = [w \in Seqs!Windows |-> BisectStep(g, w, arg)]
BisectsTo(g, arg, n) ==
    g = [w \in Seqs!Windows |-> IF w.hi - w.lo <= n THEN BisectStep(g, w, arg) ELSE 0]

(* The middle of a window is in it. *)
LEMMA Middle ==
    ASSUME NEW lo \in Nat, NEW hi \in Nat, lo < hi
    PROVE  (lo + hi) \div 2 \in lo..(hi - 1)
OBVIOUS

(* The two windows that are looked at next. *)
LEMMA Halves ==
    ASSUME seq_mem \in Seq(Seqs!Items), NEW w \in Seqs!Windows, w.lo < w.hi,
           NEW mid, mid = (w.lo + w.hi) \div 2
    PROVE  /\ w.lo \in Nat /\ w.hi \in Nat /\ w.hi <= Len(seq_mem)
           /\ mid \in Nat /\ w.lo <= mid /\ mid < w.hi
           /\ Seqs!Window(mid + 1, w.hi, mid) \in Seqs!Windows
           /\ Seqs!Window(w.lo, mid, mid) \in Seqs!Windows
<1>1. /\ w.lo \in 0..Len(seq_mem) /\ w.hi \in 0..Len(seq_mem) /\ Len(seq_mem) \in Nat
      /\ w.lo \in Nat /\ w.hi \in Nat
  BY DEF Seqs!Windows
<1>2. mid \in w.lo..(w.hi - 1)
  BY <1>1, Middle
<1>3. /\ mid + 1 \in 0..Len(seq_mem) /\ mid \in 0..Len(seq_mem) /\ mid \in Nat
      /\ w.lo <= mid /\ mid < w.hi /\ w.hi <= Len(seq_mem)
  BY <1>1, <1>2
<1> QED BY <1>1, <1>3 DEF Seqs!Windows, Seqs!Window

(* A step looks at smaller windows only. *)
LEMMA StepAlike ==
    ASSUME seq_mem \in Seq(Seqs!Items), NEW w \in Seqs!Windows, NEW arg, NEW f, NEW g,
           \A v \in Seqs!Windows : v.hi - v.lo < w.hi - w.lo => f[v] = g[v]
    PROVE  BisectStep(f, w, arg) = BisectStep(g, w, arg)
<1>1. CASE w.lo >= w.hi
  BY <1>1 DEF BisectStep
<1>2. CASE ~(w.lo >= w.hi)
  <2>1. w.lo \in Nat /\ w.hi \in Nat
    BY DEF Seqs!Windows
  <2> DEFINE mid == (w.lo + w.hi) \div 2
             a == Seqs!Window(mid + 1, w.hi, mid)
             b == Seqs!Window(w.lo, mid, mid)
  <2>2. /\ mid \in Nat /\ w.lo <= mid /\ mid < w.hi
        /\ a \in Seqs!Windows /\ b \in Seqs!Windows
    BY <1>2, <2>1, Halves
  <2>3. a.hi = w.hi /\ a.lo = mid + 1 /\ b.hi = mid /\ b.lo = w.lo
    BY DEF Seqs!Window
  <2>4. BisectStep(f, w, arg) =
            IF Seqs!Greater(arg, seq_mem[mid + 1]) THEN f[a]
            ELSE IF Seqs!Greater(seq_mem[mid + 1], arg) THEN f[b] ELSE mid
    BY <1>2 DEF BisectStep
  <2>5. BisectStep(g, w, arg) =
            IF Seqs!Greater(arg, seq_mem[mid + 1]) THEN g[a]
            ELSE IF Seqs!Greater(seq_mem[mid + 1], arg) THEN g[b] ELSE mid
    BY <1>2 DEF BisectStep
  <2> HIDE DEF mid, a, b
  <2>6. a.hi - a.lo < w.hi - w.lo /\ b.hi - b.lo < w.hi - w.lo
    BY <2>1, <2>2, <2>3
  <2>7. f[a] = g[a] /\ f[b] = g[b]
    BY <2>2, <2>6
  <2> QED BY <2>4, <2>5, <2>7
<1> QED BY <1>1, <1>2

(* There is such a function: the least width without one leads to one. *)
LEMMA BisectExists ==
    ASSUME seq_mem \in Seq(Seqs!Items), NEW arg
    PROVE  \E g : Bisects(g, arg)
<1> DEFINE Bad == {n \in Nat : ~\E g : BisectsTo(g, arg, n)}
           W == Seqs!Windows
<1>1. \A w \in W : w.lo \in Nat /\ w.hi \in Nat /\ w.hi - w.lo \in Int
                   /\ w.hi - w.lo <= Len(seq_mem)
  BY DEF Seqs!Windows
<1> HIDE DEF W
<1>2. Bad = {}
  <2> SUFFICES ASSUME Bad # {} PROVE FALSE
    OBVIOUS
  <2>1. PICK n \in Bad : \A j \in Bad : n <= j
    BY Fat!LeastNatural
  <2>2. n \in Nat /\ ~\E g : BisectsTo(g, arg, n)
    OBVIOUS
  <2>3. PICK f : \A w \in W : w.hi - w.lo < n => f[w] = BisectStep(f, w, arg)
    <3>1. CASE n = 0
      <4> DEFINE f == [w \in W |-> w.last]
      <4>1. \A w \in W : w.hi - w.lo < n => f[w] = BisectStep(f, w, arg)
        BY <1>1, <3>1 DEF BisectStep
      <4> QED BY <4>1
    <3>2. CASE n # 0
      <4>1. n - 1 \in Nat /\ n - 1 \notin Bad
        <5> HIDE DEF Bad
        <5> QED BY <2>1, <2>2, <3>2
      <4>2. PICK f : BisectsTo(f, arg, n - 1)
        BY <4>1
      <4>3. ASSUME NEW w \in W, w.hi - w.lo < n PROVE f[w] = BisectStep(f, w, arg)
        <5>1. w.hi - w.lo <= n - 1
          BY <1>1, <2>2, <4>3
        <5> DEFINE F(v) == IF v.hi - v.lo <= n - 1 THEN BisectStep(f, v, arg) ELSE 0
        <5>2. f = [v \in W |-> F(v)]
          BY <4>2 DEF BisectsTo, W
        <5> HIDE DEF F
        <5>3. f[w] = F(w)
          BY <5>2, Zenon
        <5> QED BY <5>1, <5>3 DEF F
      <4> QED BY <4>3
    <3> QED BY <3>1, <3>2
  <2> DEFINE F(w) == IF w.hi - w.lo <= n THEN BisectStep(f, w, arg) ELSE 0
             g == [w \in W |-> F(w)]
             G(w) == IF w.hi - w.lo <= n THEN BisectStep(g, w, arg) ELSE 0
  <2>4. ASSUME NEW w \in W PROVE F(w) = G(w)
    <3>1. CASE ~(w.hi - w.lo <= n)
      BY <3>1
    <3>2. CASE w.hi - w.lo <= n
      <4>1. ASSUME NEW v \in W, v.hi - v.lo < w.hi - w.lo PROVE f[v] = g[v]
        <5>1. v.hi - v.lo < n /\ v.hi - v.lo <= n
          BY <1>1, <2>2, <3>2, <4>1
        <5>2. g[v] = F(v)
          <6> HIDE DEF F
          <6> QED BY DEF g
        <5> HIDE DEF g
        <5>3. F(v) = BisectStep(f, v, arg)
          BY <5>1
        <5> QED BY <2>3, <5>1, <5>2, <5>3
      <4> HIDE DEF g
      <4>2. BisectStep(f, w, arg) = BisectStep(g, w, arg)
        BY <4>1, StepAlike DEF W
      <4> QED BY <3>2, <4>2
    <3> QED BY <3>1, <3>2
  <2>5. g = [w \in W |-> G(w)]
    <3> HIDE DEF F, G
    <3> QED BY <2>4 DEF g
  <2>6. BisectsTo(g, arg, n)
    <3> HIDE DEF g
    <3> QED BY <2>5 DEF BisectsTo, W
  <2> HIDE DEF g
  <2> QED BY <2>2, <2>6
<1>3. Len(seq_mem) \in Nat
  OBVIOUS
<1>4. PICK g : BisectsTo(g, arg, Len(seq_mem))
  BY <1>2, <1>3
<1> DEFINE F(w) == BisectStep(g, w, arg)
           G(w) == IF w.hi - w.lo <= Len(seq_mem) THEN BisectStep(g, w, arg) ELSE 0
<1>5. g = [w \in W |-> G(w)]
  BY <1>4 DEF BisectsTo, W
<1>6. \A w \in W : G(w) = F(w)
  BY <1>1
<1>7. g = [w \in W |-> F(w)]
  <2> HIDE DEF F, G
  <2> QED BY <1>5, <1>6
<1> QED BY <1>7 DEF Bisects, W

-----------------------------------------------------------------------------
(* The place behind all items from start on that are not greater. *)
SeqPlace(m, start, arg, pos) ==
    /\ pos \in start..Len(m)
    /\ \A i \in (start + 1)..Len(m) : i <= pos <=> m[i][1] <= arg[1]

(* A window that the bisection comes to, and what it returns. *)
Ahead(start, w, arg) ==
    /\ start <= w.lo /\ w.lo <= w.hi /\ start <= w.last
    /\ w.last = w.hi \/ w.last = w.lo - 1
    /\ \A i \in (start + 1)..w.lo : seq_mem[i][1] <= arg[1]
Behind(start, r, arg) ==
    /\ r \in start..Len(seq_mem)
    /\ \A i \in (start + 1)..r : seq_mem[i][1] <= arg[1]

(* Keys are integers. *)
LEMMA ItemKeyed ==
    ASSUME Seqs!ContainersAssumption
    PROVE  \A x \in Seqs!Items : x[1] \in Int
BY DEF Seqs!Items, Seqs!ContainersAssumption

(* What a step returns has no greater item before it. *)
LEMMA StepReturns ==
    ASSUME Seqs!ContainersAssumption, seq_mem \in Seq(Seqs!Items),
           NEW start \in 0..Len(seq_mem), SeqSorted(seq_mem, start),
           NEW arg \in Seqs!Items, NEW g, NEW w \in Seqs!Windows, Ahead(start, w, arg),
           \A v \in Seqs!Windows :
               v.hi - v.lo < w.hi - w.lo /\ Ahead(start, v, arg) =>
                   Behind(start, g[v], arg)
    PROVE  Behind(start, BisectStep(g, w, arg), arg)
<1>1. /\ Len(seq_mem) \in Nat /\ start \in Nat /\ start <= w.lo /\ w.lo <= w.hi
      /\ w.lo \in Nat /\ w.hi \in Nat /\ w.last \in Nat /\ w.last <= Len(seq_mem)
      /\ w.hi <= Len(seq_mem) /\ start <= w.last
      /\ (w.last = w.hi \/ w.last = w.lo - 1)
      /\ \A i \in (start + 1)..w.lo : seq_mem[i][1] <= arg[1]
  BY DEF Seqs!Windows, Ahead
<1>2. arg[1] \in Int /\ \A i \in 1..Len(seq_mem) : seq_mem[i][1] \in Int
  BY ItemKeyed
<1>3. CASE w.lo >= w.hi
  <2>1. w.last <= w.lo
    BY <1>1, <1>3
  <2>2. \A i \in (start + 1)..w.last : seq_mem[i][1] <= arg[1]
    BY <1>1, <2>1
  <2> QED BY <1>1, <1>3, <2>2 DEF BisectStep, Behind
<1>4. CASE ~(w.lo >= w.hi)
  <2> DEFINE mid == (w.lo + w.hi) \div 2
             a == Seqs!Window(mid + 1, w.hi, mid)
             b == Seqs!Window(w.lo, mid, mid)
  <2>1. /\ mid \in Nat /\ w.lo <= mid /\ mid < w.hi
        /\ a \in Seqs!Windows /\ b \in Seqs!Windows
    BY <1>1, <1>4, Halves
  <2>2. /\ a.hi = w.hi /\ a.lo = mid + 1 /\ a.last = mid
        /\ b.hi = mid /\ b.lo = w.lo /\ b.last = mid
    BY DEF Seqs!Window
  <2>3. BisectStep(g, w, arg) =
            IF Seqs!Greater(arg, seq_mem[mid + 1]) THEN g[a]
            ELSE IF Seqs!Greater(seq_mem[mid + 1], arg) THEN g[b] ELSE mid
    BY <1>4 DEF BisectStep
  <2> HIDE DEF mid, a, b
  <2>4. a.hi - a.lo < w.hi - w.lo /\ b.hi - b.lo < w.hi - w.lo
    BY <1>1, <2>1, <2>2
  <2>5. /\ mid + 1 \in 1..Len(seq_mem) /\ mid + 1 \in (start + 1)..Len(seq_mem)
        /\ mid \in start..Len(seq_mem)
    BY <1>1, <2>1
  <2>6. ASSUME seq_mem[mid + 1][1] <= arg[1], NEW i \in (start + 1)..(mid + 1)
        PROVE  seq_mem[i][1] <= arg[1]
    <3>1. i \in (start + 1)..Len(seq_mem) /\ i \in 1..Len(seq_mem) /\ i <= mid + 1
      BY <1>1, <2>1, <2>5
    <3>2. seq_mem[i][1] <= seq_mem[mid + 1][1]
      BY <2>5, <3>1 DEF SeqSorted
    <3> QED BY <1>2, <2>5, <2>6, <3>1, <3>2
  <2>7. CASE Seqs!Greater(arg, seq_mem[mid + 1])
    <3>1. seq_mem[mid + 1][1] <= arg[1]
      BY <1>2, <2>5, <2>7 DEF Seqs!Greater
    <3>2. Ahead(start, a, arg)
      BY <1>1, <2>1, <2>2, <2>6, <3>1 DEF Ahead
    <3> QED BY <2>1, <2>3, <2>4, <2>7, <3>2
  <2>8. CASE ~Seqs!Greater(arg, seq_mem[mid + 1]) /\ Seqs!Greater(seq_mem[mid + 1], arg)
    <3>1. Ahead(start, b, arg)
      BY <1>1, <2>1, <2>2 DEF Ahead
    <3> QED BY <2>1, <2>3, <2>4, <2>8, <3>1
  <2>9. CASE ~Seqs!Greater(arg, seq_mem[mid + 1]) /\ ~Seqs!Greater(seq_mem[mid + 1], arg)
    <3>1. seq_mem[mid + 1][1] <= arg[1]
      BY <1>2, <2>5, <2>9 DEF Seqs!Greater
    <3>2. \A i \in (start + 1)..mid : seq_mem[i][1] <= arg[1]
      BY <1>1, <2>1, <2>6, <3>1
    <3> QED BY <2>3, <2>5, <2>9, <3>2 DEF Behind
  <2> QED BY <2>7, <2>8, <2>9
<1> QED BY <1>3, <1>4

(* All items before the place that the bisection returns are not greater.   *)
LEMMA BisectedBehind ==
    ASSUME Seqs!ContainersAssumption, seq_mem \in Seq(Seqs!Items),
           NEW start \in 0..Len(seq_mem), SeqSorted(seq_mem, start),
           NEW arg \in Seqs!Items
    PROVE  Behind(start, Seqs!Bisected(arg, start), arg)
<1> DEFINE g == CHOOSE f : Bisects(f, arg)
           W == Seqs!Windows
           first == Seqs!Window(start, Len(seq_mem), Len(seq_mem))
<1>1. Seqs!Bisected(arg, start) = g[first]
  BY DEF Seqs!Bisected, Bisects, BisectStep
<1>2. Bisects(g, arg)
  <2> HIDE DEF W, first
  <2> QED BY BisectExists, Zenon
<1> HIDE DEF g, W
<1>3. \A w \in W : g[w] = BisectStep(g, w, arg)
  <2> DEFINE F(w) == BisectStep(g, w, arg)
  <2>1. g = [w \in W |-> F(w)]
    BY <1>2 DEF Bisects, W
  <2> HIDE DEF F
  <2>2. \A w \in W : g[w] = F(w)
    BY <2>1
  <2> QED BY <2>2 DEF F
<1> DEFINE Bad == {n \in Nat : \E w \in W :
                      w.hi - w.lo = n /\ Ahead(start, w, arg) /\ ~Behind(start, g[w], arg)}
<1>4. \A w \in W : w.lo \in Nat /\ w.hi \in Nat
  BY DEF Seqs!Windows, W
<1>5. Bad = {}
  <2> SUFFICES ASSUME Bad # {} PROVE FALSE
    OBVIOUS
  <2>1. PICK n \in Bad : \A j \in Bad : n <= j
    BY Fat!LeastNatural
  <2>2. n \in Nat
    OBVIOUS
  <2>3. PICK w \in W : /\ w.hi - w.lo = n /\ Ahead(start, w, arg)
                       /\ ~Behind(start, g[w], arg)
    OBVIOUS
  <2>4. ASSUME NEW v \in W, v.hi - v.lo < w.hi - w.lo, Ahead(start, v, arg)
        PROVE  Behind(start, g[v], arg)
    <3>1. v.hi - v.lo \in Nat
      BY <1>4, <2>4 DEF Ahead
    <3>2. v.hi - v.lo \notin Bad
      <4> HIDE DEF Bad
      <4> QED BY <2>1, <2>2, <2>3, <2>4, <3>1
    <3> QED BY <2>4, <3>1, <3>2
  <2>5. Behind(start, BisectStep(g, w, arg), arg)
    BY <2>3, <2>4, StepReturns DEF W
  <2> QED BY <1>3, <2>3, <2>5
<1>6. first \in W /\ Ahead(start, first, arg)
  <2>1. /\ first.lo = start /\ first.hi = Len(seq_mem) /\ first.last = Len(seq_mem)
        /\ Len(seq_mem) \in Nat
    BY DEF Seqs!Window
  <2>2. first \in W
    BY DEF W, Seqs!Windows, Seqs!Window
  <2> HIDE DEF first
  <2> QED BY <2>1, <2>2 DEF Ahead
<1> HIDE DEF first
<1>7. first.hi - first.lo \in Nat
  BY <1>4, <1>6 DEF Ahead
<1>8. Behind(start, g[first], arg)
  BY <1>5, <1>6, <1>7
<1> QED BY <1>1, <1>8

(* FindGreaterThan finds the place behind all that are not greater. *)
LEMMA FoundPlace ==
    ASSUME Seqs!ContainersAssumption, seq_mem \in Seq(Seqs!Items),
           NEW start \in 0..Len(seq_mem), SeqSorted(seq_mem, start),
           NEW arg \in Seqs!Items
    PROVE  SeqPlace(seq_mem, start, arg, Seqs!FindGreaterThan(arg, start))
<1> DEFINE m == seq_mem
           from == Seqs!Bisected(arg, start)
           Ends(p) == p = Len(m) \/ Seqs!Greater(m[p + 1], arg)
           Right(p) == /\ \A i \in from..(p - 1) : ~Seqs!Greater(m[i + 1], arg)
                       /\ Ends(p)
           P == {p \in from..Len(m) : Ends(p)}
<1>1. /\ from \in start..Len(m) /\ from \in Nat /\ start \in Nat /\ Len(m) \in Nat
      /\ from <= Len(m) /\ start <= from
      /\ \A i \in (start + 1)..from : m[i][1] <= arg[1]
  BY BisectedBehind DEF Behind
<1>2. arg[1] \in Int /\ \A i \in 1..Len(m) : m[i][1] \in Int
  BY ItemKeyed
<1>3. Seqs!FindGreaterThan(arg, start) = CHOOSE p \in from..Len(m) : Right(p)
  BY DEF Seqs!FindGreaterThan
<1> HIDE DEF m, from
<1>4. \E p \in from..Len(m) : Right(p)
  <2>1. P \in SUBSET Nat /\ Len(m) \in P
    BY <1>1
  <2>2. PICK p \in P : \A q \in P : p <= q
    BY <2>1, Fat!LeastNatural
  <2>3. p \in from..Len(m) /\ Ends(p) /\ p \in Nat
    BY <1>1, <2>2
  <2>4. ASSUME NEW i \in from..(p - 1) PROVE ~Seqs!Greater(m[i + 1], arg)
    <3>1. i \in from..Len(m) /\ i < p /\ i \in Nat
      BY <1>1, <2>3
    <3>2. i \notin P
      <4> HIDE DEF P
      <4> QED BY <2>2, <2>3, <3>1
    <3> QED BY <3>1, <3>2
  <2> QED BY <2>3, <2>4
<1> DEFINE pos == CHOOSE p \in from..Len(m) : Right(p)
<1>5. pos \in from..Len(m) /\ Right(pos)
  <2> HIDE DEF Right
  <2> QED BY <1>4
<1> HIDE DEF pos
<1>6. pos \in start..Len(m) /\ pos \in Nat
  BY <1>1, <1>5
<1>7. ASSUME NEW i \in (start + 1)..Len(m) PROVE i <= pos <=> m[i][1] <= arg[1]
  <2>1. i \in 1..Len(m) /\ i \in Nat
    BY <1>1
  <2>2. CASE i <= from
    BY <1>1, <1>5, <2>1, <2>2
  <2>3. CASE i > from /\ i <= pos
    <3>1. i - 1 \in from..(pos - 1) /\ (i - 1) + 1 = i
      BY <1>1, <1>6, <2>1, <2>3
    <3>2. ~Seqs!Greater(m[i], arg)
      BY <1>5, <3>1
    <3> QED BY <1>2, <2>1, <2>3, <3>2 DEF Seqs!Greater
  <2>4. CASE i > pos
    <3>1. pos # Len(m) /\ pos + 1 \in (start + 1)..Len(m) /\ pos + 1 <= i
          /\ pos + 1 \in 1..Len(m)
      BY <1>1, <1>6, <2>1, <2>4
    <3>2. Seqs!Greater(m[pos + 1], arg)
      BY <1>5, <3>1
    <3>3. m[pos + 1][1] <= m[i][1]
      BY <3>1 DEF SeqSorted, m
    <3> QED BY <1>2, <1>6, <2>1, <2>4, <3>1, <3>2, <3>3 DEF Seqs!Greater
  <2> QED BY <1>1, <1>6, <2>1, <2>2, <2>3, <2>4
<1>8. SeqPlace(m, start, arg, pos)
  BY <1>6, <1>7 DEF SeqPlace
<1> QED BY <1>3, <1>8 DEF pos, m

-----------------------------------------------------------------------------
(* What is expected of an insertion by order. *)
LEMMA InOrderIs ==
    ASSUME Seqs!ContainersAssumption, NEW m, NEW h, NEW c, Holds(m, h, c),
           NEW arg \in Seqs!Items, NEW pos, SeqPlace(m, h, arg, pos)
    PROVE  /\ pos - h \in 0..Len(c)
           /\ Seqs!InOrder(c, arg) = Seqs!InsertAt(c, (pos - h) + 1, arg)
<1> DEFINE Best(k) == \A i \in DOMAIN c : i <= k <=> ~Seqs!Greater(c[i], arg)
           n == CHOOSE k \in 0..Len(c) : Best(k)
<1>1. /\ m \in Seq(Seqs!Items) /\ c \in Seq(Seqs!Items) /\ h \in 0..Len(m) /\ h \in Nat
      /\ Len(m) \in Nat /\ Len(c) \in Nat /\ Len(c) = Len(m) - h
      /\ \A i \in 1..Len(c) : c[i] = m[h + i]
  BY DEF Holds, SeqHeld
<1>2. /\ pos \in h..Len(m) /\ pos \in Nat
      /\ \A i \in (h + 1)..Len(m) : i <= pos <=> m[i][1] <= arg[1]
  BY <1>1 DEF SeqPlace
<1>3. pos - h \in 0..Len(c)
  BY <1>1, <1>2
<1>4. arg[1] \in Int /\ \A i \in 1..Len(c) : c[i][1] \in Int
  BY <1>1, ItemKeyed
<1>5. DOMAIN c = 1..Len(c)
  BY <1>1
<1>6. \A i \in 1..Len(c) : i <= pos - h <=> ~Seqs!Greater(c[i], arg)
  <2> SUFFICES ASSUME NEW i \in 1..Len(c)
               PROVE  i <= pos - h <=> ~Seqs!Greater(c[i], arg)
    OBVIOUS
  <2>1. h + i \in (h + 1)..Len(m) /\ c[i] = m[h + i]
    BY <1>1
  <2>2. h + i <= pos <=> c[i][1] <= arg[1]
    BY <1>2, <2>1
  <2> QED BY <1>1, <1>2, <1>4, <2>2 DEF Seqs!Greater
<1>7. Best(pos - h)
  BY <1>5, <1>6
<1>8. n \in 0..Len(c) /\ Best(n)
  <2> HIDE DEF Best
  <2> QED BY <1>3, <1>7
<1> HIDE DEF n
<1>9. n = pos - h
  <2>1. \A i \in 1..Len(c) : i <= n <=> i <= pos - h
    BY <1>5, <1>6, <1>8
  <2>2. n \in Nat /\ pos - h \in Nat /\ n <= Len(c) /\ pos - h <= Len(c)
    BY <1>1, <1>3, <1>8
  <2>3. ASSUME n > pos - h PROVE FALSE
    <3>1. n \in 1..Len(c)
      BY <1>1, <2>2, <2>3
    <3> QED BY <2>1, <2>2, <2>3, <3>1
  <2>4. ASSUME n < pos - h PROVE FALSE
    <3>1. pos - h \in 1..Len(c)
      BY <1>1, <2>2, <2>4
    <3> QED BY <2>1, <2>2, <2>4, <3>1
  <2> QED BY <2>2, <2>3, <2>4
<1>10. Seqs!InOrder(c, arg) = Seqs!InsertAt(c, n + 1, arg)
  BY DEF Seqs!InOrder, n
<1> QED BY <1>3, <1>9, <1>10

(* The order is kept. *)
LEMMA SortedInserted ==
    ASSUME Seqs!ContainersAssumption, NEW m \in Seq(Seqs!Items), NEW h \in 0..Len(m),
           SeqSorted(m, h), NEW arg \in Seqs!Items, NEW pos, SeqPlace(m, h, arg, pos),
           NEW w, Inserted(w, m, pos, arg)
    PROVE  SeqSorted(w, h)
<1>1. /\ Len(m) \in Nat /\ h \in Nat /\ pos \in h..Len(m) /\ pos \in Nat
      /\ arg[1] \in Int /\ \A i \in 1..Len(m) : m[i][1] \in Int
      /\ \A i \in (h + 1)..Len(m) : i <= pos <=> m[i][1] <= arg[1]
  BY ItemKeyed DEF SeqPlace
<1>2. /\ Len(w) = Len(m) + 1
      /\ \A i \in 1..(Len(m) + 1) :
             w[i] = IF i <= pos THEN m[i] ELSE IF i = pos + 1 THEN arg ELSE m[i - 1]
  BY DEF Inserted
<1> SUFFICES ASSUME NEW i \in (h + 1)..Len(w), NEW j \in (h + 1)..Len(w), i <= j
             PROVE  w[i][1] <= w[j][1]
  BY DEF SeqSorted
<1>3. /\ i \in 1..(Len(m) + 1) /\ j \in 1..(Len(m) + 1) /\ i \in Nat /\ j \in Nat
      /\ i > h /\ j > h /\ h <= pos /\ pos <= Len(m)
  BY <1>1, <1>2
<1>4. \A k \in (h + 1)..Len(m) : k \in 1..Len(m)
  BY <1>1
<1>5. CASE j <= pos
  <2>1. i \in (h + 1)..Len(m) /\ j \in (h + 1)..Len(m) /\ i <= pos
    BY <1>1, <1>3, <1>5
  <2> QED BY <1>2, <1>3, <1>5, <2>1 DEF SeqSorted
<1>6. CASE j = pos + 1
  <2>1. CASE i = j
    BY <1>1, <1>2, <1>3, <1>6, <2>1
  <2>2. CASE i # j
    <3>1. i \in (h + 1)..Len(m) /\ i <= pos
      BY <1>1, <1>3, <1>6, <2>2
    <3> QED BY <1>1, <1>2, <1>3, <1>6, <3>1
  <2> QED BY <2>1, <2>2
<1>7. CASE j > pos + 1
  <2>1. /\ j - 1 \in (h + 1)..Len(m) /\ j - 1 > pos /\ j - 1 \in Nat /\ j - 1 \in 1..Len(m)
        /\ w[j] = m[j - 1]
    BY <1>1, <1>2, <1>3, <1>7
  <2>2. CASE i <= pos
    <3>1. i \in (h + 1)..Len(m) /\ i <= j - 1 /\ w[i] = m[i]
      BY <1>1, <1>2, <1>3, <1>7, <2>2
    <3> QED BY <2>1, <3>1 DEF SeqSorted
  <2>3. CASE i = pos + 1
    <3>1. w[i] = arg /\ ~(m[j - 1][1] <= arg[1]) /\ m[j - 1][1] \in Int
      BY <1>1, <1>2, <1>3, <2>1, <2>3
    <3> QED BY <1>1, <2>1, <3>1
  <2>4. CASE i > pos + 1
    <3>1. i - 1 \in (h + 1)..Len(m) /\ i - 1 <= j - 1 /\ w[i] = m[i - 1]
      BY <1>1, <1>2, <1>3, <2>4
    <3> QED BY <2>1, <3>1 DEF SeqSorted
  <2> QED BY <1>1, <1>3, <2>2, <2>3, <2>4
<1> QED BY <1>1, <1>3, <1>5, <1>6, <1>7

(* The order is kept by an erasure. *)
LEMMA SortedErased ==
    ASSUME NEW m \in Seq(Seqs!Items), NEW h \in 0..Len(m), SeqSorted(m, h),
           NEW p \in h..Len(m), NEW n \in 0..(Len(m) - p), NEW w, Erased(w, m, p, n)
    PROVE  SeqSorted(w, h)
<1>1. Len(m) \in Nat /\ h \in Nat /\ p \in Nat /\ n \in Nat /\ h <= p /\ p + n <= Len(m)
  OBVIOUS
<1>2. /\ Len(w) = Len(m) - n
      /\ \A i \in 1..(Len(m) - n) : w[i] = IF i <= p THEN m[i] ELSE m[i + n]
  BY DEF Erased
<1> SUFFICES ASSUME NEW i \in (h + 1)..Len(w), NEW j \in (h + 1)..Len(w), i <= j
             PROVE  w[i][1] <= w[j][1]
  BY DEF SeqSorted
<1>3. /\ i \in 1..(Len(m) - n) /\ j \in 1..(Len(m) - n) /\ i \in Nat /\ j \in Nat
      /\ i \in (h + 1)..Len(m) /\ j \in (h + 1)..Len(m)
      /\ i + n \in (h + 1)..Len(m) /\ j + n \in (h + 1)..Len(m)
      /\ i + n <= j + n /\ i <= j + n
  BY <1>1, <1>2
<1>4. CASE i <= p /\ j <= p
  BY <1>2, <1>3, <1>4 DEF SeqSorted
<1>5. CASE i <= p /\ j > p
  <2>1. w[i] = m[i] /\ w[j] = m[j + n]
    BY <1>1, <1>2, <1>3, <1>5
  <2> QED BY <1>3, <2>1 DEF SeqSorted
<1>6. CASE i > p
  <2>1. w[i] = m[i + n] /\ w[j] = m[j + n]
    BY <1>1, <1>2, <1>3, <1>6
  <2> QED BY <1>3, <2>1 DEF SeqSorted
<1> QED BY <1>1, <1>3, <1>4, <1>5, <1>6

(* And when the head moves on. *)
LEMMA SortedConsumed ==
    ASSUME NEW m \in Seq(Seqs!Items), NEW h \in Nat, SeqSorted(m, h), NEW n \in Nat
    PROVE  SeqSorted(m, h + n)
<1>1. \A i \in (h + n + 1)..Len(m) : i \in (h + 1)..Len(m)
  OBVIOUS
<1> QED BY <1>1 DEF SeqSorted

(* And by a compaction. *)
LEMMA SortedCompacted ==
    ASSUME NEW m \in Seq(Seqs!Items), NEW h \in 0..Len(m), SeqSorted(m, h)
    PROVE  SeqSorted(Seqs!Compacted(m, h), 0)
<1>1. CASE h = 0
  BY <1>1 DEF Seqs!Compacted
<1>2. CASE h > 0
  <2> DEFINE w == Seqs!VectorErase(m, 0, h)
  <2>1. Erased(w, m, 0, Fewer(h, Len(m) - 0))
    BY VectorErases
  <2>2. Fewer(h, Len(m) - 0) = h /\ Len(m) \in Nat /\ h \in Nat
    BY DEF Fewer
  <2>3. Seqs!Compacted(m, h) = w
    BY <1>2 DEF Seqs!Compacted
  <2> HIDE DEF w
  <2>4. Len(w) = Len(m) - h /\ \A i \in 1..(Len(m) - h) : w[i] = m[i + h]
    BY <2>1, <2>2 DEF Erased
  <2>5. ASSUME NEW i \in (0 + 1)..Len(w), NEW j \in (0 + 1)..Len(w), i <= j
        PROVE  w[i][1] <= w[j][1]
    <3>1. /\ i + h \in (h + 1)..Len(m) /\ j + h \in (h + 1)..Len(m) /\ i + h <= j + h
          /\ w[i] = m[i + h] /\ w[j] = m[j + h]
      BY <2>2, <2>4, <2>5
    <3> QED BY <3>1 DEF SeqSorted
  <2> QED BY <2>3, <2>5 DEF SeqSorted
<1> QED BY <1>1, <1>2

(* The slot before the head takes an item that is not greater than any. *)
LEMMA SortedBack ==
    ASSUME Seqs!ContainersAssumption, NEW m \in Seq(Seqs!Items), NEW h \in 0..Len(m),
           h >= 1, SeqSorted(m, h), NEW arg \in Seqs!Items, SeqPlace(m, h, arg, h)
    PROVE  SeqSorted([m EXCEPT ![h] = arg], h - 1)
<1> DEFINE w == [m EXCEPT ![h] = arg]
<1>1. /\ Len(m) \in Nat /\ h \in Nat
      /\ arg[1] \in Int /\ \A i \in 1..Len(m) : m[i][1] \in Int
      /\ \A i \in (h + 1)..Len(m) : i <= h <=> m[i][1] <= arg[1]
  BY ItemKeyed DEF SeqPlace
<1>2. /\ Len(w) = Len(m) /\ w[h] = arg
      /\ \A i \in 1..Len(m) : i # h => w[i] = m[i]
  OBVIOUS
<1> HIDE DEF w
<1>3. ASSUME NEW i \in ((h - 1) + 1)..Len(w), NEW j \in ((h - 1) + 1)..Len(w), i <= j
      PROVE  w[i][1] <= w[j][1]
  <2>1. i \in 1..Len(m) /\ j \in 1..Len(m) /\ i >= h /\ i \in Nat /\ j \in Nat
    BY <1>1, <1>2
  <2>2. CASE i = h /\ j = h
    BY <1>1, <1>2, <2>2
  <2>3. CASE i = h /\ j # h
    <3>1. j \in (h + 1)..Len(m) /\ ~(j <= h) /\ w[j] = m[j]
      BY <1>1, <1>2, <1>3, <2>1, <2>3
    <3> QED BY <1>1, <1>2, <2>1, <2>3, <3>1
  <2>4. CASE i # h
    <3>1. i \in (h + 1)..Len(m) /\ j \in (h + 1)..Len(m) /\ w[i] = m[i] /\ w[j] = m[j]
      BY <1>1, <1>2, <1>3, <2>1, <2>4
    <3> QED BY <1>3, <3>1 DEF SeqSorted
  <2> QED BY <2>2, <2>3, <2>4
<1> QED BY <1>3 DEF SeqSorted, w

(* Insert of an ordered deque puts the item behind the last that is not     *)
(* greater, into the slot before the head if that is its place.             *)
LEMMA ODequeInsertKeeps ==
    ASSUME Seqs!ContainersAssumption, SeqInv, NEW arg \in Seqs!Items,
           Seqs!ODequeInsert(arg)
    PROVE  SeqInv'
<1> DEFINE m == seq_mem
           h == seq_head
           c == seq_content
           pos == Seqs!FindGreaterThan(arg, h)
           v == Seqs!VectorInsert(m, pos, arg)
           crowded == Seqs!Grown(Len(v)) >= ODequeMin /\ h > Len(v) \div 2
           c2 == Seqs!InsertAt(c, (pos - h) + 1, arg)
<1>1. /\ seq_kind = "odeque" /\ seq_content' = Seqs!InOrder(c, arg)
      /\ seq_kind' = seq_kind /\ seq_tail' = seq_tail
  BY DEF Seqs!ODequeInsert
<1>2. IF pos = h /\ h > 0
      THEN seq_head' = h - 1 /\ seq_mem' = [m EXCEPT ![h] = arg] /\ seq_alloc' = seq_alloc
      ELSE /\ seq_mem' = (IF crowded THEN Seqs!Compacted(v, h) ELSE v)
           /\ seq_head' = (IF crowded THEN 0 ELSE h)
           /\ seq_alloc' = Seqs!Grown(Len(v))
  BY DEF Seqs!ODequeInsert
<1>3. /\ Holds(m, h, c) /\ seq_alloc \in Nat /\ Len(m) <= seq_alloc
      /\ m \in Seq(Seqs!Items) /\ c \in Seq(Seqs!Items)
      /\ h \in 0..Len(m) /\ h \in Nat /\ Len(m) \in Nat
      /\ Len(c) \in Nat /\ Len(c) = Len(m) - h
  BY <1>1, SeqBefore DEF Holds, SeqHeld
<1>4. SeqSorted(m, h)
  BY <1>1 DEF SeqInv
<1>5. SeqPlace(m, h, arg, pos)
  BY <1>3, <1>4, FoundPlace
<1> HIDE DEF m, h, c, pos, crowded
<1>6. pos \in h..Len(m) /\ pos \in Nat /\ pos \in 0..Len(m)
  BY <1>3, <1>5 DEF SeqPlace
<1>7. pos - h \in 0..Len(c) /\ seq_content' = c2
  BY <1>1, <1>3, <1>5, InOrderIs
<1>8. Inserted(c2, c, pos - h, arg)
  BY <1>3, <1>7, InsertsAt
<1> HIDE DEF c2
<1>9. CASE pos = h /\ h > 0
  <2>1. /\ seq_head' = h - 1 /\ seq_mem' = [m EXCEPT ![h] = arg]
        /\ seq_alloc' = seq_alloc /\ h >= 1
    BY <1>2, <1>3, <1>9
  <2>2. Inserted(c2, c, 0, arg)
    <3>1. pos - h = 0
      BY <1>3, <1>9
    <3> QED BY <1>8, <3>1
  <2>3. Holds(seq_mem', h - 1, c2)
    BY <1>3, <2>1, <2>2, HeldBack
  <2>4. Len(seq_mem') = Len(m)
    BY <1>3, <2>1, <2>2, HeldBack
  <2>5. SeqSorted(seq_mem', h - 1)
    <3>1. SeqPlace(m, h, arg, h)
      BY <1>5, <1>9
    <3> QED BY <1>3, <1>4, <2>1, <3>1, SortedBack
  <2> QED BY <1>1, <1>3, <1>7, <2>1, <2>3, <2>4, <2>5, SeqAfter
<1>10. CASE ~(pos = h /\ h > 0)
  <2>1. Inserted(v, m, pos, arg)
    BY <1>3, <1>6, VectorInserts
  <2> HIDE DEF v
  <2>2. v \in Seq(Seqs!Items) /\ Len(v) = Len(m) + 1 /\ Len(v) \in Nat
    BY <1>3, <2>1 DEF Inserted
  <2>3. Inserted(v, m, h + (pos - h), arg)
    <3>1. h + (pos - h) = pos
      BY <1>3, <1>6
    <3> QED BY <2>1, <3>1
  <2>4. Holds(v, h, c2)
    BY <1>3, <1>7, <1>8, <2>3, HeldInserted
  <2>5. SeqSorted(v, h)
    BY <1>3, <1>4, <1>5, <2>1, SortedInserted
  <2>6. seq_alloc' \in Nat /\ Len(v) <= seq_alloc'
    BY <1>2, <1>3, <1>10, <2>2, GrownFits
  <2>7. h \in 0..Len(v)
    BY <1>3, <2>2
  <2>8. CASE crowded
    <3>1. seq_mem' = Seqs!Compacted(v, h) /\ seq_head' = 0
      BY <1>2, <1>10, <2>8
    <3>2. Holds(seq_mem', 0, c2)
      BY <2>4, <3>1, Compacts
    <3>3. Len(seq_mem') = Len(v) - h
      BY <2>4, <3>1, Compacts
    <3>4. SeqSorted(seq_mem', 0)
      BY <2>2, <2>5, <2>7, <3>1, SortedCompacted
    <3>5. Len(seq_mem') <= seq_alloc'
      BY <1>3, <2>2, <2>6, <3>3
    <3> QED BY <1>1, <1>7, <2>6, <3>1, <3>2, <3>4, <3>5, SeqAfter
  <2>9. CASE ~crowded
    <3>1. seq_mem' = v /\ seq_head' = h
      BY <1>2, <1>10, <2>9
    <3> QED BY <1>1, <1>7, <2>4, <2>5, <2>6, <3>1, SeqAfter
  <2> QED BY <2>8, <2>9
<1> QED BY <1>9, <1>10

(* Erase of an ordered deque moves the head, or closes the gap. *)
LEMMA ODequeEraseKeeps ==
    ASSUME Seqs!ContainersAssumption, SeqInv, NEW pos, NEW num,
           Seqs!ODequeErase(pos, num)
    PROVE  SeqInv'
<1> DEFINE m == seq_mem
           h == seq_head
           c == seq_content
           n == Fewer(num, Len(c) - pos)
           c2 == Seqs!VectorErase(c, pos, num)
<1>1. /\ seq_kind = "odeque" /\ pos \in 0..(Seqs!Size - 1) /\ num \in 1..Seqs!Size
      /\ seq_content' = c2 /\ seq_kind' = seq_kind /\ seq_tail' = seq_tail
      /\ seq_alloc' = seq_alloc
  BY DEF Seqs!ODequeErase
<1>2. /\ Holds(m, h, c) /\ seq_alloc \in Nat /\ Len(m) <= seq_alloc
      /\ m \in Seq(Seqs!Items) /\ c \in Seq(Seqs!Items)
      /\ h \in 0..Len(m) /\ h \in Nat /\ Len(m) \in Nat /\ Len(c) \in Nat
      /\ Len(c) = Len(m) - h /\ Seqs!Size = Len(c)
  BY <1>1, SeqBefore DEF Holds, SeqHeld
<1>3. SeqSorted(m, h)
  BY <1>1 DEF SeqInv
<1>4. /\ pos \in 0..Len(c) /\ num \in Nat /\ num <= Len(c) /\ n \in 0..(Len(c) - pos)
      /\ pos = 0 => n = num
  BY <1>1, <1>2 DEF Fewer
<1>5. Erased(c2, c, pos, n)
  BY <1>2, <1>4, VectorErases
<1>6. Fewer(num, Len(m) - (h + pos)) = n
  <2>1. Len(m) - (h + pos) = Len(c) - pos
    BY <1>2, <1>4
  <2> QED BY <2>1
<1> HIDE DEF m, h, c, c2, n
<1>7. CASE pos = 0
  <2>1. seq_head' = h + n /\ seq_mem' = m
    BY <1>4, <1>7 DEF Seqs!ODequeErase, m, h
  <2>2. Holds(m, h + n, c2)
    BY <1>2, <1>4, <1>5, <1>7, HeldConsumed
  <2>3. n \in Nat
    BY <1>4, <1>7, <1>2
  <2>4. SeqSorted(m, h + n)
    BY <1>2, <1>3, <2>3, SortedConsumed
  <2> QED BY <1>1, <1>2, <2>1, <2>2, <2>4, SeqAfter
<1>8. CASE pos # 0
  <2>1. seq_mem' = Seqs!VectorErase(m, h + pos, num) /\ seq_head' = h
    BY <1>8 DEF Seqs!ODequeErase, m, h
  <2>2. h + pos \in h..Len(m) /\ h + pos \in 0..Len(m)
    BY <1>2, <1>4
  <2>3. Erased(seq_mem', m, h + pos, n)
    BY <1>2, <1>4, <1>6, <2>1, <2>2, VectorErases
  <2>4. Holds(seq_mem', h, c2)
    BY <1>2, <1>4, <1>5, <2>3, HeldErased
  <2>5. n \in 0..(Len(m) - (h + pos)) /\ n \in Nat
    BY <1>2, <1>4
  <2>6. SeqSorted(seq_mem', h)
    BY <1>2, <1>3, <2>2, <2>3, <2>5, SortedErased
  <2>7. Len(seq_mem') <= seq_alloc
    BY <1>2, <2>3, <2>5 DEF Erased
  <2> QED BY <1>1, <1>2, <2>1, <2>4, <2>6, <2>7, SeqAfter
<1> QED BY <1>7, <1>8

(* Two items are equal when their keys are. *)
LEMMA EqualKeys ==
    ASSUME Seqs!ContainersAssumption, NEW x \in Seqs!Items, NEW y \in Seqs!Items
    PROVE  Seqs!IsEqual(x, y) <=> x[1] = y[1]
BY ItemKeyed DEF Seqs!IsEqual, Seqs!Greater

(* The place of an equal item, or -1 when there is none. *)
Finds(p, start, arg) ==
    \/ p \in start..(Len(seq_mem) - 1) /\ seq_mem[p + 1][1] = arg[1]
    \/ p = -1 /\ \A i \in (start + 1)..Len(seq_mem) : seq_mem[i][1] # arg[1]

(* So does Find. *)
LEMMA FindsEqual ==
    ASSUME Seqs!ContainersAssumption, seq_mem \in Seq(Seqs!Items),
           NEW start \in 0..Len(seq_mem), SeqSorted(seq_mem, start),
           NEW arg \in Seqs!Items, NEW found, found = Seqs!Find(arg, start)
    PROVE  Finds(found, start, arg)
<1> DEFINE m == seq_mem
           pos == Seqs!FindGreaterThan(arg, start)
<1>1. SeqPlace(m, start, arg, pos)
  BY FoundPlace
<1>2. found = IF start >= Len(m) \/ pos = start \/ ~Seqs!IsEqual(arg, m[pos])
          THEN -1 ELSE pos - 1
  BY DEF Seqs!Find
<1>3. /\ Len(m) \in Nat /\ start \in Nat /\ arg[1] \in Int
      /\ \A i \in 1..Len(m) : m[i] \in Seqs!Items /\ m[i][1] \in Int
  BY ItemKeyed
<1> HIDE DEF m, pos
<1>5. /\ pos \in start..Len(m) /\ pos \in Nat
      /\ \A i \in (start + 1)..Len(m) : i <= pos <=> m[i][1] <= arg[1]
  BY <1>1, <1>3 DEF SeqPlace
<1>6. CASE pos = start
  <2>1. found = -1
    BY <1>2, <1>6
  <2>2. \A i \in (start + 1)..Len(m) : m[i][1] # arg[1]
    BY <1>3, <1>5, <1>6
  <2> QED BY <2>1, <2>2 DEF m, Finds
<1>7. CASE pos # start
  <2>1. pos \in (start + 1)..Len(m) /\ pos \in 1..Len(m) /\ ~(start >= Len(m))
    BY <1>3, <1>5, <1>7
  <2>2. Seqs!IsEqual(arg, m[pos]) <=> arg[1] = m[pos][1]
    BY <1>3, <2>1, EqualKeys
  <2>3. CASE arg[1] = m[pos][1]
    <3>1. found = pos - 1
      BY <1>2, <1>7, <2>1, <2>2, <2>3
    <3>2. found \in start..(Len(m) - 1) /\ found + 1 = pos
      BY <1>3, <2>1, <3>1
    <3> QED BY <2>3, <3>2 DEF m, Finds
  <2>4. CASE arg[1] # m[pos][1]
    <3>1. found = -1
      BY <1>2, <2>2, <2>4
    <3>2. ASSUME NEW i \in (start + 1)..Len(m), m[i][1] = arg[1] PROVE FALSE
      <4>1. i \in 1..Len(m) /\ i <= pos
        BY <1>3, <1>5, <3>2
      <4>2. m[i][1] <= m[pos][1] /\ m[pos][1] <= arg[1]
        BY <1>5, <2>1, <4>1 DEF SeqSorted, m
      <4> QED BY <1>3, <2>1, <2>4, <3>2, <4>2
    <3> QED BY <3>1, <3>2 DEF m, Finds
  <2> QED BY <2>3, <2>4
<1> QED BY <1>6, <1>7

(* A set is what is expected to be in it. *)
LEMMA SetBefore ==
    ASSUME SeqInv, seq_kind = "set"
    PROVE  /\ seq_content = seq_mem /\ seq_head = 0 /\ seq_mem \in Seq(Seqs!Items)
           /\ SeqSorted(seq_mem, 0) /\ SeqApart(seq_mem)
           /\ seq_alloc \in Nat /\ Len(seq_mem) <= seq_alloc /\ Len(seq_mem) \in Nat
<1>1. /\ Holds(seq_mem, seq_head, seq_content) /\ seq_alloc \in Nat
      /\ Len(seq_mem) <= seq_alloc
      /\ seq_mem \in Seq(Seqs!Items) /\ seq_content \in Seq(Seqs!Items)
  BY SeqBefore
<1>2. seq_head = 0 /\ SeqApart(seq_mem) /\ SeqSorted(seq_mem, seq_head)
  BY DEF SeqInv
<1>3. /\ Len(seq_mem) \in Nat /\ Len(seq_content) = Len(seq_mem)
      /\ \A i \in 1..Len(seq_content) : seq_content[i] = seq_mem[i]
  BY <1>1, <1>2 DEF Holds, SeqHeld
<1>4. seq_content = seq_mem
  BY <1>1, <1>3, SeqEqual
<1> QED BY <1>1, <1>2, <1>3, <1>4

(* Without removes the item that is equal, if there is one. *)
LEMMA WithoutNone ==
    ASSUME Seqs!ContainersAssumption, NEW s \in Seq(Seqs!Items), NEW arg \in Seqs!Items,
           \A i \in 1..Len(s) : s[i][1] # arg[1]
    PROVE  Seqs!Without(s, arg) = s
<1>1. \A i \in DOMAIN s : ~Seqs!IsEqual(s[i], arg)
  BY EqualKeys
<1> QED BY <1>1 DEF Seqs!Without

(* The item that is equal is taken out of its place. *)
LEMMA WithoutOne ==
    ASSUME Seqs!ContainersAssumption, NEW s \in Seq(Seqs!Items), SeqApart(s),
           NEW arg \in Seqs!Items, NEW p \in 1..Len(s), s[p][1] = arg[1]
    PROVE  /\ Seqs!Without(s, arg) = Seqs!VectorErase(s, p - 1, 1)
           /\ Erased(Seqs!Without(s, arg), s, p - 1, 1)
<1> DEFINE Same(i) == Seqs!IsEqual(s[i], arg)
           q == CHOOSE i \in DOMAIN s : Same(i)
<1>1. \A i \in DOMAIN s : Same(i) <=> s[i][1] = arg[1]
  BY EqualKeys
<1>2. DOMAIN s = 1..Len(s) /\ p \in DOMAIN s /\ Same(p) /\ Len(s) \in Nat /\ p \in Nat
  BY <1>1
<1>3. q \in DOMAIN s /\ Same(q)
  <2> HIDE DEF Same
  <2> QED BY <1>2
<1>4. q = p
  <2> HIDE DEF q
  <2> QED BY <1>1, <1>2, <1>3 DEF SeqApart
<1>5. Seqs!Without(s, arg) = Seqs!RemoveAt(s, q)
  BY <1>2 DEF Seqs!Without
<1> HIDE DEF q, Same
<1>6. Seqs!RemoveAt(s, p) = Seqs!VectorErase(s, p - 1, 1)
  <2>1. (p - 1) + (IF 1 < Len(s) - (p - 1) THEN 1 ELSE Len(s) - (p - 1)) + 1 = p + 1
    BY <1>2
  <2> QED BY <2>1 DEF Seqs!RemoveAt, Seqs!VectorErase
<1>7. Erased(Seqs!VectorErase(s, p - 1, 1), s, p - 1, Fewer(1, Len(s) - (p - 1)))
  <2>1. p - 1 \in 0..Len(s) /\ 1 \in Nat
    BY <1>2
  <2> QED BY <2>1, VectorErases
<1>8. Fewer(1, Len(s) - (p - 1)) = 1
  BY <1>2 DEF Fewer
<1> QED BY <1>4, <1>5, <1>6, <1>7, <1>8

(* Items of different keys stay such when one with a new key comes in, and  *)
(* when one is taken out.                                                   *)
LEMMA ApartInserted ==
    ASSUME NEW m \in Seq(Seqs!Items), SeqApart(m), NEW p \in 0..Len(m), NEW arg,
           \A i \in 1..Len(m) : m[i][1] # arg[1],
           NEW w, Inserted(w, m, p, arg)
    PROVE  SeqApart(w)
<1>1. Len(m) \in Nat /\ p \in Nat /\ p <= Len(m)
  OBVIOUS
<1>2. /\ Len(w) = Len(m) + 1
      /\ \A i \in 1..(Len(m) + 1) :
             w[i] = IF i <= p THEN m[i] ELSE IF i = p + 1 THEN arg ELSE m[i - 1]
  BY DEF Inserted
<1>3. ASSUME NEW i \in 1..Len(w), i # p + 1
      PROVE  \E k \in 1..Len(m) : w[i] = m[k] /\ k = IF i <= p THEN i ELSE i - 1
  <2>1. CASE i <= p
    BY <1>1, <1>2, <2>1
  <2>2. CASE i > p
    <3>1. i - 1 \in 1..Len(m) /\ w[i] = m[i - 1]
      BY <1>1, <1>2, <1>3, <2>2
    <3> QED BY <1>1, <2>2, <3>1
  <2> QED BY <1>1, <2>1, <2>2
<1> SUFFICES ASSUME NEW i \in 1..Len(w), NEW j \in 1..Len(w), w[i][1] = w[j][1]
             PROVE  i = j
  BY DEF SeqApart
<1>4. w[p + 1] = arg
  BY <1>1, <1>2
<1>5. CASE i = p + 1
  <2>1. CASE j # p + 1
    BY <1>3, <1>4, <1>5, <2>1
  <2> QED BY <1>5, <2>1
<1>6. CASE i # p + 1
  <2>1. PICK k \in 1..Len(m) : w[i] = m[k] /\ k = IF i <= p THEN i ELSE i - 1
    BY <1>3, <1>6
  <2>2. j # p + 1
    BY <1>4, <2>1
  <2>3. PICK l \in 1..Len(m) : w[j] = m[l] /\ l = IF j <= p THEN j ELSE j - 1
    BY <1>3, <2>2
  <2>4. k = l
    BY <2>1, <2>3 DEF SeqApart
  <2>5. i \in Nat /\ j \in Nat
    BY <1>1, <1>2
  <2> QED BY <1>1, <1>6, <2>1, <2>2, <2>3, <2>4, <2>5
<1> QED BY <1>5, <1>6

(* Taking items out keeps the keys apart. *)
LEMMA ApartErased ==
    ASSUME NEW m \in Seq(Seqs!Items), SeqApart(m), NEW p \in 0..Len(m),
           NEW n \in 0..(Len(m) - p), NEW w, Erased(w, m, p, n)
    PROVE  SeqApart(w)
<1>1. Len(m) \in Nat /\ p \in Nat /\ n \in Nat /\ p + n <= Len(m)
  OBVIOUS
<1>2. /\ Len(w) = Len(m) - n
      /\ \A i \in 1..(Len(m) - n) : w[i] = IF i <= p THEN m[i] ELSE m[i + n]
  BY DEF Erased
<1> SUFFICES ASSUME NEW i \in 1..Len(w), NEW j \in 1..Len(w), w[i][1] = w[j][1]
             PROVE  i = j
  BY DEF SeqApart
<1>3. /\ i \in 1..(Len(m) - n) /\ j \in 1..(Len(m) - n) /\ i \in Nat /\ j \in Nat
      /\ i \in 1..Len(m) /\ j \in 1..Len(m) /\ i + n \in 1..Len(m) /\ j + n \in 1..Len(m)
  BY <1>1, <1>2
<1>4. CASE i <= p /\ j <= p
  BY <1>2, <1>3, <1>4 DEF SeqApart
<1>5. CASE i <= p /\ ~(j <= p)
  <2>1. i = j + n
    BY <1>2, <1>3, <1>5 DEF SeqApart
  <2> QED BY <1>1, <1>3, <1>5, <2>1
<1>6. CASE ~(i <= p) /\ j <= p
  <2>1. j = i + n
    BY <1>2, <1>3, <1>6 DEF SeqApart
  <2> QED BY <1>1, <1>3, <1>6, <2>1
<1>7. CASE ~(i <= p) /\ ~(j <= p)
  <2>1. i + n = j + n
    BY <1>2, <1>3, <1>7 DEF SeqApart
  <2> QED BY <1>1, <1>3, <2>1
<1> QED BY <1>4, <1>5, <1>6, <1>7

(* A sequence holds itself. *)
LEMMA HoldsItself ==
    ASSUME NEW s \in Seq(Seqs!Items)
    PROVE  Holds(s, 0, s)
BY DEF Holds, SeqHeld

(* Inserting into a set replaces the equal item or adds one. *)
LEMMA SetInsertKeeps ==
    ASSUME Seqs!ContainersAssumption, SeqInv, NEW arg \in Seqs!Items,
           Seqs!SetInsert(arg)
    PROVE  SeqInv'
<1> DEFINE m == seq_mem
           pos == Seqs!FindGreaterThan(arg, 0)
           present == pos > 0 /\ Seqs!IsEqual(arg, m[pos])
           c2 == Seqs!InOrder(Seqs!Without(seq_content, arg), arg)
<1>1. /\ seq_kind = "set" /\ seq_content' = c2
      /\ seq_kind' = seq_kind /\ seq_tail' = seq_tail /\ seq_head' = seq_head
  BY DEF Seqs!SetInsert
<1>2. IF present
      THEN seq_mem' = [m EXCEPT ![pos] = arg] /\ seq_alloc' = seq_alloc
      ELSE seq_mem' = Seqs!VectorInsert(m, pos, arg) /\ seq_alloc' = Seqs!Grown(Len(m) + 1)
  BY DEF Seqs!SetInsert
<1>3. /\ seq_content = m /\ seq_head = 0 /\ m \in Seq(Seqs!Items)
      /\ SeqSorted(m, 0) /\ SeqApart(m)
      /\ seq_alloc \in Nat /\ Len(m) <= seq_alloc /\ Len(m) \in Nat
  BY <1>1, SetBefore
<1>4. SeqPlace(m, 0, arg, pos)
  BY <1>3, FoundPlace
<1> HIDE DEF m, pos, c2
<1>5. /\ pos \in 0..Len(m) /\ pos \in Nat
      /\ \A i \in 1..Len(m) : i <= pos <=> m[i][1] <= arg[1]
  BY <1>3, <1>4 DEF SeqPlace
<1>6. arg[1] \in Int /\ \A i \in 1..Len(m) : m[i] \in Seqs!Items /\ m[i][1] \in Int
  BY <1>3, ItemKeyed
<1>7. c2 = Seqs!InOrder(Seqs!Without(m, arg), arg)
  BY <1>3 DEF c2
<1>8. CASE present
  <2>1. /\ pos \in 1..Len(m) /\ m[pos][1] = arg[1]
        /\ seq_mem' = [m EXCEPT ![pos] = arg] /\ seq_alloc' = seq_alloc
    BY <1>2, <1>5, <1>6, <1>8, EqualKeys
  <2> DEFINE v == Seqs!Without(m, arg)
  <2>2. Erased(v, m, pos - 1, 1)
    BY <1>3, <2>1, WithoutOne
  <2>3. c2 = Seqs!InOrder(v, arg)
    BY <1>7
  <2> HIDE DEF v
  <2>4. /\ v \in Seq(Seqs!Items) /\ Len(v) = Len(m) - 1 /\ Len(v) \in Nat
        /\ \A i \in 1..Len(v) : v[i] = IF i <= pos - 1 THEN m[i] ELSE m[i + 1]
    BY <1>3, <1>5, <2>1, <2>2 DEF Erased
  <2>5. SeqPlace(v, 0, arg, pos - 1)
    <3>1. pos - 1 \in 0..Len(v)
      BY <1>3, <1>5, <2>1, <2>4
    <3>2. ASSUME NEW i \in (0 + 1)..Len(v) PROVE i <= pos - 1 <=> v[i][1] <= arg[1]
      <4>1. i \in 1..Len(m) /\ i + 1 \in 1..Len(m) /\ i \in 1..Len(v) /\ i \in Nat
        BY <1>3, <2>4
      <4>2. CASE i <= pos - 1
        BY <1>5, <2>4, <4>1, <4>2
      <4>3. CASE ~(i <= pos - 1)
        <5>1. v[i] = m[i + 1] /\ ~(i + 1 <= pos)
          BY <1>5, <2>4, <4>1, <4>3
        <5> QED BY <1>5, <4>1, <4>3, <5>1
      <4> QED BY <4>2, <4>3
    <3> QED BY <3>1, <3>2 DEF SeqPlace
  <2>6. Holds(v, 0, v)
    BY <2>4, HoldsItself
  <2>7. /\ (pos - 1) - 0 \in 0..Len(v)
        /\ c2 = Seqs!InsertAt(v, ((pos - 1) - 0) + 1, arg)
    BY <2>3, <2>5, <2>6, InOrderIs
  <2>8. Inserted(c2, v, (pos - 1) - 0, arg)
    BY <2>4, <2>7, InsertsAt
  <2>9. (pos - 1) - 0 = pos - 1
    BY <1>5
  <2>10. /\ c2 \in Seq(Seqs!Items) /\ Len(c2) = Len(m)
         /\ \A i \in 1..Len(m) :
                c2[i] = IF i <= pos - 1 THEN v[i] ELSE IF i = pos THEN arg ELSE v[i - 1]
    BY <1>3, <1>5, <2>4, <2>8, <2>9 DEF Inserted
  <2>11. /\ seq_mem' \in Seq(Seqs!Items) /\ Len(seq_mem') = Len(m)
         /\ \A i \in 1..Len(m) : seq_mem'[i] = IF i = pos THEN arg ELSE m[i]
    BY <1>3, <2>1
  <2>12. ASSUME NEW i \in 1..Len(c2) PROVE c2[i] = seq_mem'[0 + i]
    <3>1. i \in 1..Len(m) /\ i \in Nat /\ 0 + i = i
      BY <2>10
    <3>2. CASE i <= pos - 1
      <4>1. i \in 1..Len(v) /\ i # pos
        BY <1>5, <2>1, <2>4, <3>1, <3>2
      <4> QED BY <2>4, <2>10, <2>11, <3>1, <3>2, <4>1
    <3>3. CASE i = pos
      BY <1>5, <2>10, <2>11, <3>1, <3>3
    <3>4. CASE i > pos
      <4>1. i - 1 \in 1..Len(v) /\ (i - 1) + 1 = i /\ ~(i - 1 <= pos - 1)
            /\ ~(i <= pos - 1) /\ i # pos
        BY <1>5, <2>1, <2>4, <3>1, <3>4
      <4> QED BY <2>4, <2>10, <2>11, <3>1, <4>1
    <3> QED BY <1>5, <3>1, <3>2, <3>3, <3>4
  <2>13. Holds(seq_mem', 0, c2)
    <3>1. Len(c2) = Len(seq_mem') - 0 /\ 0 \in 0..Len(seq_mem')
      BY <1>3, <2>10, <2>11
    <3> QED BY <2>10, <2>11, <2>12, <3>1 DEF Holds, SeqHeld
  <2>14. \A i \in 1..Len(m) : seq_mem'[i][1] = m[i][1]
    BY <2>1, <2>11
  <2>15. SeqSorted(seq_mem', 0) /\ SeqApart(seq_mem')
    BY <1>3, <2>11, <2>14 DEF SeqSorted, SeqApart
  <2> QED BY <1>1, <1>3, <2>1, <2>11, <2>13, <2>15, SeqAfter
<1>9. CASE ~present
  <2>1. seq_mem' = Seqs!VectorInsert(m, pos, arg) /\ seq_alloc' = Seqs!Grown(Len(m) + 1)
    BY <1>2, <1>9
  <2>2. ASSUME NEW i \in 1..Len(m), m[i][1] = arg[1] PROVE FALSE
    <3>1. i <= pos /\ i \in Nat
      BY <1>5, <1>6, <2>2
    <3>2. pos \in 1..Len(m) /\ pos > 0
      BY <1>3, <1>5, <3>1, <2>2
    <3>3. m[i][1] <= m[pos][1] /\ m[pos][1] <= arg[1]
      BY <1>3, <1>5, <2>2, <3>1, <3>2 DEF SeqSorted
    <3>4. m[pos][1] = arg[1]
      BY <1>6, <2>2, <3>2, <3>3
    <3> QED BY <1>6, <1>9, <3>2, <3>4, EqualKeys
  <2>3. Seqs!Without(m, arg) = m
    BY <1>3, <2>2, WithoutNone
  <2>4. Holds(m, 0, m)
    BY <1>3, HoldsItself
  <2>5. pos - 0 \in 0..Len(m) /\ c2 = Seqs!InsertAt(m, (pos - 0) + 1, arg)
    BY <1>4, <1>7, <2>3, <2>4, InOrderIs
  <2>6. pos - 0 = pos /\ 0 + pos = pos
    BY <1>5
  <2>7. Inserted(c2, m, pos, arg)
    BY <1>3, <1>5, <2>5, <2>6, InsertsAt
  <2>8. Inserted(seq_mem', m, pos, arg)
    BY <1>3, <1>5, <2>1, VectorInserts
  <2>9. Holds(seq_mem', 0, c2)
    <3>1. Inserted(seq_mem', m, 0 + pos, arg)
      BY <2>6, <2>8
    <3> QED BY <1>5, <2>4, <2>7, <3>1, HeldInserted
  <2>10. SeqSorted(seq_mem', 0)
    BY <1>3, <1>4, <2>8, SortedInserted
  <2>11. SeqApart(seq_mem')
    BY <1>3, <1>5, <2>2, <2>8, ApartInserted
  <2>12. Len(seq_mem') = Len(m) + 1
    BY <2>8 DEF Inserted
  <2>13. seq_alloc' \in Nat /\ Len(m) + 1 <= seq_alloc'
    BY <1>3, <2>1, GrownFits
  <2> QED BY <1>1, <1>3, <2>9, <2>10, <2>11, <2>12, <2>13, SeqAfter
<1> QED BY <1>8, <1>9

(* Erase takes the equal item out of a set, if it is in it. *)
LEMMA SetEraseKeeps ==
    ASSUME Seqs!ContainersAssumption, SeqInv, NEW arg \in Seqs!Items,
           Seqs!SetErase(arg)
    PROVE  SeqInv'
<1> DEFINE m == seq_mem
           pos == Seqs!Find(arg, 0)
<1>1. /\ seq_kind = "set" /\ seq_content' = Seqs!Without(seq_content, arg)
      /\ seq_mem' = (IF pos # -1 THEN Seqs!VectorErase(m, pos, 1) ELSE m)
      /\ seq_kind' = seq_kind /\ seq_tail' = seq_tail /\ seq_head' = seq_head
      /\ seq_alloc' = seq_alloc
  BY DEF Seqs!SetErase
<1>2. /\ seq_content = m /\ seq_head = 0 /\ m \in Seq(Seqs!Items)
      /\ SeqSorted(m, 0) /\ SeqApart(m)
      /\ seq_alloc \in Nat /\ Len(m) <= seq_alloc /\ Len(m) \in Nat
  BY <1>1, SetBefore
<1>3. Finds(pos, 0, arg)
  BY <1>2, FindsEqual
<1> HIDE DEF m, pos
<1>4. CASE pos \in 0..(Len(m) - 1) /\ m[pos + 1][1] = arg[1]
  <2>1. pos \in Nat /\ pos + 1 \in 1..Len(m) /\ pos # -1 /\ (pos + 1) - 1 = pos
    BY <1>2, <1>4
  <2>2. /\ Seqs!Without(m, arg) = Seqs!VectorErase(m, (pos + 1) - 1, 1)
        /\ Erased(Seqs!Without(m, arg), m, (pos + 1) - 1, 1)
    BY <1>2, <1>4, <2>1, WithoutOne
  <2>3. seq_mem' = seq_content' /\ Erased(seq_mem', m, pos, 1)
    BY <1>1, <1>2, <2>1, <2>2
  <2>4. seq_mem' \in Seq(Seqs!Items) /\ Len(seq_mem') = Len(m) - 1
    BY <2>3 DEF Erased
  <2>5. Holds(seq_mem', 0, seq_content')
    BY <2>3, <2>4, HoldsItself
  <2>6. pos \in 0..Len(m) /\ 1 \in 0..(Len(m) - pos) /\ 0 \in 0..Len(m)
    BY <1>2, <2>1
  <2>7. SeqSorted(seq_mem', 0)
    BY <1>2, <2>3, <2>6, SortedErased
  <2>8. SeqApart(seq_mem')
    BY <1>2, <2>3, <2>6, ApartErased
  <2>9. Len(seq_mem') <= seq_alloc'
    BY <1>1, <1>2, <2>4
  <2> QED BY <1>1, <1>2, <2>5, <2>7, <2>8, <2>9, SeqAfter
<1>5. CASE pos = -1 /\ \A i \in (0 + 1)..Len(m) : m[i][1] # arg[1]
  <2>1. Seqs!Without(m, arg) = m
    BY <1>2, <1>5, WithoutNone
  <2>2. seq_mem' = m /\ seq_content' = m
    BY <1>1, <1>2, <1>5, <2>1
  <2>3. Holds(seq_mem', 0, seq_content')
    BY <1>2, <2>2, HoldsItself
  <2> QED BY <1>1, <1>2, <2>2, <2>3, SeqAfter
<1> QED BY <1>3, <1>4, <1>5 DEF Finds, m

(* The remainder of a division is the only one. *)
LEMMA RemainderIs ==
    ASSUME NEW n \in Nat \ {0}, NEW a \in Int, NEW q \in Int, NEW r \in 0..(n - 1),
           a = n * q + r
    PROVE  a % n = r
<1> DEFINE d == a \div n
           s == a % n
<1>1. a = n * d + s /\ s \in 0..(n - 1) /\ d \in Int
  OBVIOUS
<1> HIDE DEF d, s
<1>2. n * d - n * q = r - s
  BY <1>1
<1>3. CASE d >= q + 1
  <2>1. PICK k \in Nat : d = q + 1 + k
    <3>1. d - q - 1 \in Nat /\ d = q + 1 + (d - q - 1)
      BY <1>1, <1>3
    <3> QED BY <3>1
  <2>2. n * d = n * q + n + n * k /\ n * k \in Nat /\ n * q \in Int
    BY <2>1
  <2> QED BY <1>1, <1>2, <2>2
<1>4. CASE d <= q - 1
  <2>1. PICK k \in Nat : q = d + 1 + k
    <3>1. q - d - 1 \in Nat /\ q = d + 1 + (q - d - 1)
      BY <1>1, <1>4
    <3> QED BY <3>1
  <2>2. n * q = n * d + n + n * k /\ n * k \in Nat /\ n * d \in Int
    BY <1>1, <2>1
  <2> QED BY <1>1, <1>2, <2>2
<1>5. CASE d = q
  <2>1. n * d \in Int /\ n * d = n * q
    BY <1>1, <1>5
  <2>2. s = r
    BY <1>1, <1>2, <2>1
  <2> QED BY <2>2 DEF s
<1> QED BY <1>1, <1>3, <1>4, <1>5

(* A ring's places: one step around at most. *)
LEMMA Around ==
    \A n \in Nat \ {0} : \A a \in 0..(2 * n - 1) : a % n = IF a < n THEN a ELSE a - n
<1> SUFFICES ASSUME NEW n \in Nat \ {0}, NEW a \in 0..(2 * n - 1)
             PROVE  a % n = IF a < n THEN a ELSE a - n
  OBVIOUS
<1>1. CASE a < n
  <2>1. a \in 0..(n - 1)
    BY <1>1
  <2>2. a % n = a
    BY <2>1
  <2> QED BY <1>1, <2>2
<1>2. CASE ~(a < n)
  <2>1. a \in n..(2 * n - 1)
    BY <1>2
  <2>2. a % n = a - n
    BY <2>1
  <2> QED BY <1>2, <2>2
<1> QED BY <1>1, <1>2

(* One step around downwards. *)
LEMMA AroundBelow ==
    ASSUME NEW n \in Nat \ {0}, NEW a \in Int, -n <= a, a < 0
    PROVE  a % n = a + n
OBVIOUS

(* What holds of a ring, and what has to. *)
LEMMA RingBefore ==
    ASSUME Seqs!ContainersAssumption, SeqInv, seq_kind = "ring"
    PROVE  /\ RingSize \in Nat \ {0} /\ RingSize \in Nat
           /\ seq_mem \in Seq(Seqs!Items) /\ seq_content \in Seq(Seqs!Items)
           /\ Len(seq_mem) = RingSize /\ DOMAIN seq_mem = 1..RingSize
           /\ seq_head \in 0..(RingSize - 1) /\ seq_tail \in 0..(RingSize - 1)
           /\ Len(seq_content) \in 0..(RingSize - 1) /\ Len(seq_content) = Seqs!RingUsed
           /\ seq_tail - seq_head = (IF seq_tail >= seq_head THEN Len(seq_content)
                                     ELSE Len(seq_content) - RingSize)
           /\ \A i \in 1..Len(seq_content) :
                  seq_content[i] = seq_mem[((seq_head + i) % RingSize) + 1]
<1>1. RingSize \in Nat \ {0}
  BY DEF Seqs!ContainersAssumption
<1>2. /\ Seqs!TypeOK /\ Len(seq_mem) = RingSize /\ seq_head < RingSize
      /\ Len(seq_content) = Seqs!RingUsed
      /\ SeqRing(seq_mem, seq_head, seq_content)
  BY DEF SeqInv
<1>3. /\ seq_mem \in Seq(Seqs!Items) /\ seq_content \in Seq(Seqs!Items)
      /\ seq_head \in 0..(RingSize - 1) /\ seq_tail \in 0..(RingSize - 1)
  BY <1>1, <1>2 DEF Seqs!TypeOK
<1>4. Len(seq_content) = IF seq_tail >= seq_head THEN seq_tail - seq_head
                         ELSE RingSize - seq_head + seq_tail
  BY <1>2 DEF Seqs!RingUsed
<1>5. /\ Len(seq_content) \in 0..(RingSize - 1)
      /\ seq_tail - seq_head = (IF seq_tail >= seq_head THEN Len(seq_content)
                                ELSE Len(seq_content) - RingSize)
  BY <1>1, <1>3, <1>4
<1> QED BY <1>1, <1>2, <1>3, <1>5 DEF SeqRing

(* What a step of a ring has to leave. *)
LEMMA RingAfter ==
    ASSUME Seqs!ContainersAssumption, SeqInv, seq_kind = "ring", seq_kind' = seq_kind,
           seq_alloc' = seq_alloc, seq_mem' \in Seq(Seqs!Items), Len(seq_mem') = RingSize,
           seq_content' \in Seq(Seqs!Items),
           seq_head' \in 0..(RingSize - 1), seq_tail' \in 0..(RingSize - 1),
           Len(seq_content') = (IF seq_tail' >= seq_head' THEN seq_tail' - seq_head'
                                ELSE RingSize - seq_head' + seq_tail'),
           \A i \in 1..Len(seq_content') :
               seq_content'[i] = seq_mem'[((seq_head' + i) % RingSize) + 1]
    PROVE  SeqInv'
<1>1. RingSize \in Nat \ {0} /\ Seqs!TypeOK /\ Len(seq_mem) = RingSize
  BY DEF Seqs!ContainersAssumption, SeqInv
<1>2. Seqs!TypeOK'
  BY <1>1 DEF Seqs!TypeOK
<1>3. /\ Len(seq_content') = Seqs!RingUsed' /\ seq_head' < RingSize
      /\ SeqRing(seq_mem', seq_head', seq_content')
  BY <1>1 DEF Seqs!RingUsed, SeqRing
<1> QED BY <1>2, <1>3 DEF SeqInv

(* PushBack of a ring fills the slots behind the last item. *)
LEMMA RingPushBackKeeps ==
    ASSUME Seqs!ContainersAssumption, SeqInv, NEW args \in Seq(Seqs!Items),
           Seqs!RingPushBack(args)
    PROVE  SeqInv'
<1> DEFINE S == Seqs!Items
           N == RingSize
           m == seq_mem
           h == seq_head
           t == seq_tail
           c == seq_content
           u == Len(c)
           k == Len(args)
           c2 == c \o args
           slot(i) == (h + i) % N
           nth(i) == (i - 1 - t) % N
<1>1. /\ seq_kind = "ring" /\ k <= Seqs!Headroom /\ seq_tail' = (t + k) % N
      /\ seq_mem' = [i \in DOMAIN m |-> IF nth(i) \in DOMAIN args THEN args[nth(i)] ELSE m[i]]
      /\ seq_content' = c2
      /\ seq_kind' = seq_kind /\ seq_head' = h /\ seq_alloc' = seq_alloc
  BY DEF Seqs!RingPushBack
<1>2. /\ N \in Nat \ {0} /\ N \in Nat /\ m \in Seq(S) /\ c \in Seq(S)
      /\ Len(m) = N /\ DOMAIN m = 1..N /\ h \in 0..(N - 1) /\ t \in 0..(N - 1)
      /\ u \in 0..(N - 1) /\ u = Seqs!RingUsed
      /\ t - h = (IF t >= h THEN u ELSE u - N)
      /\ \A i \in 1..u : c[i] = m[slot(i) + 1]
  BY <1>1, RingBefore
<1>3. /\ args \in Seq(S) /\ k \in Nat /\ DOMAIN args = 1..k /\ u + k <= N - 1
  BY <1>1, <1>2 DEF Seqs!Headroom
<1> HIDE DEF S, m, h, t, c, N
<1>0. \A a \in 0..(2 * N - 1) : a % N = IF a < N THEN a ELSE a - N
  BY <1>2, Around
<1>4. /\ c2 \in Seq(S) /\ Len(c2) = u + k
      /\ \A i \in 1..(u + k) : c2[i] = IF i <= u THEN c[i] ELSE args[i - u]
  BY <1>2, <1>3, ConcatProperties
<1> HIDE DEF u, k, c2, slot, nth
<1>i. N \in Nat \ {0} /\ N \in Int /\ t \in Int /\ h \in Int /\ k \in Int /\ u \in Int
  BY <1>2, <1>3
<1>5. seq_mem' \in Seq(S) /\ Len(seq_mem') = N
  <2>1. ASSUME NEW i \in 1..N
        PROVE  (IF nth(i) \in DOMAIN args THEN args[nth(i)] ELSE m[i]) \in S
    BY <1>2, <1>3
  <2>2. seq_mem' \in [1..N -> S]
    BY <1>1, <1>2, <2>1
  <2> QED BY <1>2, <2>2
<1>6. /\ seq_tail' \in 0..(N - 1)
      /\ seq_tail' = IF t + k < N THEN t + k ELSE (t + k) - N
  <2>1. t + k \in 0..(2 * N - 1)
    BY <1>2, <1>3
  <2>2. (t + k) % N = IF t + k < N THEN t + k ELSE (t + k) - N
    BY <1>0, <1>i, <2>1
  <2>3. seq_tail' = IF t + k < N THEN t + k ELSE (t + k) - N
    BY <1>1, <2>2
  <2> QED BY <1>i, <2>1, <2>3
<1>7. Len(c2) = IF seq_tail' >= h THEN seq_tail' - h ELSE N - h + seq_tail'
  <2>1. CASE t >= h
    BY <1>2, <1>3, <1>4, <1>6, <2>1
  <2>2. CASE t < h
    BY <1>2, <1>3, <1>4, <1>6, <2>2
  <2> QED BY <1>2, <2>1, <2>2
<1>8. ASSUME NEW j \in 1..(u + k) PROVE c2[j] = seq_mem'[slot(j) + 1]
  <2>1. /\ slot(j) \in 0..(N - 1)
        /\ slot(j) = IF h + j < N THEN h + j ELSE (h + j) - N
    <3>1. h + j \in 0..(2 * N - 1)
      BY <1>2, <1>3
    <3>2. slot(j) = IF h + j < N THEN h + j ELSE (h + j) - N
      BY <1>0, <1>i, <3>1 DEF slot
    <3> QED BY <1>2, <1>3, <3>1, <3>2
  <2>2. slot(j) + 1 \in 1..N
    BY <1>2, <2>1
  <2>3. /\ nth(slot(j) + 1) \in 0..(N - 1)
        /\ nth(slot(j) + 1) = IF slot(j) - t < 0 THEN slot(j) - t + N ELSE slot(j) - t
    <3> DEFINE a == slot(j) - t
    <3>1. (slot(j) + 1) - 1 - t = a /\ a \in Int /\ -N <= a /\ a < N
      BY <1>2, <2>1
    <3>2. nth(slot(j) + 1) = a % N
      BY <3>1 DEF nth
    <3> HIDE DEF a
    <3>3. CASE a < 0
      <4>1. a % N = a + N
        BY <1>2, <3>1, <3>3, AroundBelow
      <4> QED BY <1>2, <3>1, <3>2, <3>3, <4>1 DEF a
    <3>4. CASE a >= 0
      <4>1. a \in 0..(2 * N - 1) /\ a \in 0..(N - 1)
        BY <1>2, <3>1, <3>4
      <4>2. a % N = a
        BY <1>0, <1>i, <3>1, <4>1
      <4> QED BY <1>2, <3>1, <3>2, <3>4, <4>1, <4>2 DEF a
    <3> QED BY <3>1, <3>3, <3>4
  <2>4. seq_mem'[slot(j) + 1] = IF nth(slot(j) + 1) \in 1..k THEN args[nth(slot(j) + 1)]
                                ELSE m[slot(j) + 1]
    BY <1>1, <1>2, <1>3, <2>2
  <2>5. CASE j <= u
    <3>1. ~(nth(slot(j) + 1) \in 1..k)
      BY <1>2, <1>3, <2>1, <2>3, <2>5
    <3>2. j \in 1..u
      BY <1>2, <1>3, <2>5
    <3> QED BY <1>2, <1>4, <2>4, <2>5, <3>1, <3>2
  <2>6. CASE j > u
    <3>1. j - u \in 1..k /\ ~(j <= u)
      BY <1>2, <1>3, <2>6
    <3>2. nth(slot(j) + 1) = j - u
      <4> DEFINE at == slot(j)
                 nt == nth(slot(j) + 1)
      <4>1. /\ at = IF h + j < N THEN h + j ELSE (h + j) - N
            /\ nt = IF at - t < 0 THEN at - t + N ELSE at - t
        BY <2>1, <2>3
      <4>2. u = IF t >= h THEN t - h ELSE (t - h) + N
        BY <1>2, <1>i
      <4>3. N \in Nat /\ h \in 0..(N - 1) /\ t \in 0..(N - 1)
        BY <1>2
      <4>4. j \in Int /\ j > u /\ j <= u + k /\ u + k <= N - 1
        BY <1>3, <1>i, <2>6
      <4> HIDE DEF at, nt
      <4>5. nt = j - u
        BY ONLY <1>i, <4>1, <4>2, <4>3, <4>4
      <4> QED BY <4>5 DEF nt
    <3> QED BY <1>4, <2>4, <3>1, <3>2
  <2> QED BY <1>2, <1>3, <2>5, <2>6
<1> QED BY <1>1, <1>2, <1>4, <1>5, <1>6, <1>7, <1>8, RingAfter DEF S, N, h, slot

(* PopFront of a ring takes its first items. *)
LEMMA RingPopFrontKeeps ==
    ASSUME Seqs!ContainersAssumption, SeqInv, NEW n, Seqs!RingPopFront(n)
    PROVE  SeqInv'
<1> DEFINE S == Seqs!Items
           N == RingSize
           m == seq_mem
           h == seq_head
           t == seq_tail
           c == seq_content
           u == Len(c)
           c2 == SubSeq(c, n + 1, Len(c))
<1>1. /\ seq_kind = "ring" /\ n \in 1..Seqs!RingUsed /\ seq_head' = (h + n) % N
      /\ seq_content' = c2 /\ seq_mem' = m
      /\ seq_kind' = seq_kind /\ seq_tail' = t /\ seq_alloc' = seq_alloc
  BY DEF Seqs!RingPopFront
<1>2. /\ N \in Nat \ {0} /\ N \in Nat /\ m \in Seq(S) /\ c \in Seq(S)
      /\ Len(m) = N /\ h \in 0..(N - 1) /\ t \in 0..(N - 1)
      /\ u \in 0..(N - 1) /\ u = Seqs!RingUsed
      /\ t - h = (IF t >= h THEN u ELSE u - N)
      /\ \A i \in 1..u : c[i] = m[((h + i) % N) + 1]
  BY <1>1, RingBefore
<1>3. n \in 1..u /\ n \in Nat /\ u \in Nat
  BY <1>1, <1>2
<1> HIDE DEF S, m, h, t, c, N
<1>0. \A a \in 0..(2 * N - 1) : a % N = IF a < N THEN a ELSE a - N
  BY <1>2, Around
<1>4. c2 \in Seq(S) /\ Len(c2) = u - n /\ \A i \in 1..(u - n) : c2[i] = c[n + i]
  BY <1>2, <1>3
<1> HIDE DEF u, c2
<1>i. N \in Nat \ {0} /\ N \in Int /\ t \in Int /\ h \in Int /\ n \in Int /\ u \in Int
  BY <1>2, <1>3
<1>5. /\ seq_head' \in 0..(N - 1)
      /\ seq_head' = IF h + n < N THEN h + n ELSE (h + n) - N
  <2>1. h + n \in 0..(2 * N - 1)
    BY <1>2, <1>3
  <2>2. (h + n) % N = IF h + n < N THEN h + n ELSE (h + n) - N
    BY <1>0, <1>i, <2>1
  <2> QED BY <1>1, <1>2, <1>3, <2>1, <2>2
<1>6. Len(c2) = IF t >= seq_head' THEN t - seq_head' ELSE N - seq_head' + t
  <2>1. CASE t >= h
    BY <1>2, <1>3, <1>4, <1>5, <2>1
  <2>2. CASE t < h
    BY <1>2, <1>3, <1>4, <1>5, <2>2
  <2> QED BY <1>2, <2>1, <2>2
<1>7. ASSUME NEW i \in 1..(u - n) PROVE c2[i] = m[((seq_head' + i) % N) + 1]
  <2>1. n + i \in 1..u /\ i \in Nat
    BY <1>2, <1>3
  <2>2. (seq_head' + i) % N = (h + (n + i)) % N
    <3> DEFINE g == seq_head'
    <3> HIDE DEF g
    <3>0. g \in 0..(N - 1) /\ g = IF h + n < N THEN h + n ELSE (h + n) - N
      BY <1>5 DEF g
    <3>1. g + i \in 0..(2 * N - 1)
      BY <1>2, <1>3, <2>1, <3>0
    <3>2. h + (n + i) \in 0..(2 * N - 1)
      BY <1>2, <1>3, <2>1
    <3>3. (g + i) % N = IF g + i < N THEN g + i ELSE (g + i) - N
      BY <1>0, <1>i, <2>1, <3>0, <3>1
    <3>4. (h + (n + i)) % N = IF h + (n + i) < N THEN h + (n + i) ELSE (h + (n + i)) - N
      BY <1>0, <1>i, <2>1, <3>2
    <3>5. (g + i) % N = (h + (n + i)) % N
      BY <1>2, <1>3, <2>1, <3>0, <3>1, <3>2, <3>3, <3>4
    <3> QED BY <3>5 DEF g
  <2> QED BY <1>2, <1>4, <2>1, <2>2
<1> QED BY <1>1, <1>2, <1>4, <1>5, <1>6, <1>7, RingAfter DEF S, N, m, t

(* PopBack of a ring takes its last item; the tail may go around, and       *)
(* around the word on the way, which makes no difference because N divides  *)
(* the number of values of a word.                                          *)
LEMMA RingPopBackKeeps ==
    ASSUME Seqs!ContainersAssumption, SeqInv, Seqs!RingPopBack
    PROVE  SeqInv'
<1> DEFINE S == Seqs!Items
           N == RingSize
           m == seq_mem
           h == seq_head
           t == seq_tail
           c == seq_content
           u == Len(c)
           c2 == Seqs!Front(c)
<1>1. /\ seq_kind = "ring" /\ Seqs!RingUsed > 0
      /\ seq_tail' = ((t - 1) % WordSize) % N
      /\ seq_content' = c2 /\ seq_mem' = m
      /\ seq_kind' = seq_kind /\ seq_head' = h /\ seq_alloc' = seq_alloc
  BY DEF Seqs!RingPopBack
<1>2. /\ N \in Nat \ {0} /\ N \in Nat /\ m \in Seq(S) /\ c \in Seq(S)
      /\ Len(m) = N /\ h \in 0..(N - 1) /\ t \in 0..(N - 1)
      /\ u \in 0..(N - 1) /\ u = Seqs!RingUsed
      /\ t - h = (IF t >= h THEN u ELSE u - N)
      /\ \A i \in 1..u : c[i] = m[((h + i) % N) + 1]
  BY <1>1, RingBefore
<1>3. PICK w \in 1..WordSize : WordSize = w * N
  BY DEF Seqs!ContainersAssumption
<1>4. WordSize \in Nat
  BY DEF Seqs!ContainersAssumption
<1>5. u \in Nat /\ u > 0
  BY <1>1, <1>2
<1> HIDE DEF S, m, h, t, c, N
<1>0. \A a \in 0..(2 * N - 1) : a % N = IF a < N THEN a ELSE a - N
  BY <1>2, Around
<1>6. c2 \in Seq(S) /\ Len(c2) = u - 1 /\ \A i \in 1..(u - 1) : c2[i] = c[i]
  BY <1>2, <1>5 DEF Seqs!Front
<1> HIDE DEF u, c2
<1>i. N \in Nat \ {0} /\ N \in Int /\ t \in Int /\ h \in Int /\ t \in 0..(N - 1)
  BY <1>2
<1>7. /\ w \in Nat \ {0} /\ N <= WordSize /\ WordSize \in Nat \ {0}
  <2>1. w \in Nat \ {0}
    BY <1>3, <1>4
  <2>2. PICK v \in Nat : w = v + 1
    <3>1. w - 1 \in Nat /\ w = (w - 1) + 1
      BY <2>1
    <3> QED BY <3>1
  <2>3. w * N = v * N + N /\ v * N \in Nat
    BY <1>i, <2>2
  <2> QED BY <1>i, <1>3, <1>4, <2>1, <2>3
<1>8. seq_tail' = IF t = 0 THEN N - 1 ELSE t - 1
  <2>1. CASE t = 0
    <3>1. (t - 1) % WordSize = WordSize - 1
      <4>1. t - 1 \in Int /\ -WordSize <= t - 1 /\ t - 1 < 2 * WordSize /\ t - 1 < 0
        BY <1>7, <2>1
      <4>2. (t - 1) % WordSize = (t - 1) + WordSize
        BY <1>7, <4>1, AroundBelow
      <4> QED BY <1>7, <2>1, <4>2
    <3>2. WordSize - 1 = N * (w - 1) + (N - 1)
      BY <1>i, <1>3, <1>7
    <3>3. (WordSize - 1) % N = N - 1
      <4>1. WordSize - 1 \in Int /\ w - 1 \in Int /\ N - 1 \in 0..(N - 1)
        BY <1>i, <1>7
      <4> QED BY <1>i, <3>2, <4>1, RemainderIs
    <3> QED BY <1>1, <2>1, <3>1, <3>3
  <2>2. CASE t # 0
    <3>1. t - 1 \in 0..(N - 1) /\ t - 1 \in 0..(WordSize - 1)
      BY <1>i, <1>7, <2>2
    <3>2. (t - 1) % WordSize = t - 1
      BY <1>7, <3>1
    <3>3. (t - 1) % N = t - 1
      BY <1>i, <3>1
    <3> QED BY <1>1, <2>2, <3>2, <3>3
  <2> QED BY <2>1, <2>2
<1>9. seq_tail' \in 0..(N - 1)
  BY <1>2, <1>8
<1>10. Len(c2) = IF seq_tail' >= h THEN seq_tail' - h ELSE N - h + seq_tail'
  <2>1. CASE t >= h
    BY <1>2, <1>5, <1>6, <1>8, <2>1
  <2>2. CASE t < h
    BY <1>2, <1>5, <1>6, <1>8, <2>2
  <2> QED BY <1>2, <2>1, <2>2
<1>11. ASSUME NEW i \in 1..(u - 1) PROVE c2[i] = m[((h + i) % N) + 1]
  <2>1. i \in 1..u
    BY <1>2
  <2> QED BY <1>2, <1>6, <2>1
<1> QED BY <1>1, <1>2, <1>6, <1>9, <1>10, <1>11, RingAfter DEF S, N, m, h

(* A container begins empty. *)
LEMMA SeqInit == Seqs!ContainersAssumption /\ Seqs!Init => SeqInv
<1> SUFFICES ASSUME Seqs!ContainersAssumption, Seqs!Init PROVE SeqInv
  OBVIOUS
<1> DEFINE N == RingSize
<1>1. N \in Nat \ {0}
  BY DEF Seqs!ContainersAssumption
<1>2. PICK garbage \in Seqs!Items :
          seq_mem = IF seq_kind = "ring" THEN [i \in 1..N |-> garbage] ELSE <<>>
  BY DEF Seqs!Init
<1>3. /\ seq_kind \in {"deque", "odeque", "set", "ring"} /\ seq_alloc = Len(seq_mem)
      /\ seq_head = 0 /\ seq_tail = 0 /\ seq_content = <<>>
  BY DEF Seqs!Init
<1> DEFINE r == [i \in 1..N |-> garbage]
<1>4. r \in Seq(Seqs!Items) /\ Len(r) = N
  BY <1>1, <1>2
<1> HIDE DEF r, N
<1>5. CASE seq_kind = "ring"
  <2>1. seq_mem = r
    BY <1>2, <1>5 DEF r
  <2>2. Seqs!TypeOK
    BY <1>1, <1>3, <1>4, <2>1 DEF Seqs!TypeOK, N
  <2>3. /\ Len(seq_mem) = RingSize /\ seq_head < RingSize
        /\ Len(seq_content) = Seqs!RingUsed
        /\ SeqRing(seq_mem, seq_head, seq_content)
    BY <1>1, <1>3, <1>4, <2>1 DEF Seqs!RingUsed, SeqRing, N
  <2> QED BY <1>5, <2>2, <2>3 DEF SeqInv
<1>6. CASE seq_kind # "ring"
  <2>1. seq_mem = <<>>
    BY <1>2, <1>6
  <2>2. Seqs!TypeOK
    BY <1>1, <1>3, <2>1 DEF Seqs!TypeOK, N
  <2> QED BY <1>3, <1>6, <2>1, <2>2 DEF SeqInv, SeqHeld, SeqSorted, SeqApart
<1> QED BY <1>5, <1>6

(* Every step keeps the invariant. *)
LEMMA SeqStep == Seqs!ContainersAssumption /\ SeqInv /\ [Seqs!Next]_Seqs!vars => SeqInv'
<1> SUFFICES ASSUME Seqs!ContainersAssumption, SeqInv, [Seqs!Next]_Seqs!vars PROVE SeqInv'
  OBVIOUS
<1>1. CASE \E pos \in 0..Seqs!Size, arg \in Seqs!Items : Seqs!DequeInsert(pos, arg)
  BY <1>1, DequeInsertKeeps
<1>2. CASE \E a, b \in Seqs!Items : Seqs!DequePushBack(<< a, b >>)
  BY <1>2, DequePushBackKeeps
<1>3. CASE \E pos, num \in 0..Seqs!Size :
               Seqs!DequeErase(pos, num) \/ Seqs!ODequeErase(pos, num)
  BY <1>3, DequeEraseKeeps, ODequeEraseKeeps
<1>4. CASE Seqs!DequePopBack \/ Seqs!Flush
  BY <1>4, DequePopBackKeeps, FlushKeeps
<1>5. CASE \E arg \in Seqs!Items :
               Seqs!ODequeInsert(arg) \/ Seqs!SetInsert(arg) \/ Seqs!SetErase(arg)
  BY <1>5, ODequeInsertKeeps, SetInsertKeeps, SetEraseKeeps
<1>6. CASE \E a, b \in Seqs!Items :
               Seqs!RingPushBack(<< a >>) \/ Seqs!RingPushBack(<< a, b >>)
  <2>1. PICK a \in Seqs!Items, b \in Seqs!Items :
            Seqs!RingPushBack(<< a >>) \/ Seqs!RingPushBack(<< a, b >>)
    BY <1>6
  <2>2. << a >> \in Seq(Seqs!Items) /\ << a, b >> \in Seq(Seqs!Items)
    OBVIOUS
  <2> QED BY <2>1, <2>2, RingPushBackKeeps
<1>7. CASE \E n \in 1..RingSize : Seqs!RingPopFront(n)
  BY <1>7, RingPopFrontKeeps
<1>8. CASE Seqs!RingPopBack
  BY <1>8, RingPopBackKeeps
<1>9. CASE UNCHANGED Seqs!vars
  <2>1. /\ seq_kind' = seq_kind /\ seq_mem' = seq_mem /\ seq_alloc' = seq_alloc
        /\ seq_head' = seq_head /\ seq_tail' = seq_tail /\ seq_content' = seq_content
    BY <1>9 DEF Seqs!vars
  <2> QED BY <2>1 DEF SeqInv, Seqs!TypeOK, Seqs!RingUsed
<1> QED
  BY <1>1, <1>2, <1>3, <1>4, <1>5, <1>6, <1>7, <1>8, <1>9 DEF Seqs!Next

(* So it always holds. *)
LEMMA SeqInvariance == Seqs!Spec => []SeqInv
<1>1. Seqs!Init => SeqInv
  BY LibraryAssumption, SeqInit DEF LibraryAssumption
<1>2. SeqInv /\ [Seqs!Next]_Seqs!vars => SeqInv'
  BY LibraryAssumption, SeqStep DEF LibraryAssumption
<1> QED BY <1>1, <1>2, PTL DEF Seqs!Spec

(* A ring gives its items in order, and the block that its reader takes at  *)
(* once has the first of them.                                              *)
LEMMA RingExact ==
    ASSUME Seqs!ContainersAssumption, SeqInv, seq_kind = "ring"
    PROVE  LET first == (seq_head + 1) % RingSize
           IN  /\ [i \in 1..Seqs!RingUsed |-> Seqs!RingItem(i - 1)] = seq_content
               /\ SubSeq(seq_mem, first + 1, first + Seqs!Continuous)
                      = SubSeq(seq_content, 1, Seqs!Continuous)
               /\ Seqs!Continuous = 0 <=> seq_content = <<>>
<1> DEFINE S == Seqs!Items
           N == RingSize
           m == seq_mem
           h == seq_head
           t == seq_tail
           c == seq_content
           u == Len(c)
           k == Seqs!Continuous
           first == (h + 1) % N
           items == [i \in 1..Seqs!RingUsed |-> Seqs!RingItem(i - 1)]
<1>1. /\ N \in Nat \ {0} /\ m \in Seq(S) /\ c \in Seq(S)
      /\ Len(m) = N /\ h \in 0..(N - 1) /\ t \in 0..(N - 1)
      /\ u \in 0..(N - 1) /\ u = Seqs!RingUsed
      /\ t - h = (IF t >= h THEN u ELSE u - N)
  BY RingBefore
<1>2. \A i \in 1..u : c[i] = m[((h + i) % N) + 1]
  BY RingBefore
<1>3. k = IF h <= t THEN u ELSE IF h = N - 1 THEN t + 1 ELSE N - h - 1
  BY <1>1 DEF Seqs!Continuous
<1>4. \A i \in 1..u : items[i] = m[((h + (i - 1) + 1) % N) + 1]
  BY <1>1 DEF Seqs!RingItem
<1>5. items = [i \in 1..u |-> items[i]]
  BY <1>1
<1> HIDE DEF S, N, m, h, t, c, k, items
<1>6. items = c
  <2>1. \A i \in 1..u : items[i] = c[i]
    <3> SUFFICES ASSUME NEW i \in 1..u PROVE items[i] = c[i]
      OBVIOUS
    <3>1. h + (i - 1) + 1 = h + i
      BY <1>1
    <3> QED BY <1>2, <1>4, <3>1
  <2>2. c = [i \in 1..u |-> c[i]]
    BY <1>1
  <2> QED BY <1>5, <2>1, <2>2
<1>7. \A a \in 0..(2 * N - 1) : a % N = IF a < N THEN a ELSE a - N
  BY <1>1, Around
<1> HIDE DEF u
<1>8. N \in Nat \ {0} /\ N \in Int /\ h \in Int /\ h \in 0..(N - 1)
  BY <1>1
<1>9. first = IF h + 1 < N THEN h + 1 ELSE 0
  <2>1. h + 1 \in 0..(2 * N - 1) /\ (h + 1 < N \/ h + 1 = N)
    BY <1>8
  <2>2. (h + 1) % N = IF h + 1 < N THEN h + 1 ELSE (h + 1) - N
    BY <1>7, <1>8, <2>1
  <2> QED BY <1>8, <2>1, <2>2
<1> HIDE DEF first
<1>10. k \in 0..u /\ first \in 0..(N - 1) /\ first + k <= N /\ (k = 0 <=> u = 0)
  <2>1. CASE h <= t
    BY <1>1, <1>3, <1>9, <2>1
  <2>2. CASE ~(h <= t)
    BY <1>1, <1>3, <1>9, <2>2
  <2> QED BY <2>1, <2>2
<1>11. SubSeq(m, first + 1, first + k) = SubSeq(c, 1, k)
  <2> DEFINE x == SubSeq(m, first + 1, first + k)
             y == SubSeq(c, 1, k)
  <2>1. x \in Seq(S) /\ Len(x) = k /\ \A i \in 1..k : x[i] = m[first + i]
    BY <1>1, <1>10
  <2>2. y \in Seq(S) /\ Len(y) = k /\ \A i \in 1..k : y[i] = c[i]
    BY <1>1, <1>10 DEF u
  <2> HIDE DEF x, y
  <2>3. ASSUME NEW i \in 1..k PROVE x[i] = y[i]
    <3>1. i \in 1..u /\ i \in Int /\ i <= k
      BY <1>1, <1>10
    <3>2. h + i \in 0..(2 * N - 1)
      BY <1>1, <1>10, <3>1
    <3>3. (h + i) % N = IF h + i < N THEN h + i ELSE (h + i) - N
      BY <1>7, <1>8, <3>1, <3>2
    <3>4. ((h + i) % N) + 1 = first + i
      <4>1. CASE h + 1 < N
        <5>1. h + i < N
          BY <1>1, <1>9, <1>10, <3>1, <4>1
        <5> QED BY <1>8, <1>9, <3>1, <3>3, <4>1, <5>1
      <4>2. CASE ~(h + 1 < N)
        <5>1. h + 1 = N
          BY <1>8, <4>2
        <5> QED BY <1>8, <1>9, <3>1, <3>3, <4>2, <5>1
      <4> QED BY <4>1, <4>2
    <3> QED BY <1>2, <2>1, <2>2, <3>1, <3>4
  <2>4. x = y
    BY <2>1, <2>2, <2>3, SeqEqual
  <2> QED BY <2>4 DEF x, y
<1>12. u = 0 <=> c = <<>>
  BY <1>1 DEF u
<1> QED BY <1>6, <1>10, <1>11, <1>12 DEF items, c, m, first, k, h, N

(* What is held is what is expected, and Find tells whether it is. *)
LEMMA SeqExact == Seqs!ContainersAssumption /\ SeqInv => Seqs!ContentExact
<1> SUFFICES ASSUME Seqs!ContainersAssumption, SeqInv PROVE Seqs!ContentExact
  OBVIOUS
<1>1. ASSUME seq_kind # "ring"
      PROVE  SubSeq(seq_mem, seq_head + 1, Len(seq_mem)) = seq_content
  BY <1>1, SeqBefore, HeldWhole
<1>2. ASSUME seq_kind \in {"odeque", "set"}, NEW arg \in Seqs!Items,
             NEW pos, pos = Seqs!Find(arg, seq_head)
      PROVE  IF \E i \in DOMAIN seq_content : Seqs!IsEqual(arg, seq_content[i])
             THEN pos >= seq_head /\ Seqs!IsEqual(arg, seq_mem[pos + 1])
             ELSE pos = -1
  <2> DEFINE m == seq_mem
             h == seq_head
             c == seq_content
  <2>1. /\ Holds(m, h, c) /\ m \in Seq(Seqs!Items) /\ c \in Seq(Seqs!Items)
        /\ h \in 0..Len(m) /\ h \in Nat
    BY <1>2, SeqBefore
  <2>2. SeqSorted(m, h)
    BY <1>2 DEF SeqInv
  <2>3. Finds(pos, h, arg)
    BY <1>2, <2>1, <2>2, FindsEqual
  <2>4. /\ Len(m) \in Nat /\ Len(c) \in Nat /\ Len(c) = Len(m) - h
        /\ \A i \in 1..Len(c) : c[i] = m[h + i]
    BY <2>1 DEF Holds, SeqHeld
  <2>5. \A i \in DOMAIN c : Seqs!IsEqual(arg, c[i]) <=> arg[1] = c[i][1]
    BY <2>1, EqualKeys
  <2>6. DOMAIN c = 1..Len(c)
    BY <2>1
  <2> HIDE DEF m, h, c
  <2>7. CASE pos \in h..(Len(m) - 1) /\ m[pos + 1][1] = arg[1]
    <3>1. /\ pos \in Nat /\ (pos - h) + 1 \in 1..Len(c) /\ h + ((pos - h) + 1) = pos + 1
          /\ pos + 1 \in 1..Len(m) /\ pos >= h
      BY <2>1, <2>4, <2>7
    <3>2. c[(pos - h) + 1] = m[pos + 1]
      BY <2>4, <3>1
    <3>3. Seqs!IsEqual(arg, m[pos + 1])
      BY <2>5, <2>6, <2>7, <3>1, <3>2
    <3> QED BY <2>6, <3>1, <3>2, <3>3 DEF m, h, c
  <2>8. CASE pos = -1 /\ \A i \in (h + 1)..Len(m) : m[i][1] # arg[1]
    <3>1. ASSUME NEW i \in 1..Len(c) PROVE c[i][1] # arg[1]
      <4>1. h + i \in (h + 1)..Len(m)
        BY <2>1, <2>4
      <4> QED BY <2>4, <2>8, <4>1
    <3>2. ~\E i \in DOMAIN c : Seqs!IsEqual(arg, c[i])
      BY <2>5, <2>6, <3>1
    <3> QED BY <2>8, <3>2 DEF c
  <2> QED BY <2>3, <2>7, <2>8 DEF Finds, m, h
<1>3. seq_kind \in {"odeque", "set"} =>
          \A arg \in Seqs!Items :
              LET pos == Seqs!Find(arg, seq_head)
              IN  IF \E i \in DOMAIN seq_content : Seqs!IsEqual(arg, seq_content[i])
                  THEN pos >= seq_head /\ Seqs!IsEqual(arg, seq_mem[pos + 1])
                  ELSE pos = -1
  BY <1>2
<1> QED BY <1>1, <1>3, RingExact DEF Seqs!ContentExact

-----------------------------------------------------------------------------
(* The library is one of the containers. *)
LEMMA ContainersMapped == Spec => Seqs!Spec
<1>1. Init => Seqs!Init
  BY DEF Init
<1>2. [Next]_vars => [Seqs!Next]_Seqs!vars
  <2>1. CASE ContainersMoves
    BY <2>1 DEF ContainersMoves
  <2>2. CASE UNCHANGED seqVars
    BY <2>2 DEF seqVars, Seqs!vars
  <2> QED
    BY <2>1, <2>2
        DEF vars, Next,
            NetworkMoves, DhcpMoves, UdpMoves, HashTableMoves,
            FreelistMoves, Fat32Moves, BlkCacheMoves, DmaMoves, EepromMoves,
            UtilMoves, UsbMoves
<1> QED
  BY <1>1, <1>2, PTL DEF Spec, vars, Seqs!Spec

(* A container has what was put into it and not taken out, in its order,    *)
(* Find finds an equal item exactly if there is one, and the block that a   *)
(* ring's reader takes at once has the first items (Deque::AutoCompact,     *)
(* OVector::FindGreaterThan, Set::Insert, Ring::Continuous).                *)
THEOREM ContentsKept == Spec => []ContentExact
<1>1. SeqInv => ContentExact
  BY LibraryAssumption, SeqExact DEF LibraryAssumption, ContentExact
<1> QED BY <1>1, SeqInvariance, ContainersMapped, PTL

-----------------------------------------------------------------------------
(* The USB device.  Once the host's last SETUP has been taken from the       *)
(* controller it is the request that the thread has, or had.  The invariant *)
(* follows it there, through SETUPs that come over the packet that the      *)
(* interrupt has read and resets in between, and says of the IN side that   *)
(* it is the reply once the thread has no request left to serve.            *)
Sides == [packet : Seq(Nat), buf : Seq(Nat), filled : BOOLEAN, done : BOOLEAN,
          zlp : BOOLEAN, hold : BOOLEAN]
Endpoints == [buf : Seq(Nat), filled : BOOLEAN, done : BOOLEAN, zlp : BOOLEAN,
              hold : BOOLEAN]
Asks == Wire!Requests \cup {"none", "status"}
Setups == [id : Nat, asks : Asks]
Chips == [out : Setups, packet : Seq(Nat),
          bits : SUBSET {Wire!EP0_OUT, Wire!EP0_IN}, stall : BOOLEAN,
          changed : SUBSET {"reset", "connected", "suspended"},
          now : SUBSET {"reset", "connected", "suspended"}]
Hands == [busy : BOOLEAN, bits : SUBSET {Wire!EP0_OUT, Wire!EP0_IN}, read : Setups]
Hosts == [id : Nat, asks : Wire!Requests, got : Seq(Seq(Nat)), ended : BOOLEAN,
          changes : Nat]

UsbTypes ==
    /\ usb_in \in Endpoints /\ usb_chip \in Chips
    /\ usb_hand \in Hands /\ usb_host \in Hosts
    /\ usb_request \in Setups
    /\ usb_have_setup \in BOOLEAN /\ usb_wake \in BOOLEAN
    /\ usb_service \subseteq {Wire!EP0_OUT, Wire!EP0_IN}

(* All units of q are of the reply to SETUP id. *)
AllOf(id, q) == \A i \in 1..Len(q) : q[i] = id
Answerable == DOMAIN Wire!Data \cup Wire!Acked
HostSetup == [id |-> usb_host.id, asks |-> usb_host.asks]
NoneWaits == ~Wire!IsSetup(usb_chip.out) /\ ~usb_host.ended

(* A SETUP in the controller is the host's last one, and no IN packet is in *)
(* there with it; one that the interrupt has read is, or was written over.  *)
SetupInChip ==
    Wire!IsSetup(usb_chip.out) =>
        usb_chip.out = HostSetup /\ usb_chip.packet = Wire!None
SetupInHand ==
    /\ usb_hand.read # Wire!NoSetup => Wire!EP0_OUT \in usb_hand.bits
    /\ Wire!IsSetup(usb_hand.read) => Wire!IsSetup(usb_chip.out)
SetupRequested == NoneWaits => usb_request = HostSetup /\ usb_host.id > 0
ResetEnds == "reset" \in usb_chip.changed => usb_host.ended

(* The thread does not sleep on a request without being called. *)
ThreadAwake ==
    usb_have_setup =>
        /\ Wire!EP0_OUT \in usb_service
        /\ usb_wake \/ usb_pc \in {"loop", "out", "woken", "down"}

(* Once it has served it, the IN side has the reply, or there is a reason.  *)
ReplyCurrent ==
    NoneWaits /\ ~usb_have_setup =>
        /\ AllOf(usb_host.id, usb_in.buf)
        /\ usb_host.asks \in Answerable =>
               usb_chip.packet = Wire!None \/ AllOf(usb_host.id, usb_chip.packet)
SetupReplied ==
    NoneWaits /\ ~usb_have_setup =>
        \/ usb_chip.packet # Wire!None \/ usb_chip.stall \/ usb_host.got # <<>>
        \/ usb_host.asks = "ignored" \/ usb_pc = "down"

UsbInv ==
    /\ UsbTypes /\ SetupInChip /\ SetupInHand /\ SetupRequested /\ ResetEnds
    /\ ReplyCurrent /\ ThreadAwake /\ SetupReplied

LEMMA UsbSizes == MaxPkt \in Nat \ {0}
BY LibraryAssumption DEF LibraryAssumption, Wire!UsbAssumption

(* Both parts of a sequence cut in two are of the reply that it is of.      *)
LEMMA PieceTaken ==
    ASSUME NEW q \in Seq(Nat), NEW id \in Nat, NEW n \in 0..Len(q)
    PROVE  /\ SubSeq(q, 1, n) \in Seq(Nat) /\ SubSeq(q, n + 1, Len(q)) \in Seq(Nat)
           /\ AllOf(id, q) =>
                  AllOf(id, SubSeq(q, 1, n)) /\ AllOf(id, SubSeq(q, n + 1, Len(q)))
BY DEF AllOf

(* Units of the reply are added to it.                                      *)
LEMMA PieceAdded ==
    ASSUME NEW q \in Seq(Nat), NEW id \in Nat, AllOf(id, q), NEW n \in Nat
    PROVE  /\ q \o [i \in 1..n |-> id] \in Seq(Nat)
           /\ AllOf(id, q \o [i \in 1..n |-> id])
<1> DEFINE p == [i \in 1..n |-> id]
<1>1. p \in Seq(Nat) /\ Len(p) = n /\ \A i \in 1..n : p[i] = id
  OBVIOUS
<1> HIDE DEF p
<1>2. q \o p \in Seq(Nat) /\ AllOf(id, q \o p)
  BY <1>1 DEF AllOf
<1> QED
  BY <1>2 DEF p

(* FillINEP moves what the buffer has into the controller, at the latest    *)
(* when the reply is done.                                                  *)
LEMMA FillINEPFills ==
    ASSUME NEW s \in Sides, NEW id \in Nat, NEW t, t = Wire!FillINEP(s)
    PROVE  /\ t \in Sides /\ t.hold = s.hold /\ t.done = s.done
           /\ AllOf(id, s.buf) =>
                  AllOf(id, t.buf) /\ (t = s \/ (t.filled /\ AllOf(id, t.packet)))
           /\ ~s.hold /\ s.done => t.filled
<1> DEFINE count == IF Len(s.buf) < MaxPkt THEN Len(s.buf) ELSE MaxPkt
<1>1. /\ s.buf \in Seq(Nat)
      /\ s.hold \in BOOLEAN
      /\ s.filled \in BOOLEAN
      /\ s.done \in BOOLEAN
      /\ s.zlp \in BOOLEAN
  BY DEF Sides
<1>2. count \in 0..Len(s.buf)
  BY <1>1, UsbSizes
<1>3. CASE ~s.hold /\ ~s.filled /\ (s.done \/ Len(s.buf) >= MaxPkt)
  <2>1. t = [s EXCEPT !.packet = SubSeq(s.buf, 1, count),
                       !.buf = SubSeq(s.buf, count + 1, Len(s.buf)),
                       !.zlp = @ \/ (count = MaxPkt /\ Len(s.buf) = count),
                       !.filled = TRUE]
    BY <1>3 DEF Wire!FillINEP
  <2> HIDE DEF count
  <2> DEFINE taken == SubSeq(s.buf, 1, count)
             left == SubSeq(s.buf, count + 1, Len(s.buf))
             zlp == s.zlp \/ (count = MaxPkt /\ Len(s.buf) = count)
  <2>2. /\ taken \in Seq(Nat) /\ left \in Seq(Nat)
        /\ AllOf(id, s.buf) => AllOf(id, taken) /\ AllOf(id, left)
    BY <1>1, <1>2, PieceTaken
  <2>3. zlp \in BOOLEAN
    BY <1>1
  <2>4. t = [s EXCEPT !.packet = taken, !.buf = left, !.zlp = zlp, !.filled = TRUE]
    BY <2>1
  <2> HIDE DEF taken, left, zlp
  <2>5. /\ t \in Sides /\ t.buf = left /\ t.packet = taken /\ t.filled
        /\ t.hold = s.hold /\ t.done = s.done
    BY <2>2, <2>3, <2>4 DEF Sides
  <2> QED
    BY <2>2, <2>5
<1>4. CASE ~(~s.hold /\ ~s.filled /\ (s.done \/ Len(s.buf) >= MaxPkt))
  <2>1. t = s
    BY <1>4 DEF Wire!FillINEP
  <2> QED
    BY <1>1, <1>4, <2>1
<1> QED
  BY <1>3, <1>4

(* What a reply is while it is written. *)
Replying(s, id) ==
    s \in Sides /\ AllOf(id, s.buf) /\ (s.filled => AllOf(id, s.packet))

(* A reply stays one reply through the operations that write it (Write).    *)
LEMMA WriteAdds ==
    ASSUME NEW s, NEW id \in Nat, Replying(s, id), NEW n \in Nat
    PROVE  Replying(Wire!Write(s, id, n), id) /\ Wire!Write(s, id, n).hold = s.hold
<1> DEFINE u == [s EXCEPT !.done = FALSE, !.zlp = FALSE,
                 !.buf = @ \o [i \in 1..n |-> id]]
<1>1. /\ s.buf \o [i \in 1..n |-> id] \in Seq(Nat)
      /\ AllOf(id, s.buf \o [i \in 1..n |-> id])
  BY PieceAdded DEF Replying, Sides
<1>2. /\ u \in Sides /\ u.buf = s.buf \o [i \in 1..n |-> id]
      /\ u.filled = s.filled /\ u.packet = s.packet /\ u.hold = s.hold
  BY <1>1 DEF Replying, Sides
<1> DEFINE t == Wire!Write(s, id, n)
<1>3. t = Wire!FillINEP(u)
  BY DEF Wire!Write
<1>4. u \in Sides /\ AllOf(id, u.buf)
  BY <1>1, <1>2
<1> HIDE DEF u, t
<1>5. /\ t \in Sides /\ AllOf(id, t.buf) /\ t.hold = u.hold
      /\ t = u \/ (t.filled /\ AllOf(id, t.packet))
  BY <1>3, <1>4, FillINEPFills
<1>6. Replying(t, id) /\ t.hold = s.hold
  BY <1>2, <1>5 DEF Replying
<1> QED
  BY <1>6 DEF t

(* Holding back the packets does not change that (WriteHold).               *)
LEMMA WriteHolds ==
    ASSUME NEW s, NEW id \in Nat, Replying(s, id)
    PROVE  /\ Replying(Wire!WriteHold(s, TRUE), id)
           /\ Replying(Wire!WriteHold(s, FALSE), id)
           /\ ~Wire!WriteHold(s, FALSE).hold
<1>1. /\ [s EXCEPT !.hold = TRUE] \in Sides /\ [s EXCEPT !.hold = TRUE].buf = s.buf
      /\ [s EXCEPT !.hold = TRUE].filled = s.filled
      /\ [s EXCEPT !.hold = TRUE].packet = s.packet
  BY DEF Replying, Sides
<1>2. Replying(Wire!WriteHold(s, TRUE), id)
  BY <1>1 DEF Replying, Wire!WriteHold
<1> DEFINE u == [s EXCEPT !.hold = FALSE]
<1>3. /\ u \in Sides /\ u.buf = s.buf /\ u.filled = s.filled /\ u.packet = s.packet
      /\ u.hold = FALSE
  BY DEF Replying, Sides
<1>4. Wire!WriteHold(s, FALSE) = Wire!FillINEP(u)
  BY DEF Wire!WriteHold
<1> HIDE DEF u
<1> QED
  BY <1>2, <1>3, <1>4, FillINEPFills DEF Replying

(* When it is done, the packet is of the reply too (WriteDone).             *)
LEMMA WriteDoneEnds ==
    ASSUME NEW s, NEW id \in Nat, Replying(s, id), ~s.hold, NEW zlp \in BOOLEAN,
           NEW t, t = Wire!WriteDone(s, zlp)
    PROVE  t \in Sides /\ AllOf(id, t.buf) /\ AllOf(id, t.packet)
<1> DEFINE u == [s EXCEPT !.done = TRUE]
<1>1. /\ u \in Sides
      /\ u.buf = s.buf
      /\ u.filled = s.filled
      /\ u.packet = s.packet
      /\ u.hold = s.hold
      /\ u.done = TRUE
  BY DEF Replying, Sides
<1> DEFINE f == Wire!FillINEP(u)
<1> DEFINE e == [f EXCEPT !.zlp = zlp]
<1>2. t = IF ~e.filled /\ zlp THEN Wire!EmitZLP(e) ELSE e
  BY DEF Wire!WriteDone
<1> HIDE DEF u
<1>3. f \in Sides /\ AllOf(id, f.buf) /\ f.filled /\ AllOf(id, f.packet)
  BY <1>1, FillINEPFills DEF Replying
<1> HIDE DEF f
<1>4. e \in Sides /\ e.buf = f.buf /\ e.filled = f.filled /\ e.packet = f.packet
  BY <1>3 DEF Sides
<1> HIDE DEF e
<1>5. t = e
  BY <1>2, <1>3, <1>4
<1> QED
  BY <1>3, <1>4, <1>5

(* It is written in up to three pieces.                                     *)
LEMMA PiecesWrite ==
    ASSUME NEW s, NEW id \in Nat, Replying(s, id), NEW lens,
           Len(lens) \in 1..3, \A i \in 1..Len(lens) : lens[i] \in Nat
    PROVE  /\ Replying(Wire!WritePieces(s, id, lens), id)
           /\ Wire!WritePieces(s, id, lens).hold = s.hold
<1> DEFINE first == Wire!Write(s, id, lens[1])
<1> DEFINE second == Wire!Write(first, id, lens[2])
<1> DEFINE third == Wire!Write(second, id, lens[3])
<1>5. /\ lens[1] \in Nat
      /\ Len(lens) # 1 => lens[2] \in Nat
      /\ Len(lens) = 3 => lens[3] \in Nat
  OBVIOUS
<1>1. Replying(first, id) /\ first.hold = s.hold
  BY <1>5, WriteAdds
<1>4. Wire!WritePieces(s, id, lens)
          = IF Len(lens) = 1 THEN first ELSE IF Len(lens) = 2 THEN second ELSE third
  BY DEF Wire!WritePieces
<1> HIDE DEF first
<1>2. Len(lens) # 1 => Replying(second, id) /\ second.hold = s.hold
  BY <1>5, <1>1, WriteAdds
<1> HIDE DEF second
<1>3. Len(lens) = 3 => Replying(third, id) /\ third.hold = s.hold
  <2> SUFFICES ASSUME Len(lens) = 3
               PROVE  Replying(third, id) /\ third.hold = s.hold
    OBVIOUS
  <2>1. Replying(second, id) /\ second.hold = s.hold /\ lens[3] \in Nat
    BY <1>5, <1>2
  <2>2. Replying(third, id) /\ third.hold = second.hold
    BY <2>1, WriteAdds
  <2> QED
    BY <2>1, <2>2
<1> HIDE DEF third
<1> QED
  BY <1>4, <1>1, <1>2, <1>3

(* The interrupt sends on only what the buffer has (HandleInterrupt).       *)
LEMMA SentFills ==
    ASSUME NEW s \in Sides, NEW id \in Nat, NEW t, t = Wire!Sent(s)
    PROVE  /\ t \in Sides
           /\ AllOf(id, s.buf) =>
                  AllOf(id, t.buf) /\ (t.packet = s.packet \/ AllOf(id, t.packet))
<1> DEFINE u == [s EXCEPT !.filled = FALSE]
<1>1. u \in Sides /\ u.buf = s.buf /\ u.packet = s.packet
  BY DEF Sides
<1> DEFINE f == Wire!FillINEP(u)
<1>2. t = IF ~f.filled /\ f.done /\ f.buf = <<>> /\ f.zlp
          THEN Wire!EmitZLP(f) ELSE f
  BY DEF Wire!Sent
<1> HIDE DEF u
<1>3. /\ f \in Sides
      /\ (AllOf(id, s.buf) =>
             AllOf(id, f.buf) /\ (f.packet = s.packet \/ AllOf(id, f.packet)))
  BY <1>1, FillINEPFills
<1> HIDE DEF f
<1>4. /\ Wire!EmitZLP(f) \in Sides
      /\ Wire!EmitZLP(f).buf = f.buf
      /\ Wire!EmitZLP(f).packet = <<>>
  <2>1. <<>> \in Seq(Nat)
    OBVIOUS
  <2> QED
    BY <1>3, <2>1 DEF Wire!EmitZLP, Sides
<1>5. AllOf(id, <<>>)
  BY DEF AllOf
<1> QED
  BY <1>2, <1>3, <1>4, <1>5

(* The endpoint and its packet are put together.                            *)
LEMMA SideTyped ==
    ASSUME UsbTypes
    PROVE  /\ Wire!Side \in Sides
           /\ Wire!Side.buf = usb_in.buf /\ Wire!Side.packet = usb_chip.packet
BY DEF UsbTypes, Endpoints, Chips, Hands, Hosts, Wire!Side, Sides

(* A flush leaves nothing, whatever was there (Flush).                      *)
LEMMA FlushedGood ==
    ASSUME UsbTypes, NEW id \in Nat
    PROVE  /\ Replying(Wire!Flushed(Wire!Side), id)
           /\ ~Wire!Flushed(Wire!Side).hold
           /\ Wire!Flushed(Wire!Side).buf = <<>>
           /\ Wire!Flushed(Wire!Side).packet = usb_chip.packet
<1>1. Wire!Side \in Sides /\ Wire!Side.packet = usb_chip.packet
  BY SideTyped
<1>2. /\ Wire!Flushed(Wire!Side) \in Sides
      /\ Wire!Flushed(Wire!Side).buf = <<>>
      /\ Wire!Flushed(Wire!Side).filled = FALSE
      /\ Wire!Flushed(Wire!Side).hold = FALSE
      /\ Wire!Flushed(Wire!Side).packet = usb_chip.packet
  <2> DEFINE empty == <<>>
  <2>1. /\ empty \in Seq(Nat)
        /\ Wire!Flushed(Wire!Side) = [Wire!Side EXCEPT !.buf = empty, !.filled = FALSE,
                                      !.done = FALSE,
                                           !.zlp = FALSE, !.hold = FALSE]
    BY DEF Wire!Flushed
  <2> HIDE DEF empty
  <2>2. /\ Wire!Flushed(Wire!Side) \in Sides
        /\ Wire!Flushed(Wire!Side).buf = empty
        /\ Wire!Flushed(Wire!Side).filled = FALSE
        /\ Wire!Flushed(Wire!Side).hold = FALSE
        /\ Wire!Flushed(Wire!Side).packet = usb_chip.packet
    BY <1>1, <2>1 DEF Sides
  <2> QED
    BY <2>2 DEF empty
<1> QED
  BY <1>2 DEF Replying, AllOf

(* What ProcessSetup makes of it is the reply to the request.               *)
LEMMA Processed ==
    ASSUME UsbTypes, NEW s, s = Wire!ProcessSetup(Wire!Flushed(Wire!Side))
    PROVE  /\ s \in Sides /\ AllOf(usb_request.id, s.buf)
           /\ usb_request.asks \in Answerable => AllOf(usb_request.id, s.packet)
<1> DEFINE b == Wire!Flushed(Wire!Side)
<1> DEFINE id == usb_request.id
<1>1. id \in Nat
  BY DEF UsbTypes, Endpoints, Chips, Hands, Hosts, Setups
<1>2. Replying(b, id) /\ ~b.hold
  BY <1>1, FlushedGood
<1>3. s
          = IF usb_request.asks = "config" THEN Wire!ReplyHeld(b, id, Wire!Data.config)
          ELSE IF usb_request.asks \in DOMAIN Wire!Data
              THEN Wire!Reply(b, id, Wire!Data[usb_request.asks])
          ELSE IF usb_request.asks \in Wire!Acked
              THEN Wire!WriteDone([b EXCEPT !.filled = FALSE], TRUE)
          ELSE b
  BY DEF Wire!ProcessSetup
<1>4. DOMAIN Wire!Data = {"device", "string", "config", "short"}
  BY DEF Wire!Data
<1>5. \A a \in DOMAIN Wire!Data :
          Len(Wire!Data[a]) \in 1..3 /\ \A i \in 1..Len(Wire!Data[a]) :
              Wire!Data[a][i] \in Nat
  <2>1. /\ Wire!Data["device"] = <<2>>
        /\ Wire!Data["string"] = <<1, 2>>
        /\ Wire!Data["config"] = <<1, 1, 1>>
        /\ Wire!Data["short"] = <<1>>
    BY DEF Wire!Data
  <2>2. ASSUME NEW l, l \in {<< 1 >>, << 2 >>} \/ l = <<1, 2>> \/ l = <<1, 1, 1>>
        PROVE  Len(l) \in 1..3 /\ \A i \in 1..Len(l) : l[i] \in Nat
    BY <2>2
  <2> QED
    BY <1>4, <2>1, <2>2
<1> HIDE DEF b, id
<1>6. CASE usb_request.asks = "config"
  <2> DEFINE h == Wire!WriteHold(b, TRUE)
  <2> DEFINE p == Wire!WritePieces(h, id, Wire!Data.config)
  <2> DEFINE r == Wire!WriteHold(p, FALSE)
  <2>1. Replying(h, id)
    BY <1>1, <1>2, WriteHolds
  <2>2. s = Wire!WriteDone(r, FALSE)
    BY <1>3, <1>6 DEF Wire!ReplyHeld
  <2> HIDE DEF h
  <2>3. Replying(p, id)
    BY <1>1, <1>4, <1>5, <2>1, PiecesWrite
  <2> HIDE DEF p
  <2>4. Replying(r, id) /\ ~r.hold
    BY <1>1, <2>3, WriteHolds
  <2> HIDE DEF r
  <2> QED
    BY <1>1, <2>2, <2>4, WriteDoneEnds DEF id
<1>7. CASE usb_request.asks \in DOMAIN Wire!Data /\ usb_request.asks # "config"
  <2> DEFINE p == Wire!WritePieces(b, id, Wire!Data[usb_request.asks])
  <2>1. Replying(p, id) /\ ~p.hold
    BY <1>1, <1>2, <1>5, <1>7, PiecesWrite
  <2>2. s = Wire!WriteDone(p, FALSE)
    BY <1>3, <1>7 DEF Wire!Reply
  <2> HIDE DEF p
  <2> QED
    BY <1>1, <2>1, <2>2, WriteDoneEnds DEF id
<1>8. CASE usb_request.asks \in Wire!Acked /\ usb_request.asks \notin DOMAIN Wire!Data
  <2> DEFINE p == [b EXCEPT !.filled = FALSE]
  <2>1. Replying(p, id) /\ ~p.hold
    <3>1. p \in Sides /\ p.buf = b.buf /\ p.filled = FALSE /\ p.hold = b.hold
      BY <1>2 DEF Replying, Sides
    <3> QED
      BY <1>2, <3>1 DEF Replying
  <2>2. s = Wire!WriteDone(p, TRUE)
    BY <1>3, <1>4, <1>8
  <2> HIDE DEF p
  <2> QED
    BY <1>1, <2>1, <2>2, WriteDoneEnds DEF id
<1>9. CASE usb_request.asks \notin Answerable
  BY <1>2, <1>3, <1>4, <1>9 DEF Answerable, Replying, id
<1> QED
  BY <1>6, <1>7, <1>8, <1>9 DEF Answerable

(* And they are taken apart again.                                          *)
LEMMA KeptTyped ==
    ASSUME NEW s \in Sides
    PROVE  /\ Wire!Kept(s) \in Endpoints
           /\ Wire!Kept(s).buf = s.buf
BY DEF Sides, Endpoints, Wire!Kept

(* A packet of a reply can be told from none.                               *)
LEMMA OfNotNone == ASSUME NEW id \in Nat, id > 0, NEW q, AllOf(id, q)
                   PROVE  q # Wire!None
BY DEF AllOf, Wire!None

LEMMA NoSetupIs ==
    /\ Wire!NoSetup \in Setups /\ ~Wire!IsSetup(Wire!NoSetup)
    /\ Wire!EmptyOut \in Setups /\ ~Wire!IsSetup(Wire!EmptyOut)
    /\ <<>> \in Seq(Seq(Nat))
BY DEF Wire!NoSetup, Wire!EmptyOut, Setups, Asks, Wire!IsSetup

LEMMA NoneIs == Wire!None \in Seq(Nat)
BY DEF Wire!None

(* Setup.                                                                   *)
LEMMA UsbStarts == ASSUME Wire!Init PROVE UsbInv
<1>1. UsbTypes
  <2>1. <<>> \in Seq(Nat) /\ <<0>> \in Seq(Nat) /\ <<>> \in Seq(Seq(Nat))
    OBVIOUS
  <2> QED
    BY <2>1 DEF Wire!Init, UsbTypes, Endpoints, Chips, Hands, Hosts, Setups, Asks,
            Wire!Requests, Wire!Data, Wire!None, Wire!NoSetup, Wire!EP0_OUT, Wire!EP0_IN
<1>2. /\ SetupInChip
      /\ SetupInHand
      /\ SetupRequested
      /\ ResetEnds
      /\ ReplyCurrent
      /\ ThreadAwake
      /\ SetupReplied
  BY DEF Wire!Init, SetupInChip, SetupInHand, SetupRequested, ResetEnds, ReplyCurrent,
          ThreadAwake, SetupReplied, NoneWaits, Wire!IsSetup, Wire!NoSetup
<1> QED
  BY <1>1, <1>2 DEF UsbInv

(* What the interrupt reads is what is in the controller.                   *)
LEMMA DrainKeeps == ASSUME UsbInv, Wire!DrainOUTEP PROVE UsbInv'
<1>1. /\ UsbTypes
      /\ SetupInChip
      /\ SetupInHand
      /\ SetupRequested
      /\ ResetEnds
      /\ ReplyCurrent
      /\ ThreadAwake
      /\ SetupReplied
  BY DEF UsbInv
<1>2. /\ usb_hand' = [busy |-> TRUE, bits |-> usb_chip.bits,
                  read |-> IF Wire!EP0_OUT \in usb_chip.bits THEN usb_chip.out
                      ELSE Wire!NoSetup]
      /\ UNCHANGED <<usb_pc, usb_prev, usb_request, usb_have_setup, usb_have_addr,
                     usb_configured, usb_wake,
                     usb_status, usb_service, usb_in, usb_chip, usb_host>>
  BY DEF Wire!DrainOUTEP
<1>3. /\ usb_chip.out \in Setups
      /\ Wire!NoSetup \in Setups
      /\ usb_chip.bits \in SUBSET {Wire!EP0_OUT, Wire!EP0_IN}
  BY <1>1, NoSetupIs DEF UsbTypes, Endpoints, Chips, Hands, Hosts
<1>4. UsbTypes'
  BY <1>1, <1>2, <1>3 DEF UsbTypes, Endpoints, Chips, Hands, Hosts
<1>5. /\ usb_hand'.bits = usb_chip.bits
      /\ usb_hand'.read
             = IF Wire!EP0_OUT \in usb_chip.bits THEN usb_chip.out ELSE Wire!NoSetup
  BY <1>2
<1>6. SetupInHand'
  BY <1>2, <1>5 DEF SetupInHand, Wire!IsSetup, Wire!NoSetup
<1>7. /\ SetupInChip'
      /\ SetupRequested'
      /\ ResetEnds'
      /\ ReplyCurrent'
      /\ ThreadAwake'
      /\ SetupReplied'
  BY <1>1, <1>2 DEF SetupInChip, SetupRequested, ResetEnds, ReplyCurrent, ThreadAwake,
          SetupReplied, NoneWaits, HostSetup, AllOf
<1> QED
  BY <1>4, <1>6, <1>7 DEF UsbInv

(* The interrupt takes the SETUP that it has read, if none came over it.    *)
LEMMA HandleKeeps == ASSUME UsbInv, Wire!HandleInterrupt PROVE UsbInv'
<1> DEFINE over == usb_chip.out # usb_hand.read
           out == IF Wire!EP0_OUT \in usb_hand.bits /\ ~over
                  THEN Wire!NoSetup ELSE usb_chip.out
           s == IF Wire!EP0_IN \in usb_hand.bits THEN Wire!Sent(Wire!Side)
               ELSE Wire!Side
           packet == IF Wire!IsSetup(out) THEN Wire!None ELSE s.packet
           stall == usb_chip.stall \/ (over /\ usb_hand.read = Wire!EmptyOut)
           bits == usb_chip.bits \ usb_hand.bits
<1>1. /\ UsbTypes
      /\ SetupInChip
      /\ SetupInHand
      /\ SetupRequested
      /\ ResetEnds
      /\ ReplyCurrent
      /\ ThreadAwake
      /\ SetupReplied
  BY DEF UsbInv
<1>2. /\ usb_hand' = [busy |-> FALSE, bits |-> {}, read |-> Wire!NoSetup]
      /\ usb_request'
             = IF Wire!IsSetup(usb_hand.read) THEN usb_hand.read ELSE usb_request
      /\ usb_have_setup' = ((usb_have_setup \/ Wire!IsSetup(usb_hand.read))
                            /\ "reset" \notin usb_chip.changed)
      /\ usb_service' = usb_service \cup usb_hand.bits
      /\ usb_in' = Wire!Kept(s)
      /\ usb_chip' = [usb_chip EXCEPT !.out = out, !.bits = bits, !.changed = {},
                              !.packet = packet, !.stall = stall]
      /\ usb_wake' = TRUE
      /\ usb_pc' = IF usb_pc = "asleep" THEN "woken" ELSE usb_pc
      /\ usb_pc # "down"
      /\ UNCHANGED <<usb_prev, usb_configured, usb_host>>
  BY DEF Wire!HandleInterrupt, Wire!WakeSingle
<1>3. /\ Wire!Side \in Sides
      /\ Wire!Side.buf = usb_in.buf
      /\ Wire!Side.packet = usb_chip.packet
  BY <1>1, SideTyped
<1>4. ASSUME NEW id \in Nat, AllOf(id, usb_in.buf)
      PROVE  /\ s \in Sides
             /\ AllOf(id, s.buf)
             /\ (s.packet = usb_chip.packet \/ AllOf(id, s.packet))
  BY <1>3, <1>4, SentFills
<1>5. s \in Sides
  <2>1. 0 \in Nat
    OBVIOUS
  <2> QED
    BY <1>3, <2>1, SentFills
<1> HIDE DEF s
<1>6. usb_in'.buf = s.buf /\ usb_in' \in Endpoints
  BY <1>2, <1>5, KeptTyped
<1>7. /\ out \in Setups
      /\ packet \in Seq(Nat)
      /\ bits \subseteq {Wire!EP0_OUT, Wire!EP0_IN}
      /\ usb_hand.read \in Setups
      /\ usb_hand.bits \subseteq {Wire!EP0_OUT, Wire!EP0_IN}
      /\ usb_chip.out \in Setups
  <2>1. Wire!None \in Seq(Nat) /\ Wire!NoSetup \in Setups
    BY NoSetupIs, NoneIs
  <2> QED
    BY <1>1, <1>5, <2>1 DEF UsbTypes, Endpoints, Chips, Hands, Hosts, Sides
<1>8. ~Wire!IsSetup(Wire!NoSetup)
  BY DEF Wire!IsSetup, Wire!NoSetup
<1>9. /\ (out = Wire!NoSetup \/ out = usb_chip.out)
      /\ (Wire!IsSetup(usb_hand.read) /\ ~Wire!IsSetup(out) =>
             usb_chip.out = usb_hand.read)
      /\ (~Wire!IsSetup(out) =>
             ~Wire!IsSetup(usb_chip.out) \/ usb_chip.out = usb_hand.read)
      /\ (Wire!IsSetup(out) => out = usb_chip.out)
  BY <1>1, <1>8 DEF SetupInHand
<1>10. /\ (Wire!IsSetup(out) => packet = Wire!None)
       /\ (~Wire!IsSetup(out) => packet = s.packet)
  OBVIOUS
<1>11. usb_chip.stall \in BOOLEAN /\ (usb_chip.stall => stall) /\ stall \in BOOLEAN
  BY <1>1 DEF UsbTypes, Endpoints, Chips, Hands, Hosts
<1> HIDE DEF out, packet, stall, bits, over
<1>12. /\ usb_chip'.out = out
       /\ usb_chip'.packet = packet
       /\ usb_chip'.stall = stall
       /\ usb_chip'.changed = {}
       /\ usb_chip'.bits = bits
  BY <1>1, <1>2 DEF UsbTypes, Endpoints, Chips, Hands, Hosts
<1>13. usb_chip' \in Chips
  BY <1>1, <1>2, <1>7, <1>11 DEF UsbTypes, Endpoints, Chips, Hands, Hosts
<1>14. usb_hand' \in Hands /\ usb_hand'.read = Wire!NoSetup
  BY <1>2, NoSetupIs DEF Hands
<1>15. UsbTypes'
  BY <1>1, <1>2, <1>6, <1>7, <1>13, <1>14 DEF UsbTypes, Endpoints, Chips, Hands, Hosts
<1>16. SetupInChip' /\ SetupInHand' /\ ResetEnds'
  BY <1>1, <1>2, <1>8, <1>9, <1>10, <1>12, <1>14
        DEF SetupInChip, SetupInHand, ResetEnds, HostSetup
<1>17. SetupRequested'
  BY <1>1, <1>2, <1>7, <1>9, <1>12
        DEF SetupRequested, NoneWaits, SetupInChip, HostSetup, Wire!IsSetup
<1>18. ASSUME NoneWaits', ~usb_have_setup'
       PROVE  /\ NoneWaits
              /\ ~usb_have_setup
              /\ AllOf(usb_host.id, s.buf)
              /\ packet = s.packet
              /\ (s.packet = usb_chip.packet \/ AllOf(usb_host.id, s.packet))
              /\ usb_host.id \in Nat
              /\ usb_host.id > 0
  <2>1. ~Wire!IsSetup(out) /\ ~usb_host.ended
    BY <1>2, <1>12, <1>18 DEF NoneWaits
  <2>2. ~usb_have_setup /\ ~Wire!IsSetup(usb_hand.read)
    BY <1>1, <1>2, <1>18, <2>1 DEF ResetEnds
  <2>3. NoneWaits
    BY <1>9, <2>1, <2>2 DEF NoneWaits
  <2>4. AllOf(usb_host.id, usb_in.buf) /\ usb_host.id \in Nat /\ usb_host.id > 0
    BY <1>1, <2>2, <2>3
          DEF ReplyCurrent, UsbTypes, Endpoints, Chips, Hands, Hosts, SetupRequested
  <2> QED
    BY <1>4, <1>10, <2>1, <2>2, <2>3, <2>4
<1>19. ReplyCurrent'
  BY <1>1, <1>2, <1>6, <1>12, <1>18 DEF ReplyCurrent
<1>20. ThreadAwake'
  <2>1. Wire!IsSetup(usb_hand.read) => Wire!EP0_OUT \in usb_hand.bits
    BY <1>1, <1>8 DEF SetupInHand
  <2> QED
    BY <1>1, <1>2, <2>1 DEF ThreadAwake
<1>21. SetupReplied'
  BY <1>1, <1>2, <1>11, <1>12, <1>18, OfNotNone DEF SetupReplied
<1> QED
  BY <1>15, <1>16, <1>17, <1>19, <1>20, <1>21 DEF UsbInv

(* The thread replaces what is left of the last reply (ServiceEPs).         *)
LEMMA ServeKeeps == ASSUME UsbInv, Wire!ServiceSetup PROVE UsbInv'
<1> DEFINE s == Wire!ProcessSetup(Wire!Flushed(Wire!Side))
           packet == IF Wire!IsSetup(usb_chip.out) THEN Wire!None ELSE s.packet
<1>1. /\ UsbTypes
      /\ SetupInChip
      /\ SetupInHand
      /\ SetupRequested
      /\ ResetEnds
      /\ ReplyCurrent
      /\ ThreadAwake
      /\ SetupReplied
  BY DEF UsbInv
<1>2. /\ usb_request.asks # "refused"
      /\ usb_pc' = IF usb_request.asks = "statusbyte" THEN "down" ELSE "in"
      /\ usb_service' = usb_service \ {Wire!EP0_OUT}
      /\ usb_in' = Wire!Kept(s) /\ usb_chip' = [usb_chip EXCEPT !.packet = packet]
      /\ usb_have_setup' = FALSE
      /\ UNCHANGED <<usb_request, usb_wake, usb_hand, usb_host>>
  BY DEF Wire!ServiceSetup, Wire!Serve, Wire!SideBecomes
<1>3. /\ s \in Sides /\ AllOf(usb_request.id, s.buf)
      /\ usb_request.asks \in Answerable => AllOf(usb_request.id, s.packet)
  BY <1>1, Processed
<1> HIDE DEF s
<1>4. usb_in'.buf = s.buf /\ usb_in' \in Endpoints
  BY <1>2, <1>3, KeptTyped
<1>5. /\ packet \in Seq(Nat)
      /\ (Wire!IsSetup(usb_chip.out) => packet = Wire!None)
      /\ (~Wire!IsSetup(usb_chip.out) => packet = s.packet)
  BY <1>3 DEF Sides, Wire!None
<1> HIDE DEF packet
<1>6. /\ usb_chip' \in Chips
      /\ usb_chip'.out = usb_chip.out
      /\ usb_chip'.packet = packet
      /\ usb_chip'.stall = usb_chip.stall
      /\ usb_chip'.changed = usb_chip.changed
  BY <1>1, <1>2, <1>5 DEF UsbTypes, Endpoints, Chips, Hands, Hosts
<1>7. UsbTypes'
  BY <1>1, <1>2, <1>4, <1>6 DEF UsbTypes, Endpoints, Chips, Hands, Hosts
<1>8. SetupInChip' /\ SetupInHand' /\ SetupRequested' /\ ResetEnds' /\ ThreadAwake'
  BY <1>1, <1>2, <1>5, <1>6 DEF SetupInChip, SetupInHand, SetupRequested, ResetEnds,
          ThreadAwake, NoneWaits, HostSetup
<1>9. ASSUME NoneWaits'
      PROVE  /\ usb_request.id = usb_host.id
             /\ usb_request.asks = usb_host.asks
             /\ usb_host.id \in Nat
             /\ usb_host.id > 0
             /\ packet = s.packet
  <2>1. NoneWaits /\ ~Wire!IsSetup(usb_chip.out)
    BY <1>2, <1>6, <1>9 DEF NoneWaits
  <2> QED
    BY <1>1, <1>5, <2>1
          DEF SetupRequested, HostSetup, UsbTypes, Endpoints, Chips, Hands, Hosts
<1>10. ReplyCurrent'
  BY <1>2, <1>3, <1>4, <1>6, <1>9 DEF ReplyCurrent
<1>11. SetupReplied'
  <2> SUFFICES ASSUME NoneWaits', usb_request.asks # "ignored",
                      usb_request.asks # "statusbyte"
               PROVE  packet # Wire!None
    BY <1>2, <1>6, <1>9 DEF SetupReplied
  <2>1. usb_host.asks \in Wire!Requests
    BY <1>1, <1>9 DEF UsbTypes, Endpoints, Chips, Hands, Hosts
  <2>2. usb_request.asks \in Answerable
    BY <1>2, <1>9, <2>1 DEF Wire!Requests, Answerable
  <2> QED
    BY <1>3, <1>9, <2>2, OfNotNone
<1> QED
  BY <1>7, <1>8, <1>10, <1>11 DEF UsbInv

(* Or refuses the request, with nothing left to send (StallControl).        *)
LEMMA StallKeeps == ASSUME UsbInv, Wire!StallControl PROVE UsbInv'
<1> DEFINE s == Wire!Flushed(Wire!Side)
<1>1. /\ UsbTypes
      /\ SetupInChip
      /\ SetupInHand
      /\ SetupRequested
      /\ ResetEnds
      /\ ReplyCurrent
      /\ ThreadAwake
      /\ SetupReplied
  BY DEF UsbInv
<1>2. /\ usb_request.asks = "refused"
      /\ usb_pc' = "in"
      /\ usb_service' = usb_service \ {Wire!EP0_OUT}
      /\ usb_in' = Wire!Kept(s) /\ usb_chip' = [usb_chip EXCEPT !.stall = TRUE]
      /\ usb_have_setup' = FALSE
      /\ UNCHANGED <<usb_request, usb_wake, usb_hand, usb_host>>
  BY DEF Wire!StallControl
<1>3. s \in Sides /\ s.buf = <<>>
  <2>1. 0 \in Nat
    OBVIOUS
  <2> QED
    BY <1>1, <2>1, FlushedGood DEF Replying
<1> HIDE DEF s
<1>4. usb_in'.buf = <<>> /\ usb_in' \in Endpoints
  BY <1>2, <1>3, KeptTyped
<1>6. /\ usb_chip' \in Chips
      /\ usb_chip'.out = usb_chip.out
      /\ usb_chip'.packet = usb_chip.packet
      /\ usb_chip'.stall = TRUE
      /\ usb_chip'.changed = usb_chip.changed
  BY <1>1, <1>2 DEF UsbTypes, Endpoints, Chips, Hands, Hosts
<1>7. UsbTypes'
  BY <1>1, <1>2, <1>4, <1>6 DEF UsbTypes, Endpoints, Chips, Hands, Hosts
<1>8. /\ SetupInChip'
      /\ SetupInHand'
      /\ SetupRequested'
      /\ ResetEnds'
      /\ ThreadAwake'
      /\ SetupReplied'
  BY <1>1, <1>2, <1>6 DEF SetupInChip, SetupInHand, SetupRequested, ResetEnds,
          ThreadAwake, SetupReplied, NoneWaits, HostSetup
<1>9. NoneWaits' => usb_host.asks = "refused"
  BY <1>1, <1>2, <1>6 DEF SetupRequested, NoneWaits, HostSetup
<1>10. "refused" \notin Answerable
  BY DEF Answerable, Wire!Data, Wire!Acked
<1>11. ReplyCurrent'
  BY <1>2, <1>4, <1>9, <1>10 DEF ReplyCurrent, AllOf
<1> QED
  BY <1>7, <1>8, <1>11 DEF UsbInv

(* The thread cannot pass by a request, nor go to sleep on one uncalled.    *)
LEMMA ThreadKeeps ==
    ASSUME UsbInv,
           Wire!ServiceNothing \/ Wire!ServiceIN \/ Wire!CheckStatus
               \/ Wire!TestWake \/ Wire!WaitFor \/ Wire!TimedOut \/ Wire!Resume
    PROVE  UsbInv'
<1>1. /\ UsbTypes
      /\ SetupInChip
      /\ SetupInHand
      /\ SetupRequested
      /\ ResetEnds
      /\ ReplyCurrent
      /\ ThreadAwake
      /\ SetupReplied
  BY DEF UsbInv
<1>2. /\ UNCHANGED <<usb_request, usb_have_setup, usb_in, usb_chip, usb_hand, usb_host>>
      /\ usb_pc # "down"
  BY DEF Wire!ServiceNothing, Wire!ServiceIN, Wire!CheckStatus, Wire!TestWake,
          Wire!WaitFor, Wire!TimedOut, Wire!Resume, Wire!others
<1>3. usb_service' \subseteq usb_service /\ usb_wake' \in BOOLEAN
  BY <1>1 DEF UsbTypes, Endpoints, Chips, Hands, Hosts, Wire!ServiceNothing,
          Wire!ServiceIN, Wire!CheckStatus, Wire!TestWake, Wire!WaitFor, Wire!TimedOut,
          Wire!Resume, Wire!others
<1>4. UsbTypes'
  BY <1>1, <1>2, <1>3 DEF UsbTypes, Endpoints, Chips, Hands, Hosts
<1>5. ThreadAwake'
  <2> SUFFICES ASSUME usb_have_setup
               PROVE  /\ Wire!EP0_OUT \in usb_service'
                      /\ (usb_wake' \/ usb_pc' \in {"loop", "out", "woken"})
    BY <1>2 DEF ThreadAwake
  <2>1. /\ Wire!EP0_OUT \in usb_service
        /\ (usb_wake \/ usb_pc \in {"loop", "out", "woken"})
    BY <1>1, <1>2 DEF ThreadAwake
  <2>2. ~Wire!ServiceNothing
    BY <2>1 DEF Wire!ServiceNothing
  <2>3. CASE Wire!ServiceIN
    BY <2>1, <2>3 DEF Wire!ServiceIN, Wire!EP0_OUT, Wire!EP0_IN
  <2>4. CASE Wire!CheckStatus
    BY <2>1, <2>4 DEF Wire!CheckStatus
  <2>5. CASE Wire!TestWake
    BY <2>1, <2>5 DEF Wire!TestWake, Wire!others
  <2>6. CASE Wire!WaitFor \/ Wire!TimedOut \/ Wire!Resume
    BY <2>1, <2>6 DEF Wire!WaitFor, Wire!TimedOut, Wire!Resume, Wire!others
  <2> QED
    BY <2>2, <2>3, <2>4, <2>5, <2>6
<1>6. /\ SetupInChip'
      /\ SetupInHand'
      /\ SetupRequested'
      /\ ResetEnds'
      /\ ReplyCurrent'
      /\ SetupReplied'
  BY <1>1, <1>2 DEF SetupInChip, SetupInHand, SetupRequested, ResetEnds, ReplyCurrent,
          SetupReplied, NoneWaits, HostSetup, AllOf
<1> QED
  BY <1>4, <1>5, <1>6 DEF UsbInv

(* A new SETUP starts over, whatever is going on.                           *)
LEMMA SendSetupKeeps == ASSUME UsbInv, NEW asks \in Wire!Requests, Wire!SendSetup(asks)
                        PROVE  UsbInv'
<1> DEFINE new == [id |-> usb_host.id + 1, asks |-> asks]
<1>1. /\ UsbTypes
      /\ SetupInChip
      /\ SetupInHand
      /\ SetupRequested
      /\ ResetEnds
      /\ ReplyCurrent
      /\ ThreadAwake
      /\ SetupReplied
  BY DEF UsbInv
<1>2. /\ "reset" \notin usb_chip.changed
      /\ usb_host' = [usb_host EXCEPT !.id = @ + 1, !.asks = asks, !.got = <<>>,
                      !.ended = FALSE]
      /\ usb_chip' = [usb_chip EXCEPT !.out = new, !.packet = Wire!None,
                      !.stall = FALSE, !.bits = @ \cup {Wire!EP0_OUT}]
      /\ UNCHANGED <<usb_pc, usb_request, usb_have_setup, usb_wake, usb_service,
                     usb_in, usb_hand>>
  BY DEF Wire!SendSetup, Wire!device
<1>3. /\ usb_host.id \in Nat
      /\ new \in Setups
      /\ Wire!IsSetup(new)
      /\ new.id = usb_host.id + 1
      /\ new.asks = asks
  BY <1>1 DEF UsbTypes, Endpoints, Chips, Hands, Hosts, Setups, Asks, Wire!IsSetup
<1> HIDE DEF new
<1>4. Wire!None \in Seq(Nat) /\ <<>> \in Seq(Seq(Nat))
  BY DEF Wire!None
<1>5. /\ usb_host' \in Hosts
      /\ usb_host'.id = usb_host.id + 1 /\ usb_host'.asks = asks
  <2> DEFINE next == usb_host.id + 1
             none == <<>>
  <2>1. usb_host' = [usb_host EXCEPT !.id = next, !.asks = asks, !.got = none,
                     !.ended = FALSE]
    BY <1>2
  <2>2. next \in Nat /\ none \in Seq(Seq(Nat)) /\ next = usb_host.id + 1
    BY <1>3, <1>4
  <2> HIDE DEF next, none
  <2> QED
    BY <1>1, <2>1, <2>2 DEF UsbTypes, Endpoints, Chips, Hands, Hosts
<1>6. /\ usb_chip' \in Chips
      /\ usb_chip'.out = new
      /\ usb_chip'.packet = Wire!None
      /\ usb_chip'.changed = usb_chip.changed
  BY <1>1, <1>2, <1>3, <1>4 DEF UsbTypes, Endpoints, Chips, Hands, Hosts
<1>7. UsbTypes'
  BY <1>1, <1>2, <1>5, <1>6 DEF UsbTypes, Endpoints, Chips, Hands, Hosts
<1>8. new = HostSetup'
  BY <1>3, <1>5 DEF HostSetup, Setups
<1>9. ~NoneWaits' /\ SetupInChip' /\ SetupInHand' /\ ResetEnds' /\ ThreadAwake'
  BY <1>1, <1>2, <1>3, <1>6, <1>8
        DEF SetupInChip, SetupInHand, ResetEnds, ThreadAwake, NoneWaits
<1>10. SetupRequested' /\ ReplyCurrent' /\ SetupReplied'
  BY <1>9 DEF SetupRequested, ReplyCurrent, SetupReplied
<1> QED
  BY <1>7, <1>9, <1>10 DEF UsbInv

(* What is added to makes it no longer empty.                               *)
LEMMA Appended ==
    ASSUME NEW S, NEW q \in Seq(S), NEW x \in S
    PROVE  Append(q, x) \in Seq(S) /\ Append(q, x) # <<>>
<1>1. Append(q, x) \in Seq(S)
  OBVIOUS
<1>2. Len(Append(q, x)) = Len(q) + 1 /\ Len(q) \in Nat
  OBVIOUS
<1>3. Len(<<>>) = 0
  OBVIOUS
<1> QED
  BY <1>1, <1>2, <1>3

(* The host takes a packet, and acknowledges a reply.                       *)
LEMMA HostKeeps == ASSUME UsbInv, Wire!TakeIn \/ Wire!SendStatus PROVE UsbInv'
<1>1. /\ UsbTypes
      /\ SetupInChip
      /\ SetupInHand
      /\ SetupRequested
      /\ ResetEnds
      /\ ReplyCurrent
      /\ ThreadAwake
      /\ SetupReplied
  BY DEF UsbInv
<1>2. UNCHANGED <<usb_pc, usb_request, usb_have_setup, usb_wake, usb_service, usb_in,
                  usb_hand>>
  BY DEF Wire!TakeIn, Wire!SendStatus, Wire!device
<1>3. CASE Wire!TakeIn
  <2>1. /\ usb_host' = [usb_host EXCEPT !.got = Append(@, usb_chip.packet),
                        !.ended = Len(usb_chip.packet) < MaxPkt]
        /\ usb_chip' = [usb_chip EXCEPT !.packet = Wire!None,
                        !.bits = @ \cup {Wire!EP0_IN}]
        /\ ~usb_host.ended
    BY <1>3 DEF Wire!TakeIn
  <2> DEFINE got == Append(usb_host.got, usb_chip.packet)
             ended == Len(usb_chip.packet) < MaxPkt
  <2>2. got \in Seq(Seq(Nat)) /\ got # <<>> /\ Wire!None \in Seq(Nat)
    <3>1. usb_host.got \in Seq(Seq(Nat)) /\ usb_chip.packet \in Seq(Nat)
      BY <1>1 DEF UsbTypes, Endpoints, Chips, Hands, Hosts
    <3> QED
      BY <3>1, Appended, NoneIs
  <2>0. ended \in BOOLEAN
    OBVIOUS
  <2> HIDE DEF got, ended
  <2>3. /\ usb_host' \in Hosts
        /\ usb_host'.id = usb_host.id
        /\ usb_host'.asks = usb_host.asks
        /\ usb_host'.got # <<>>
    <3>1. usb_host' = [usb_host EXCEPT !.got = got, !.ended = ended]
      BY <2>1 DEF got, ended
    <3> QED
      BY <1>1, <2>0, <2>2, <3>1 DEF UsbTypes, Endpoints, Chips, Hands, Hosts
  <2>4. /\ usb_chip' \in Chips
        /\ usb_chip'.out = usb_chip.out
        /\ usb_chip'.packet = Wire!None
        /\ usb_chip'.changed = usb_chip.changed
    BY <1>1, <2>1, <2>2 DEF UsbTypes, Endpoints, Chips, Hands, Hosts
  <2>5. UsbTypes'
    BY <1>1, <1>2, <2>3, <2>4 DEF UsbTypes, Endpoints, Chips, Hands, Hosts
  <2>6. HostSetup' = HostSetup /\ (NoneWaits' => NoneWaits)
    BY <2>1, <2>3, <2>4 DEF HostSetup, NoneWaits
  <2>7. /\ SetupInChip'
        /\ SetupInHand'
        /\ SetupRequested'
        /\ ResetEnds'
        /\ ReplyCurrent'
        /\ ThreadAwake'
        /\ SetupReplied'
    BY <1>1, <1>2, <2>1, <2>3, <2>4, <2>6
       DEF SetupInChip, SetupInHand, SetupRequested, ResetEnds, ReplyCurrent,
           ThreadAwake, SetupReplied, AllOf
  <2> QED
    BY <2>5, <2>7 DEF UsbInv
<1>4. CASE Wire!SendStatus
  <2>1. /\ usb_host' = [usb_host EXCEPT !.got = <<>>]
        /\ usb_host.ended
        /\ usb_chip.out = Wire!NoSetup
        /\ usb_chip' = [usb_chip EXCEPT !.out = Wire!EmptyOut,
                        !.bits = @ \cup {Wire!EP0_OUT}]
    BY <1>4 DEF Wire!SendStatus
  <2>2. /\ Wire!EmptyOut \in Setups
        /\ ~Wire!IsSetup(Wire!EmptyOut)
        /\ ~Wire!IsSetup(Wire!NoSetup)
        /\ <<>> \in Seq(Seq(Nat))
    BY NoSetupIs
  <2>3. /\ usb_host' \in Hosts
        /\ usb_host'.ended
    BY <1>1, <2>1, <2>2 DEF UsbTypes, Endpoints, Chips, Hands, Hosts
  <2>4. /\ usb_chip' \in Chips
        /\ usb_chip'.out = Wire!EmptyOut
    BY <1>1, <2>1, <2>2 DEF UsbTypes, Endpoints, Chips, Hands, Hosts
  <2>5. UsbTypes'
    BY <1>1, <1>2, <2>3, <2>4 DEF UsbTypes, Endpoints, Chips, Hands, Hosts
  <2>6. ~NoneWaits' /\ SetupInChip' /\ SetupInHand' /\ ResetEnds' /\ ThreadAwake'
    BY <1>1, <1>2, <2>1, <2>2, <2>3, <2>4
          DEF SetupInChip, SetupInHand, ResetEnds, ThreadAwake, NoneWaits
  <2>7. SetupRequested' /\ ReplyCurrent' /\ SetupReplied'
    BY <2>6 DEF SetupRequested, ReplyCurrent, SetupReplied
  <2> QED
    BY <2>5, <2>6, <2>7 DEF UsbInv
<1> QED
  BY <1>3, <1>4

(* A reset ends what the host was asking.                                   *)
LEMMA ChangeKeeps ==
    ASSUME UsbInv, NEW c \in {"reset", "connected", "suspended"},
           Wire!ChangeStatus(c) PROVE UsbInv'
<1> DEFINE now == IF c \in usb_chip.now THEN usb_chip.now \ {c}
    ELSE usb_chip.now \cup ({c} \ {"reset"})
<1>1. /\ UsbTypes
      /\ SetupInChip
      /\ SetupInHand
      /\ SetupRequested
      /\ ResetEnds
      /\ ReplyCurrent
      /\ ThreadAwake
      /\ SetupReplied
  BY DEF UsbInv
<1>2. /\ usb_host' = [usb_host EXCEPT !.changes = @ + 1, !.ended = @ \/ c = "reset"]
      /\ usb_chip' = [usb_chip EXCEPT !.changed = @ \cup {c}, !.now = now]
      /\ UNCHANGED <<usb_pc, usb_request, usb_have_setup, usb_wake, usb_service,
                     usb_in, usb_hand>>
  BY DEF Wire!ChangeStatus, Wire!device
<1>3. now \subseteq {"reset", "connected", "suspended"}
  BY <1>1 DEF UsbTypes, Endpoints, Chips, Hands, Hosts
<1> HIDE DEF now
<1>4. usb_host.ended \in BOOLEAN /\ (usb_host.ended \/ c = "reset") \in BOOLEAN
  BY <1>1 DEF UsbTypes, Endpoints, Chips, Hands, Hosts
<1>5. /\ usb_host' \in Hosts
      /\ usb_host'.id = usb_host.id
      /\ usb_host'.asks = usb_host.asks
      /\ usb_host'.got = usb_host.got
      /\ (usb_host'.ended <=> usb_host.ended \/ c = "reset")
  <2> DEFINE e == usb_host.ended \/ c = "reset"
             more == usb_host.changes + 1
  <2>0. more \in Nat
    BY <1>1 DEF UsbTypes, Endpoints, Chips, Hands, Hosts
  <2>1. usb_host' = [usb_host EXCEPT !.changes = more, !.ended = e] /\ e \in BOOLEAN
    BY <1>2, <1>4
  <2> HIDE DEF e, more
  <2>2. usb_host'.ended = e
    BY <1>1, <2>1 DEF UsbTypes, Endpoints, Chips, Hands, Hosts
  <2>3. /\ usb_host' \in Hosts
        /\ usb_host'.id = usb_host.id
        /\ usb_host'.asks = usb_host.asks
        /\ usb_host'.got = usb_host.got
    BY <1>1, <2>0, <2>1 DEF UsbTypes, Endpoints, Chips, Hands, Hosts
  <2> QED
    BY <2>2, <2>3 DEF e
<1>6. /\ usb_chip' \in Chips
      /\ usb_chip'.out = usb_chip.out
      /\ usb_chip'.packet = usb_chip.packet
      /\ usb_chip'.stall = usb_chip.stall
      /\ usb_chip'.changed = usb_chip.changed \cup {c}
  BY <1>1, <1>2, <1>3 DEF UsbTypes, Endpoints, Chips, Hands, Hosts
<1>7. UsbTypes'
  BY <1>1, <1>2, <1>5, <1>6 DEF UsbTypes, Endpoints, Chips, Hands, Hosts
<1>8. HostSetup' = HostSetup /\ (NoneWaits' => NoneWaits)
  BY <1>5, <1>6 DEF HostSetup, NoneWaits
<1>9. /\ SetupInChip'
      /\ SetupInHand'
      /\ SetupRequested'
      /\ ResetEnds'
      /\ ReplyCurrent'
      /\ ThreadAwake'
      /\ SetupReplied'
  BY <1>1, <1>2, <1>5, <1>6, <1>8
     DEF SetupInChip, SetupInHand, SetupRequested, ResetEnds, ReplyCurrent,
         ThreadAwake, SetupReplied, AllOf
<1> QED
  BY <1>7, <1>9 DEF UsbInv

(* Every step keeps the invariant.                                          *)
LEMMA UsbInvariance == Wire!Spec => []UsbInv
<1>1. UsbInv /\ [Wire!Next]_Wire!vars => UsbInv'
  <2> SUFFICES ASSUME UsbInv, [Wire!Next]_Wire!vars PROVE UsbInv'
    OBVIOUS
  <2>1. CASE UNCHANGED Wire!vars
    BY <2>1 DEF Wire!vars, UsbInv, UsbTypes, Endpoints, Chips, Hands, Hosts,
                SetupInChip,
            SetupInHand, SetupRequested, ResetEnds, ReplyCurrent, ThreadAwake,
            SetupReplied,
                NoneWaits, HostSetup, AllOf
  <2>2. CASE \E asks \in Wire!Requests : Wire!SendSetup(asks)
    BY <2>2, SendSetupKeeps
  <2>3. CASE \E s \in {"reset", "connected", "suspended"} : Wire!ChangeStatus(s)
    BY <2>3, ChangeKeeps
  <2> QED
    BY <2>1, <2>2, <2>3, DrainKeeps, HandleKeeps, ServeKeeps, StallKeeps, ThreadKeeps,
            HostKeeps DEF Wire!Next
<1> QED
  BY <1>1, UsbStarts, PTL DEF Wire!Spec

(* So what is left to send is current.                                      *)
LEMMA RepliesCurrent == UsbInv => Wire!ReplyIsCurrent
<1> SUFFICES ASSUME UsbInv, Wire!Taken, ~usb_have_setup
             PROVE  /\ \A i \in DOMAIN usb_in.buf : usb_in.buf[i] = usb_host.id
                    /\ usb_host.asks \in DOMAIN Wire!Data \cup Wire!Acked
                           /\ usb_chip.packet # Wire!None =>
                           \A i \in DOMAIN usb_chip.packet :
                               usb_chip.packet[i] = usb_host.id
  BY DEF Wire!ReplyIsCurrent
<1>1. NoneWaits
  BY DEF Wire!Taken, NoneWaits, Wire!IsSetup, Wire!NoSetup
<1>2. /\ DOMAIN usb_in.buf = 1..Len(usb_in.buf)
      /\ DOMAIN usb_chip.packet = 1..Len(usb_chip.packet)
  BY DEF UsbInv, UsbTypes, Endpoints, Chips, Hands, Hosts
<1> QED
  BY <1>1, <1>2 DEF UsbInv, ReplyCurrent, Answerable, AllOf

(* And nothing is left unanswered.                                          *)
LEMMA AllAnswered == UsbInv => Wire!Answered
<1> SUFFICES ASSUME UsbInv, Wire!Taken, usb_pc = "asleep", ~usb_wake
             PROVE  usb_chip.packet # Wire!None \/ usb_chip.stall
                 \/ usb_host.got # <<>> \/ usb_host.asks = "ignored"
  BY DEF Wire!Answered
<1>1. NoneWaits
  BY DEF Wire!Taken, NoneWaits, Wire!IsSetup, Wire!NoSetup
<1>2. ~usb_have_setup
  BY DEF UsbInv, ThreadAwake
<1> QED
  BY <1>1, <1>2 DEF UsbInv, SetupReplied

(* The library is a USB device. *)
LEMMA UsbMapped == Spec => Wire!Spec
<1>1. Init => Wire!Init
  BY DEF Init
<1>2. [Next]_vars => [Wire!Next]_Wire!vars
  <2>1. CASE UsbMoves
    BY <2>1 DEF UsbMoves
  <2>2. CASE UNCHANGED usbVars
    BY <2>2 DEF usbVars, Wire!vars
  <2> QED
    BY <2>1, <2>2
        DEF vars, Next,
            NetworkMoves, DhcpMoves, UdpMoves, HashTableMoves, FreelistMoves,
            Fat32Moves, BlkCacheMoves, DmaMoves, EepromMoves,
            ContainersMoves, UtilMoves
<1> QED
  BY <1>1, <1>2, PTL DEF Spec, vars, Wire!Spec

(* What is still to be sent, and the packet in the controller, are of the   *)
(* reply to the host's last SETUP, for packets of any size and however many *)
(* SETUPs, resets and changes come when they are not waited for            *)
(* (ServiceEPs, FillINEP, HandleInterrupt).                                 *)
THEOREM RepliesStayCurrent == Spec => []ReplyIsCurrent
<1>1. UsbInv => ReplyIsCurrent
  BY RepliesCurrent DEF ReplyIsCurrent
<1> QED
  BY <1>1, UsbInvariance, UsbMapped, PTL

(* Every SETUP that the code answers is answered, although the test before  *)
(* the thread's wait races the interrupt (Service, HandleInterrupt).        *)
THEOREM EverySetupAnswered == Spec => []Answered
<1>1. UsbInv => Answered
  BY AllAnswered DEF Answered
<1> QED
  BY <1>1, UsbInvariance, UsbMapped, PTL

-----------------------------------------------------------------------------
(* The types bound what the invariant counts without an end: SETUPs have    *)
(* the host's numbers, and a packet is never longer than the endpoint's.    *)
UsbStates ==
    /\ usb_pc \in {"loop", "out", "in", "wait", "go sleep", "asleep", "woken", "down"}
    /\ usb_prev \in SUBSET {"connected", "suspended"}
    /\ usb_status \in SUBSET {"reset", "connected", "suspended"}
    /\ usb_have_addr \in BOOLEAN /\ usb_configured \in {0, 1}
SetupFits(p) == p.id \in Wire!Ids /\ (Wire!IsSetup(p) => p.asks \in Wire!Requests)
SetupsFit ==
    /\ SetupFits(usb_chip.out) /\ SetupFits(usb_hand.read)
    /\ usb_request.id \in Wire!Ids /\ usb_request.asks \in Wire!Requests
    /\ usb_host.id \in Wire!Ids
InFits == usb_in.buf \in Seq(Wire!Ids) /\ Len(usb_chip.packet) <= MaxPkt
UsbBound == UsbStates /\ SetupsFit /\ InFits

(* The host's numbers.                                                      *)
LEMMA UsbNumbers == MaxSetups \in Nat /\ Wire!Ids \subseteq Nat /\ 0 \in Wire!Ids
BY LibraryAssumption DEF LibraryAssumption, Wire!UsbAssumption, Wire!Ids

(* An IN side within the bounds stays there through the endpoint's          *)
(* operations (FillINEP, Write, WriteDone).                                 *)
Bounded(s) == s \in Sides /\ s.buf \in Seq(Wire!Ids) /\ Len(s.packet) <= MaxPkt

LEMMA FillINEPBounded ==
    ASSUME NEW s, Bounded(s)
    PROVE  Bounded(Wire!FillINEP(s))
<1> DEFINE count == IF Len(s.buf) < MaxPkt THEN Len(s.buf) ELSE MaxPkt
           taken == SubSeq(s.buf, 1, count)
           left == SubSeq(s.buf, count + 1, Len(s.buf))
           t == Wire!FillINEP(s)
<1>1. s \in Sides /\ s.buf \in Seq(Wire!Ids) /\ Len(s.packet) <= MaxPkt
  BY DEF Bounded
<1>2. count \in 0..Len(s.buf) /\ count <= MaxPkt
  BY <1>1, UsbSizes
<1>3. left \in Seq(Wire!Ids) /\ taken \in Seq(Wire!Ids) /\ Len(taken) = count
  <2> HIDE DEF count
  <2>1. Len(s.buf) \in Nat
    BY <1>1
  <2> QED
    BY <1>1, <1>2, <2>1
<1>4. t \in Sides
  <2>1. t \in Sides /\ t.hold = s.hold
    BY <1>1, UsbNumbers, FillINEPFills
  <2> QED
    BY <2>1
<1>5. \/ t = s
      \/ t = [s EXCEPT !.packet = taken, !.buf = left,
                       !.zlp = @ \/ (count = MaxPkt /\ Len(s.buf) = count),
                       !.filled = TRUE]
  BY DEF Wire!FillINEP
<1> HIDE DEF taken, left, count, t
<1>6. t = s \/ (t.packet = taken /\ t.buf = left)
  BY <1>1, <1>5 DEF Sides
<1>7. Bounded(t)
  BY <1>1, <1>2, <1>3, <1>4, <1>6 DEF Bounded
<1> QED
  BY <1>7 DEF t

(* Write adds units of a SETUP that the host has sent.                      *)
LEMMA WriteBounded ==
    ASSUME NEW s, Bounded(s), NEW id \in Wire!Ids, NEW n \in Nat
    PROVE  Bounded(Wire!Write(s, id, n))
<1> DEFINE piece == [i \in 1..n |-> id]
           more == s.buf \o piece
           u == [s EXCEPT !.done = FALSE, !.zlp = FALSE, !.buf = @ \o [i \in 1..n |-> id]]
<1>1. s \in Sides /\ s.buf \in Seq(Wire!Ids) /\ Len(s.packet) <= MaxPkt
  BY DEF Bounded
<1>2. piece \in Seq(Wire!Ids) /\ piece \in Seq(Nat)
  BY UsbNumbers
<1>3. more \in Seq(Wire!Ids) /\ more \in Seq(Nat)
  <2> HIDE DEF piece
  <2>1. s.buf \in Seq(Nat)
    BY <1>1 DEF Sides
  <2> QED
    BY <1>1, <1>2, <2>1
<1>4. u = [s EXCEPT !.done = FALSE, !.zlp = FALSE, !.buf = more]
  OBVIOUS
<1>5. Wire!Write(s, id, n) = Wire!FillINEP(u)
  BY DEF Wire!Write
<1> HIDE DEF piece, more, u
<1>6. u \in Sides /\ u.buf = more /\ u.packet = s.packet
  BY <1>1, <1>3, <1>4 DEF Sides
<1>7. Bounded(u)
  BY <1>1, <1>3, <1>6 DEF Bounded
<1> QED
  BY <1>5, <1>7, FillINEPBounded

(* WriteHold, either way.                                                   *)
LEMMA WriteHoldBounded ==
    ASSUME NEW s, Bounded(s)
    PROVE  /\ Bounded(Wire!WriteHold(s, TRUE))
           /\ Bounded(Wire!WriteHold(s, FALSE))
<1>1. Bounded([s EXCEPT !.hold = TRUE])
  BY DEF Bounded, Sides
<1>2. Bounded([s EXCEPT !.hold = FALSE])
  BY DEF Bounded, Sides
<1>3. Wire!WriteHold(s, TRUE) = [s EXCEPT !.hold = TRUE]
  BY DEF Wire!WriteHold
<1>4. Wire!WriteHold(s, FALSE) = Wire!FillINEP([s EXCEPT !.hold = FALSE])
  BY DEF Wire!WriteHold
<1> QED
  BY <1>1, <1>2, <1>3, <1>4, FillINEPBounded

(* The empty packet.                                                        *)
LEMMA EmptyBounded ==
    ASSUME NEW s, Bounded(s)
    PROVE  Bounded(Wire!EmitZLP(s))
<1>1. <<>> \in Seq(Nat) /\ Len(<<>>) = 0
  OBVIOUS
<1> DEFINE empty == <<>>
<1>2. empty \in Seq(Nat) /\ Len(empty) = 0
  BY <1>1
<1>3. Wire!EmitZLP(s) = [s EXCEPT !.packet = empty, !.filled = TRUE, !.zlp = FALSE]
  BY DEF Wire!EmitZLP
<1> HIDE DEF empty
<1>4. s \in Sides /\ s.buf \in Seq(Wire!Ids)
  BY DEF Bounded
<1>5. /\ Wire!EmitZLP(s) \in Sides
      /\ Wire!EmitZLP(s).buf = s.buf
      /\ Wire!EmitZLP(s).packet = empty
  BY <1>2, <1>3, <1>4 DEF Sides
<1>6. Len(empty) <= MaxPkt
  BY <1>2, UsbSizes
<1> QED
  BY <1>4, <1>5, <1>6 DEF Bounded

(* WriteDone, which may send it.                                            *)
LEMMA WriteDoneBounded ==
    ASSUME NEW s, Bounded(s), NEW zlp \in BOOLEAN
    PROVE  Bounded(Wire!WriteDone(s, zlp))
<1> DEFINE u == [s EXCEPT !.done = TRUE]
           f == Wire!FillINEP(u)
           e == [f EXCEPT !.zlp = zlp]
<1>1. Bounded(u)
  BY DEF Bounded, Sides
<1>2. Wire!WriteDone(s, zlp) = IF ~e.filled /\ zlp THEN Wire!EmitZLP(e) ELSE e
  BY DEF Wire!WriteDone
<1> HIDE DEF u
<1>3. Bounded(f)
  BY <1>1, FillINEPBounded
<1> HIDE DEF f
<1>4. Bounded(e)
  BY <1>3 DEF Bounded, Sides
<1> HIDE DEF e
<1> QED
  BY <1>2, <1>4, EmptyBounded

(* The pieces of a reply.                                                   *)
LEMMA PiecesBounded ==
    ASSUME NEW s, Bounded(s), NEW id \in Wire!Ids, NEW lens,
           Len(lens) \in 1..3, \A i \in 1..Len(lens) : lens[i] \in Nat
    PROVE  Bounded(Wire!WritePieces(s, id, lens))
<1> DEFINE first == Wire!Write(s, id, lens[1])
           second == Wire!Write(first, id, lens[2])
           third == Wire!Write(second, id, lens[3])
<1>1. /\ lens[1] \in Nat
      /\ Len(lens) # 1 => lens[2] \in Nat
      /\ Len(lens) = 3 => lens[3] \in Nat
  OBVIOUS
<1>2. Wire!WritePieces(s, id, lens)
          = IF Len(lens) = 1 THEN first ELSE IF Len(lens) = 2 THEN second ELSE third
  BY DEF Wire!WritePieces
<1>3. Bounded(first)
  BY <1>1, WriteBounded
<1> HIDE DEF first
<1>4. Len(lens) # 1 => Bounded(second)
  BY <1>1, <1>3, WriteBounded
<1> HIDE DEF second
<1>5. Len(lens) = 3 => Bounded(third)
  BY <1>1, <1>4, WriteBounded
<1> HIDE DEF third
<1> QED
  BY <1>2, <1>3, <1>4, <1>5

(* The IN interrupt.                                                        *)
LEMMA SentBounded ==
    ASSUME NEW s, Bounded(s)
    PROVE  Bounded(Wire!Sent(s))
<1> DEFINE u == [s EXCEPT !.filled = FALSE]
           f == Wire!FillINEP(u)
<1>1. Bounded(u)
  BY DEF Bounded, Sides
<1>2. \/ Wire!Sent(s) = f
      \/ Wire!Sent(s) = Wire!EmitZLP(f)
  BY DEF Wire!Sent
<1> HIDE DEF u
<1>3. Bounded(f)
  BY <1>1, FillINEPBounded
<1> HIDE DEF f
<1> QED
  BY <1>2, <1>3, EmptyBounded

(* The lengths of the replies' pieces.                                      *)
LEMMA PieceLengths ==
    ASSUME NEW a \in DOMAIN Wire!Data
    PROVE  /\ Len(Wire!Data[a]) \in 1..3
           /\ \A i \in 1..Len(Wire!Data[a]) : Wire!Data[a][i] \in Nat
<1>1. DOMAIN Wire!Data = {"device", "string", "config", "short"}
  BY DEF Wire!Data
<1>2. /\ Wire!Data["device"] = <<2>>
      /\ Wire!Data["string"] = <<1, 2>>
      /\ Wire!Data["config"] = <<1, 1, 1>>
      /\ Wire!Data["short"] = <<1>>
  BY DEF Wire!Data
<1>3. ASSUME NEW l, l \in {<< 1 >>, << 2 >>} \/ l = <<1, 2>> \/ l = <<1, 1, 1>>
      PROVE  Len(l) \in 1..3 /\ \A i \in 1..Len(l) : l[i] \in Nat
  BY <1>3
<1> QED
  BY <1>1, <1>2, <1>3

(* The endpoint as it is, and flushed.                                      *)
LEMMA SideBounded ==
    ASSUME UsbTypes, InFits
    PROVE  Bounded(Wire!Side) /\ Bounded(Wire!Flushed(Wire!Side))
<1>1. Bounded(Wire!Side)
  BY SideTyped DEF Bounded, InFits
<1>2. /\ Wire!Flushed(Wire!Side) \in Sides
      /\ Wire!Flushed(Wire!Side).buf = <<>>
      /\ Wire!Flushed(Wire!Side).packet = usb_chip.packet
  BY FlushedGood DEF Replying
<1>3. <<>> \in Seq(Wire!Ids)
  OBVIOUS
<1> QED
  BY <1>1, <1>2, <1>3 DEF Bounded, InFits

(* ProcessSetup, whatever is asked.                                         *)
LEMMA ProcessedBounded ==
    ASSUME UsbTypes, InFits, usb_request.id \in Wire!Ids
    PROVE  Bounded(Wire!ProcessSetup(Wire!Flushed(Wire!Side)))
<1> DEFINE b == Wire!Flushed(Wire!Side)
           id == usb_request.id
           s == Wire!ProcessSetup(b)
<1>1. Bounded(b)
  BY SideBounded
<1>2. s = IF usb_request.asks = "config" THEN Wire!ReplyHeld(b, id, Wire!Data.config)
          ELSE IF usb_request.asks \in DOMAIN Wire!Data
              THEN Wire!Reply(b, id, Wire!Data[usb_request.asks])
          ELSE IF usb_request.asks \in Wire!Acked
              THEN Wire!WriteDone([b EXCEPT !.filled = FALSE], TRUE)
          ELSE b
  BY DEF Wire!ProcessSetup
<1>3. "config" \in DOMAIN Wire!Data /\ Wire!Data.config = Wire!Data["config"]
  BY DEF Wire!Data
<1>4. id \in Wire!Ids
  OBVIOUS
<1> HIDE DEF b, s, id
<1>5. CASE usb_request.asks = "config"
  <2> DEFINE h == Wire!WriteHold(b, TRUE)
             p == Wire!WritePieces(h, id, Wire!Data.config)
             r == Wire!WriteHold(p, FALSE)
  <2>1. s = Wire!WriteDone(r, FALSE)
    BY <1>2, <1>5 DEF Wire!ReplyHeld
  <2>2. Bounded(h)
    BY <1>1, WriteHoldBounded
  <2> HIDE DEF h
  <2>3. Bounded(p)
    BY <1>3, <1>4, <2>2, PieceLengths, PiecesBounded
  <2> HIDE DEF p
  <2>4. Bounded(r)
    BY <2>3, WriteHoldBounded
  <2> HIDE DEF r
  <2> QED
    BY <2>1, <2>4, WriteDoneBounded DEF s, b
<1>6. CASE usb_request.asks \in DOMAIN Wire!Data /\ usb_request.asks # "config"
  <2> DEFINE p == Wire!WritePieces(b, id, Wire!Data[usb_request.asks])
  <2>1. s = Wire!WriteDone(p, FALSE)
    BY <1>2, <1>6 DEF Wire!Reply
  <2>2. Bounded(p)
    BY <1>1, <1>4, <1>6, PieceLengths, PiecesBounded
  <2> HIDE DEF p
  <2> QED
    BY <2>1, <2>2, WriteDoneBounded DEF s, b
<1>7. CASE usb_request.asks \notin DOMAIN Wire!Data /\ usb_request.asks # "config"
  <2>1. Bounded([b EXCEPT !.filled = FALSE])
    BY <1>1 DEF Bounded, Sides
  <2>2. s = b \/ s = Wire!WriteDone([b EXCEPT !.filled = FALSE], TRUE)
    BY <1>2, <1>7
  <2> QED
    BY <1>1, <2>1, <2>2, WriteDoneBounded DEF s, b
<1> QED
  BY <1>5, <1>6, <1>7

(* Setup.                                                                   *)
LEMMA BoundStarts == ASSUME Wire!Init PROVE UsbBound
<1>1. UsbStates /\ InFits
  <2>1. <<>> \in Seq(Wire!Ids)
    OBVIOUS
  <2>2. Len(Wire!None) <= MaxPkt
    BY UsbSizes DEF Wire!None
  <2> QED
    BY <2>1, <2>2 DEF Wire!Init, UsbStates, InFits
<1>2. SetupsFit
  BY UsbNumbers DEF Wire!Init, SetupsFit, SetupFits, Wire!IsSetup, Wire!NoSetup,
                    Wire!Requests, Wire!Data
<1> QED
  BY <1>1, <1>2 DEF UsbBound

(* The interrupt reads a SETUP.                                             *)
LEMMA DrainBounded == ASSUME UsbBound, Wire!DrainOUTEP PROVE UsbBound'
<1>1. /\ usb_hand'.read
             = IF Wire!EP0_OUT \in usb_chip.bits THEN usb_chip.out ELSE Wire!NoSetup
      /\ UNCHANGED <<usb_pc, usb_prev, usb_request, usb_have_addr, usb_configured,
                     usb_status, usb_in, usb_chip, usb_host>>
  BY DEF Wire!DrainOUTEP
<1>2. SetupFits(Wire!NoSetup)
  BY UsbNumbers DEF SetupFits, Wire!IsSetup, Wire!NoSetup
<1>3. SetupsFit'
  BY <1>1, <1>2 DEF UsbBound, SetupsFit, SetupFits, Wire!Ids, Wire!Requests, Wire!IsSetup
<1> QED
  BY <1>1, <1>3 DEF UsbBound, UsbStates, InFits, Wire!Ids

(* It takes the SETUP, and sends what the IN side has.                      *)
LEMMA HandleBounded ==
    ASSUME UsbInv, UsbBound, Wire!HandleInterrupt PROVE UsbBound'
<1> DEFINE over == usb_chip.out # usb_hand.read
           out == IF Wire!EP0_OUT \in usb_hand.bits /\ ~over THEN Wire!NoSetup
                  ELSE usb_chip.out
           s == IF Wire!EP0_IN \in usb_hand.bits THEN Wire!Sent(Wire!Side) ELSE Wire!Side
           packet == IF Wire!IsSetup(out) THEN Wire!None ELSE s.packet
<1>1. UsbTypes /\ UsbStates /\ SetupsFit /\ InFits
  BY DEF UsbInv, UsbBound
<1>2. /\ usb_hand' = [busy |-> FALSE, bits |-> {}, read |-> Wire!NoSetup]
      /\ usb_request' = IF Wire!IsSetup(usb_hand.read) THEN usb_hand.read
                        ELSE usb_request
      /\ usb_in' = Wire!Kept(s)
      /\ usb_chip' = [usb_chip EXCEPT
             !.out = out, !.bits = @ \ usb_hand.bits, !.changed = {}, !.packet = packet,
             !.stall = @ \/ (over /\ usb_hand.read = Wire!EmptyOut)]
      /\ usb_pc' = IF usb_pc = "asleep" THEN "woken" ELSE usb_pc
      /\ UNCHANGED <<usb_prev, usb_configured, usb_host>>
  BY DEF Wire!HandleInterrupt, Wire!WakeSingle
<1>3. /\ usb_status' = IF usb_chip.changed = {} THEN usb_status
                 ELSE IF "reset" \in usb_chip.changed THEN usb_status \cup {"reset"}
                 ELSE {t \in {"connected", "suspended"} :
                        t \in IF t \in usb_chip.changed THEN usb_chip.now ELSE usb_status}
      /\ usb_have_addr' = (usb_have_addr /\ "reset" \notin usb_chip.changed)
  BY DEF Wire!HandleInterrupt, Wire!StatusChange
<1>4. UsbStates'
  <2>1. usb_status' \in SUBSET {"reset", "connected", "suspended"}
    BY <1>1, <1>3 DEF UsbStates
  <2>2. usb_have_addr' \in BOOLEAN
    BY <1>1, <1>3 DEF UsbStates
  <2> QED
    BY <1>1, <1>2, <2>1, <2>2 DEF UsbStates
<1>5. SetupFits(Wire!NoSetup)
  BY UsbNumbers DEF SetupFits, Wire!IsSetup, Wire!NoSetup
<1>6. Bounded(s)
  BY <1>1, SideBounded, SentBounded
<1>7. Len(Wire!None) <= MaxPkt
  BY UsbSizes DEF Wire!None
<1>8. SetupFits(out)
  BY <1>1, <1>5 DEF SetupsFit
<1>9. usb_chip \in Chips
  BY <1>1 DEF UsbTypes
<1> HIDE DEF out, s, over
<1>10. Len(packet) <= MaxPkt
  BY <1>6, <1>7 DEF Bounded
<1> HIDE DEF packet
<1>11. usb_chip'.out = out /\ usb_chip'.packet = packet
  BY <1>2, <1>9 DEF Chips
<1>12. SetupsFit'
  <2>1. SetupFits(usb_chip.out)' /\ SetupFits(usb_hand.read)'
    BY <1>2, <1>5, <1>8, <1>11 DEF SetupFits, Wire!IsSetup, Wire!Ids, Wire!Requests
  <2>2. usb_request.id' \in Wire!Ids /\ usb_request.asks' \in Wire!Requests
    BY <1>1, <1>2 DEF SetupsFit, SetupFits
  <2> QED
    BY <1>1, <1>2, <2>1, <2>2 DEF SetupsFit, Wire!Ids, Wire!Requests
<1>13. InFits'
  <2>1. usb_in'.buf = s.buf
    BY <1>2, <1>6, KeptTyped DEF Bounded
  <2> QED
    BY <1>6, <1>10, <1>11, <2>1 DEF InFits, Bounded, Wire!Ids
<1> QED
  BY <1>4, <1>12, <1>13 DEF UsbBound

(* The thread writes a reply.                                               *)
LEMMA ServeBounded == ASSUME UsbInv, UsbBound, Wire!ServiceSetup PROVE UsbBound'
<1> DEFINE s == Wire!ProcessSetup(Wire!Flushed(Wire!Side))
           packet == IF Wire!IsSetup(usb_chip.out) THEN Wire!None ELSE s.packet
<1>1. UsbTypes /\ UsbStates /\ SetupsFit /\ InFits
  BY DEF UsbInv, UsbBound
<1>2. /\ usb_pc' = IF usb_request.asks = "statusbyte" THEN "down" ELSE "in"
      /\ usb_in' = Wire!Kept(s)
      /\ usb_chip' = [usb_chip EXCEPT !.packet = packet]
      /\ usb_configured' = IF usb_request.asks = "setconfig" THEN 1 ELSE usb_configured
      /\ usb_have_addr' = (usb_have_addr \/ usb_request.asks = "setaddress")
      /\ UNCHANGED <<usb_prev, usb_request, usb_status, usb_hand, usb_host>>
  BY DEF Wire!ServiceSetup, Wire!Serve, Wire!SideBecomes
<1>3. UsbStates'
  <2>1. usb_have_addr' \in BOOLEAN
    BY <1>1, <1>2 DEF UsbStates
  <2> QED
    BY <1>1, <1>2, <2>1 DEF UsbStates
<1>4. Bounded(s)
  BY <1>1, ProcessedBounded DEF SetupsFit
<1>5. Len(Wire!None) <= MaxPkt
  BY UsbSizes DEF Wire!None
<1>6. usb_chip \in Chips
  BY <1>1 DEF UsbTypes
<1> HIDE DEF s
<1>7. Len(packet) <= MaxPkt
  BY <1>4, <1>5 DEF Bounded
<1> HIDE DEF packet
<1>8. usb_chip'.out = usb_chip.out /\ usb_chip'.packet = packet
  BY <1>2, <1>6 DEF Chips
<1>9. SetupsFit'
  BY <1>1, <1>2, <1>8 DEF SetupsFit, SetupFits, Wire!IsSetup, Wire!Ids, Wire!Requests
<1>10. InFits'
  <2>1. usb_in'.buf = s.buf
    BY <1>2, <1>4, KeptTyped DEF Bounded
  <2> QED
    BY <1>4, <1>7, <1>8, <2>1 DEF InFits, Bounded, Wire!Ids
<1> QED
  BY <1>3, <1>9, <1>10 DEF UsbBound

(* Or it stalls.                                                            *)
LEMMA StallBounded == ASSUME UsbInv, UsbBound, Wire!StallControl PROVE UsbBound'
<1>1. UsbTypes /\ UsbStates /\ SetupsFit /\ InFits
  BY DEF UsbInv, UsbBound
<1>2. /\ usb_pc' = "in"
      /\ usb_in' = Wire!Kept(Wire!Flushed(Wire!Side))
      /\ usb_chip' = [usb_chip EXCEPT !.stall = TRUE]
      /\ UNCHANGED <<usb_prev, usb_request, usb_have_addr, usb_configured, usb_status,
                     usb_hand, usb_host>>
  BY DEF Wire!StallControl
<1>3. Bounded(Wire!Flushed(Wire!Side))
  BY <1>1, SideBounded
<1>4. usb_in'.buf = Wire!Flushed(Wire!Side).buf
  BY <1>2, <1>3, KeptTyped DEF Bounded
<1>5. usb_chip'.out = usb_chip.out /\ usb_chip'.packet = usb_chip.packet
  BY <1>1, <1>2 DEF UsbTypes, Chips
<1>6. UsbStates'
  BY <1>1, <1>2 DEF UsbStates
<1>7. SetupsFit'
  BY <1>1, <1>2, <1>5 DEF SetupsFit, SetupFits, Wire!IsSetup, Wire!Ids, Wire!Requests
<1>8. InFits'
  BY <1>1, <1>3, <1>4, <1>5 DEF InFits, Bounded, Wire!Ids
<1> QED
  BY <1>6, <1>7, <1>8 DEF UsbBound

(* The thread's other steps move nothing that is bounded.                   *)
LEMMA ThreadBounded ==
    ASSUME UsbBound,
           \/ Wire!ServiceNothing \/ Wire!ServiceIN \/ Wire!CheckStatus
           \/ Wire!TestWake \/ Wire!WaitFor \/ Wire!TimedOut \/ Wire!Resume
    PROVE  UsbBound'
<1>1. /\ usb_pc' \in {"loop", "out", "in", "wait", "go sleep", "asleep", "woken"}
      /\ usb_prev' = usb_prev \/ usb_prev' = usb_status \ {"reset"}
      /\ UNCHANGED <<usb_request, usb_have_addr, usb_configured, usb_status, usb_in,
                     usb_chip, usb_hand, usb_host>>
  <2>1. CASE Wire!ServiceNothing \/ Wire!ServiceIN
    BY <2>1 DEF Wire!ServiceNothing, Wire!ServiceIN
  <2>2. CASE Wire!CheckStatus
    BY <2>2 DEF Wire!CheckStatus
  <2>3. CASE Wire!TestWake \/ Wire!WaitFor \/ Wire!TimedOut \/ Wire!Resume
    BY <2>3 DEF Wire!TestWake, Wire!WaitFor, Wire!TimedOut, Wire!Resume, Wire!others
  <2> QED
    BY <2>1, <2>2, <2>3
<1>2. UsbStates'
  BY <1>1 DEF UsbBound, UsbStates
<1>3. SetupsFit' /\ InFits'
  BY <1>1
  DEF UsbBound, SetupsFit, SetupFits, Wire!IsSetup, Wire!Ids, Wire!Requests, InFits
<1> QED
  BY <1>2, <1>3 DEF UsbBound

(* The host numbers its SETUPs up to the bound.                             *)
LEMMA SendSetupBounded ==
    ASSUME UsbInv, UsbBound, NEW asks \in Wire!Requests, Wire!SendSetup(asks)
    PROVE  UsbBound'
<1>1. UsbTypes /\ UsbStates /\ SetupsFit /\ InFits
  BY DEF UsbInv, UsbBound
<1>2. /\ usb_host.id < MaxSetups
      /\ usb_host' = [usb_host EXCEPT !.id = @ + 1, !.asks = asks, !.got = <<>>,
                                      !.ended = FALSE]
      /\ usb_chip' = [usb_chip EXCEPT
             !.out = [id |-> usb_host.id + 1, asks |-> asks], !.packet = Wire!None,
             !.stall = FALSE, !.bits = @ \cup {Wire!EP0_OUT}]
      /\ UNCHANGED <<usb_pc, usb_prev, usb_request, usb_have_addr, usb_configured,
                     usb_status, usb_in, usb_hand>>
  BY DEF Wire!SendSetup, Wire!device
<1>3. usb_host'.id = usb_host.id + 1
  BY <1>1, <1>2 DEF UsbTypes, Hosts
<1>4. /\ usb_chip'.out = [id |-> usb_host.id + 1, asks |-> asks]
      /\ usb_chip'.packet = Wire!None
  BY <1>1, <1>2 DEF UsbTypes, Chips
<1>5. usb_host.id + 1 \in Wire!Ids
  BY <1>1, <1>2, UsbNumbers DEF SetupsFit, Wire!Ids
<1>6. Len(Wire!None) <= MaxPkt
  BY UsbSizes DEF Wire!None
<1>7. SetupsFit'
  BY <1>1, <1>2, <1>3, <1>4, <1>5
     DEF SetupsFit, SetupFits, Wire!IsSetup, Wire!Ids, Wire!Requests
<1>8. UsbStates' /\ InFits'
  BY <1>1, <1>2, <1>4, <1>6 DEF UsbStates, InFits, Wire!Ids
<1> QED
  BY <1>7, <1>8 DEF UsbBound

(* What else it does leaves them be.                                        *)
LEMMA HostBounded ==
    ASSUME UsbInv, UsbBound,
           \/ Wire!TakeIn \/ Wire!SendStatus
           \/ \E s \in {"reset", "connected", "suspended"} : Wire!ChangeStatus(s)
    PROVE  UsbBound'
<1>1. UsbTypes /\ UsbStates /\ SetupsFit /\ InFits
  BY DEF UsbInv, UsbBound
<1>2. SetupFits(Wire!EmptyOut) /\ Len(Wire!None) <= MaxPkt
  BY UsbSizes, UsbNumbers
     DEF Wire!None, Wire!EmptyOut, SetupFits, Wire!IsSetup
<1>3. UNCHANGED <<usb_pc, usb_prev, usb_request, usb_have_addr, usb_configured,
                  usb_status, usb_in, usb_hand>>
  BY DEF Wire!TakeIn, Wire!SendStatus, Wire!ChangeStatus, Wire!device
<1>4. /\ usb_host'.id = usb_host.id
      /\ usb_chip'.out \in {usb_chip.out, Wire!EmptyOut}
      /\ usb_chip'.packet \in {usb_chip.packet, Wire!None}
  <2>1. usb_host \in Hosts /\ usb_chip \in Chips
    BY <1>1 DEF UsbTypes
  <2>2. CASE Wire!TakeIn
    BY <2>1, <2>2 DEF Wire!TakeIn, Hosts, Chips
  <2>3. CASE Wire!SendStatus
    BY <2>1, <2>3 DEF Wire!SendStatus, Hosts, Chips
  <2>4. CASE \E s \in {"reset", "connected", "suspended"} : Wire!ChangeStatus(s)
    BY <2>1, <2>4 DEF Wire!ChangeStatus, Hosts, Chips
  <2> QED
    BY <2>2, <2>3, <2>4
<1>5. SetupsFit'
  BY <1>1, <1>2, <1>3, <1>4
     DEF SetupsFit, SetupFits, Wire!IsSetup, Wire!Ids, Wire!Requests
<1>6. UsbStates' /\ InFits'
  BY <1>1, <1>2, <1>3, <1>4 DEF UsbStates, InFits, Wire!Ids
<1> QED
  BY <1>5, <1>6 DEF UsbBound

(* So the bounds hold.                                                      *)
LEMMA BoundInvariance == Wire!Spec => []UsbBound
<1>1. Wire!Init => UsbBound
  BY BoundStarts
<1>2. UsbInv /\ UsbBound /\ [Wire!Next]_Wire!vars => UsbBound'
  <2> SUFFICES ASSUME UsbInv, UsbBound, [Wire!Next]_Wire!vars PROVE UsbBound'
    OBVIOUS
  <2>1. CASE UNCHANGED Wire!vars
    <3>1. UsbStates' = UsbStates
      BY <2>1 DEF Wire!vars, UsbStates
    <3>2. InFits' = InFits
      BY <2>1 DEF Wire!vars, InFits, Wire!Ids
    <3>3. SetupsFit' = SetupsFit
      BY <2>1
         DEF Wire!vars, SetupsFit, SetupFits, Wire!IsSetup, Wire!Ids, Wire!Requests
    <3> QED BY <3>1, <3>2, <3>3 DEF UsbBound
  <2>2. CASE \E asks \in Wire!Requests : Wire!SendSetup(asks)
    BY <2>2, SendSetupBounded
  <2> QED
    BY <2>1, <2>2, DrainBounded, HandleBounded, ServeBounded, StallBounded, ThreadBounded,
       HostBounded DEF Wire!Next
<1> QED
  BY <1>1, <1>2, UsbInvariance, PTL DEF Wire!Spec

(* And they are the types, with what the invariant has.                     *)
LEMMA WireTyped == UsbInv /\ UsbBound => Wire!TypeOK
<1> SUFFICES ASSUME UsbInv, UsbBound PROVE Wire!TypeOK
  OBVIOUS
<1>1. UsbTypes /\ UsbStates /\ SetupsFit /\ InFits
  BY DEF UsbInv, UsbBound
<1>2. {usb_have_setup, usb_have_addr, usb_wake, usb_in.filled, usb_in.done, usb_in.zlp,
       usb_in.hold} \subseteq BOOLEAN
  BY <1>1 DEF UsbTypes, UsbStates, Endpoints
<1>3. usb_chip.bits \subseteq {Wire!EP0_OUT, Wire!EP0_IN}
  BY <1>1 DEF UsbTypes, Chips
<1> QED
  BY <1>1, <1>2, <1>3 DEF UsbTypes, UsbStates, SetupsFit, InFits, Wire!TypeOK

-----------------------------------------------------------------------------
(* The library computes what its pure functions compute, one call at a      *)
(* time.                                                                    *)
LEMMA UtilMapped == Spec => Pure!Spec
<1>1. Init => Pure!Init
  BY DEF Init
<1>2. [Next]_vars => [Pure!Next]_Pure!vars
  <2>1. CASE UtilMoves
    BY <2>1 DEF UtilMoves
  <2>2. CASE UNCHANGED utilVars
    BY <2>2 DEF utilVars, Pure!vars
  <2> QED
    BY <2>1, <2>2
        DEF vars, Next,
            NetworkMoves, DhcpMoves, UdpMoves, HashTableMoves, FreelistMoves,
            Fat32Moves, BlkCacheMoves, DmaMoves, EepromMoves, ContainersMoves,
            UsbMoves
<1> QED
  BY <1>1, <1>2, PTL DEF Spec, vars, Pure!Spec

(* What FormatNumber writes, strto reads back; the halving search, the      *)
(* calendar, IP's checksum and the CRC are exact (util.cxx, platform.cxx,   *)
(* time.cxx, ip.cxx, crc16.cxx).                                            *)
THEOREM NumbersExactHolds == Spec => []NumbersExact
<1>1. Pure!Spec => []Pure!NumbersExact
  BY LibraryAssumption, Pure!NumbersExactHolds DEF LibraryAssumption
<1>2. Pure!NumbersExact => NumbersExact
  BY DEF NumbersExact
<1> QED
  BY <1>1, <1>2, UtilMapped, PTL

(* What is URL-encoded decodes to itself, decoding never lengthens a text,  *)
(* a split neither loses a piece nor misses a divider, and a comparison is  *)
(* decided by the first difference, for texts of every length (pstring.cxx, *)
(* platform.cxx).                                                          *)
THEOREM TextExactHolds == Spec => []TextExact
<1>1. Pure!Spec => []Pure!TextExact
  BY LibraryAssumption, Pure!TextExactHolds DEF LibraryAssumption
<1>2. Pure!TextExact => TextExact
  BY DEF TextExact
<1> QED
  BY <1>1, <1>2, UtilMapped, PTL

(* Each part stays in its types, for every size of its rings, tables,       *)
(* buffers and queues (the types of all parts but Util).                    *)
THEOREM AllTyped == Spec => []TypesOK
<1>1. Spec => []Net!TypeOK
  <2>1. NetInv => Net!TypeOK
    BY DEF NetInv
  <2> QED
    BY <2>1, NetInvariance, NetworkMapped, PTL
<1>2. Spec => []Hash!TypeOK
  <2>1. HashInv => Hash!TypeOK
    BY DEF HashInv
  <2> QED
    BY <2>1, HashInvariance, HashTableMapped, PTL
<1>3. Spec => []Objs!TypeOK
  <2>1. FreeInv => Objs!TypeOK
    BY DEF FreeInv
  <2>2. Objs!Spec => []FreeInv
    BY LibraryAssumption, FreeInvariance DEF LibraryAssumption
  <2> QED
    BY <2>1, <2>2, FreelistMapped, PTL
<1>4. Spec => []Cache!TypeOK
  BY LibraryAssumption, BlkCacheMapped, Cache!TypesHold DEF LibraryAssumption
<1>5. Spec => []Dmac!TypeOK
  <2>1. DmaInv => Dmac!TypeOK
    BY DEF DmaInv
  <2>2. Dmac!Spec => []DmaInv
    BY LibraryAssumption, DmaInvariance DEF LibraryAssumption, DmaAssumption
  <2> QED
    BY <2>1, <2>2, DmaMapped, PTL
<1>6. Spec => []Seqs!TypeOK
  <2>1. SeqInv => Seqs!TypeOK
    BY DEF SeqInv
  <2> QED
    BY <2>1, SeqInvariance, ContainersMapped, PTL
<1>7. Spec => []Wire!TypeOK
  BY WireTyped, UsbInvariance, BoundInvariance, UsbMapped, PTL
<1>8. ASSUME Net!TypeOK, Lease!TypeOK, Sock!TypeOK, Hash!TypeOK, Objs!TypeOK, Fat!TypeOK,
             Cache!TypeOK, Dmac!TypeOK, Rom!TypeOK, Seqs!TypeOK, Wire!TypeOK
      PROVE  TypesOK
  BY <1>8 DEF TypesOK
<1> QED
  BY <1>1, DhcpTypesHold, UdpTypesHold, <1>2, <1>3, Fat32TypesHold, <1>4, <1>5,
     EepromTypesHold, <1>6, <1>7, <1>8, PTL
=============================================================================
