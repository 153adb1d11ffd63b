------------------------------- MODULE Library -------------------------------
(***************************************************************************)
(* The parts of the library that keep their state to themselves, side by    *)
(* side: the network thread with its buffers and rings, the DHCP client,    *)
(* UDP sockets, the hash table, the free list, the FAT32 file system, the   *)
(* sector cache, the DMA controller with two of its peripherals, the EEPROM *)
(* driver, the containers, the pure functions and the USB device.  No two   *)
(* of them share a variable, so a behaviour moves one of them, the one that *)
(* part names, and leaves the others as they start: every interleaving of   *)
(* them is made of such behaviours.                                         *)
(*                                                                          *)
(* The parts whose proofs LibraryProofs carries over take their sizes from  *)
(* the configuration, the others have small values here.                    *)
(***************************************************************************)
EXTENDS Integers, Sequences, TLC

CONSTANTS
    Buffers,        \* the buffers of the pool
    Sockets, Tuples, Readers,
    Keys,           \* the keys of the hash table
    Magazines,      \* the heap blocks of the free list
    Names,          \* the names of files
    CrashIn,        \* the calls that a power failure can interrupt
    NULL
CONSTANTS           \* the sizes of the parts that are proved for every size
    RxNum, TxNum, TxMinPool, PoolMax, MaxBackoff, Leases, QueueMax, Users,
    Pages, MaxLen, Hashes1, Hashes2, EvictionDepth, StartSize, MaxSlots,
    Places, NumKeep, CacheEntries, Sectors, MaxLost, SendSize, MaxWrite,
    MaxPkt, MaxSetups, MaxStatus,
    Handles, TopCluster, ActiveFats, Unknown, MaxSize,
    ItemKeys, Tags, Slack, DequeMin, ODequeMin, MaxUsed, RingSize, WordSize

VARIABLE part
VARIABLES
    net_pool, net_rxcons, net_rxprod, net_rxbuf, net_rxdone, net_txcons,
    net_txprod, net_txbuf, net_txpkt, net_intstatus, net_handling,
    net_signal, net_event, net_npc, net_nbuf, net_nret
VARIABLES
    dhcp_state, dhcp_backoff, dhcp_rexmit, dhcp_renew, dhcp_asked,
    dhcp_next
VARIABLES
    udp_socklist, udp_id, udp_opc, udp_want, udp_recvq, udp_ev, udp_npc,
    udp_nsock, udp_nev, udp_rpc, udp_rsock, udp_rev, udp_halted
VARIABLES
    hash_hash, hash_size, hash_table, hash_hand, hash_pos, hash_n,
    hash_work, hash_inserted
VARIABLES
    free_chain, free_used, free_nummag, free_objects
VARIABLES
    fat_fat, fat_ent, fat_fsinfo, fat_info, fat_handle, fat_writes,
    fat_damaged
VARIABLES
    blk_through, blk_lba, blk_valid, blk_dirty, blk_prev, blk_next,
    blk_head, blk_tail, blk_fresh, blk_disk, blk_lost
VARIABLES
    dma_assignment, dma_is_tx, dma_stream, dma_active, dma_enabled,
    dma_tcif, dma_head, dma_tail, dma_tx_size, dma_left, dma_read,
    dma_wpc, dma_spc
VARIABLES
    rom_pc, rom_lock, rom_state, rom_remain, rom_page, rom_device
VARIABLES
    seq_kind, seq_mem, seq_alloc, seq_head, seq_tail, seq_content
VARIABLES
    util_call, util_result
VARIABLES
    usb_pc, usb_prev, usb_request, usb_have_setup, usb_have_addr,
    usb_configured, usb_wake, usb_status, usb_service, usb_in, usb_chip,
    usb_hand, usb_host

netVars == <<net_pool, net_rxcons, net_rxprod, net_rxbuf, net_rxdone,
             net_txcons, net_txprod, net_txbuf, net_txpkt, net_intstatus,
             net_handling, net_signal, net_event, net_npc, net_nbuf, net_nret>>
dhcpVars == <<dhcp_state, dhcp_backoff, dhcp_rexmit, dhcp_renew, dhcp_asked,
              dhcp_next>>
udpVars == <<udp_socklist, udp_id, udp_opc, udp_want, udp_recvq, udp_ev,
             udp_npc, udp_nsock, udp_nev, udp_rpc, udp_rsock, udp_rev,
             udp_halted>>
hashVars == <<hash_hash, hash_size, hash_table, hash_hand, hash_pos, hash_n,
              hash_work, hash_inserted>>
freeVars == <<free_chain, free_used, free_nummag, free_objects>>
fatVars == <<fat_fat, fat_ent, fat_fsinfo, fat_info, fat_handle, fat_writes,
             fat_damaged>>
blkVars == <<blk_through, blk_lba, blk_valid, blk_dirty, blk_prev, blk_next,
             blk_head, blk_tail, blk_fresh, blk_disk, blk_lost>>
dmaVars == <<dma_assignment, dma_is_tx, dma_stream, dma_active, dma_enabled,
             dma_tcif, dma_head, dma_tail, dma_tx_size, dma_left, dma_read,
             dma_wpc, dma_spc>>
romVars == <<rom_pc, rom_lock, rom_state, rom_remain, rom_page, rom_device>>
seqVars == <<seq_kind, seq_mem, seq_alloc, seq_head, seq_tail, seq_content>>
utilVars == <<util_call, util_result>>
usbVars == <<usb_pc, usb_prev, usb_request, usb_have_setup, usb_have_addr,
             usb_configured, usb_wake, usb_status, usb_service, usb_in,
             usb_chip, usb_hand, usb_host>>

Net == INSTANCE Network WITH
    pool <- net_pool, rxcons <- net_rxcons, rxprod <- net_rxprod, rxbuf <- net_rxbuf,
    rxdone <- net_rxdone, txcons <- net_txcons, txprod <- net_txprod,
    txbuf <- net_txbuf, txpkt <- net_txpkt, intstatus <- net_intstatus,
    handling <- net_handling, signal <- net_signal, event <- net_event,
    npc <- net_npc, nbuf <- net_nbuf, nret <- net_nret
Lease == INSTANCE Dhcp WITH
    state <- dhcp_state, backoff <- dhcp_backoff, rexmit <- dhcp_rexmit, renew <- dhcp_renew,
    asked <- dhcp_asked, next <- dhcp_next
Sock == INSTANCE Udp WITH
    socklist <- udp_socklist, id <- udp_id, opc <- udp_opc,
    want <- udp_want, recvq <- udp_recvq, ev <- udp_ev, npc <- udp_npc,
    nsock <- udp_nsock, nev <- udp_nev, rpc <- udp_rpc, rsock <- udp_rsock,
    rev <- udp_rev, halted <- udp_halted
Hash == INSTANCE HashTable WITH
    Depth <- EvictionDepth, Reserve <- StartSize, MaxSize <- MaxSlots,
    hash <- hash_hash, size <- hash_size, table <- hash_table,
    hand <- hash_hand, pos <- hash_pos, n <- hash_n, work <- hash_work,
    inserted <- hash_inserted
Objs == INSTANCE Freelist WITH
    chain <- free_chain, used <- free_used,
    nummag <- free_nummag, objects <- free_objects
Fat == INSTANCE Fat32Proofs WITH
    Top <- TopCluster,
    fat <- fat_fat, ent <- fat_ent, fsinfo <- fat_fsinfo, info <- fat_info,
    handle <- fat_handle, writes <- fat_writes, damaged <- fat_damaged
Cache == INSTANCE BlkCacheProofs WITH
    Entries <- CacheEntries,
    through <- blk_through, lba <- blk_lba, valid <- blk_valid,
    dirty <- blk_dirty, prev <- blk_prev, next <- blk_next, head <- blk_head,
    tail <- blk_tail, fresh <- blk_fresh, disk <- blk_disk, lost <- blk_lost
Dmac == INSTANCE Dma WITH
    RingSize <- SendSize, assignment <- dma_assignment,
    is_tx <- dma_is_tx, stream <- dma_stream, active <- dma_active,
    enabled <- dma_enabled, tcif <- dma_tcif, head <- dma_head,
    tail <- dma_tail, tx_size <- dma_tx_size, left <- dma_left,
    read <- dma_read, wpc <- dma_wpc, spc <- dma_spc
Rom == INSTANCE Eeprom WITH
    pc <- rom_pc,
    lock <- rom_lock, state <- rom_state, remain <- rom_remain,
    page <- rom_page, device <- rom_device
Seqs == INSTANCE Containers WITH
    Keys <- ItemKeys,
    kind <- seq_kind, mem <- seq_mem, alloc <- seq_alloc, head <- seq_head,
    tail <- seq_tail, content <- seq_content
Pure == INSTANCE UtilProofs WITH
    Word <- 16, Width <- 8, ByteSize <- 4, MaxText <- 3,
    Chars <- {32, 37, 52, 71, 97, 122, 127, 255},
    Days <- 0..1100 \cup 10900..11700 \cup 47460..47940, call <- util_call,
    result <- util_result
Wire == INSTANCE Usb WITH
    pc <- usb_pc, prev <- usb_prev, request <- usb_request, have_setup <- usb_have_setup,
    have_addr <- usb_have_addr, configured <- usb_configured,
    wake <- usb_wake, status <- usb_status, service <- usb_service,
    in <- usb_in, chip <- usb_chip, hand <- usb_hand, host <- usb_host

(* What the proofs of the parts assume of their sizes. *)
ASSUME LibraryAssumption ==
    /\ Net!NetworkAssumption /\ Lease!DhcpAssumption
    /\ Sock!UdpAssumption /\ Rom!EepromAssumption
    /\ Hash!HashTableAssumption /\ Seqs!ContainersAssumption /\ Wire!UsbAssumption
    /\ NumKeep \in Nat /\ Fat!Fat32Assumption /\ Cache!BlkCacheAssumption
    /\ Pure!UtilAssumption
    /\ SendSize \in Nat \ {0} /\ MaxWrite \in Nat /\ NULL \notin {"usart", "spi"}

(* A part that stays as it starts does so in one of its initial states. *)
Init ==
    /\ part \in {"network", "dhcp", "udp", "hashtable", "freelist", "fat32",
                "blkcache", "dma", "eeprom", "containers", "util", "usb"}
    /\ Net!Init /\ Lease!Init /\ Sock!Init /\ Hash!Init /\ Objs!Init
    /\ Fat!Init /\ Cache!Init /\ Dmac!Init /\ Rom!Init /\ Seqs!Init
    /\ Pure!Init /\ Wire!Init
    /\ part # "dhcp" => dhcp_state = "reset"
    /\ part # "hashtable" =>
        hash_hash = CHOOSE h \in [Keys -> Hashes1 \X Hashes2] : TRUE
    /\ part # "blkcache" => ~blk_through
    /\ part # "containers" => seq_kind = "deque"

NetworkMoves ==
    /\ part = "network" /\ Net!Next
    /\ UNCHANGED <<part, dhcpVars, udpVars, hashVars, freeVars, fatVars,
                   blkVars, dmaVars, romVars, seqVars, utilVars, usbVars>>
DhcpMoves ==
    /\ part = "dhcp" /\ Lease!Next
    /\ UNCHANGED <<part, netVars, udpVars, hashVars, freeVars, fatVars,
                   blkVars, dmaVars, romVars, seqVars, utilVars, usbVars>>
UdpMoves ==
    /\ part = "udp" /\ Sock!Next
    /\ UNCHANGED <<part, netVars, dhcpVars, hashVars, freeVars, fatVars,
                   blkVars, dmaVars, romVars, seqVars, utilVars, usbVars>>
HashTableMoves ==
    /\ part = "hashtable" /\ Hash!Next
    /\ UNCHANGED <<part, netVars, dhcpVars, udpVars, freeVars, fatVars,
                   blkVars, dmaVars, romVars, seqVars, utilVars, usbVars>>
FreelistMoves ==
    /\ part = "freelist" /\ Objs!Next
    /\ UNCHANGED <<part, netVars, dhcpVars, udpVars, hashVars, fatVars,
                   blkVars, dmaVars, romVars, seqVars, utilVars, usbVars>>
Fat32Moves ==
    /\ part = "fat32" /\ Fat!Next
    /\ UNCHANGED <<part, netVars, dhcpVars, udpVars, hashVars, freeVars,
                   blkVars, dmaVars, romVars, seqVars, utilVars, usbVars>>
BlkCacheMoves ==
    /\ part = "blkcache" /\ Cache!Next
    /\ UNCHANGED <<part, netVars, dhcpVars, udpVars, hashVars, freeVars,
                   fatVars, dmaVars, romVars, seqVars, utilVars, usbVars>>
DmaMoves ==
    /\ part = "dma" /\ Dmac!Next
    /\ UNCHANGED <<part, netVars, dhcpVars, udpVars, hashVars, freeVars,
                   fatVars, blkVars, romVars, seqVars, utilVars, usbVars>>
EepromMoves ==
    /\ part = "eeprom" /\ Rom!Next
    /\ UNCHANGED <<part, netVars, dhcpVars, udpVars, hashVars, freeVars,
                   fatVars, blkVars, dmaVars, seqVars, utilVars, usbVars>>
ContainersMoves ==
    /\ part = "containers" /\ Seqs!Next
    /\ UNCHANGED <<part, netVars, dhcpVars, udpVars, hashVars, freeVars,
                   fatVars, blkVars, dmaVars, romVars, utilVars, usbVars>>
UtilMoves ==
    /\ part = "util" /\ Pure!Next
    /\ UNCHANGED <<part, netVars, dhcpVars, udpVars, hashVars, freeVars,
                   fatVars, blkVars, dmaVars, romVars, seqVars, usbVars>>
UsbMoves ==
    /\ part = "usb" /\ Wire!Next
    /\ UNCHANGED <<part, netVars, dhcpVars, udpVars, hashVars, freeVars,
                   fatVars, blkVars, dmaVars, romVars, seqVars, utilVars>>

Next ==
    \/ NetworkMoves \/ DhcpMoves \/ UdpMoves \/ HashTableMoves
    \/ FreelistMoves \/ Fat32Moves \/ BlkCacheMoves \/ DmaMoves
    \/ EepromMoves \/ ContainersMoves \/ UtilMoves \/ UsbMoves

Spec == Init /\ [][Next]_<<part, netVars, dhcpVars, udpVars, hashVars,
                          freeVars, fatVars, blkVars, dmaVars, romVars,
                          seqVars, utilVars, usbVars>>

-----------------------------------------------------------------------------
(* Each part keeps its variables in their types: indices stay within their  *)
(* rings and tables, states within their enumerations (all but Util). *)
TypesOK ==
    /\ part = "network" => Net!TypeOK
    /\ part = "dhcp" => Lease!TypeOK
    /\ part = "udp" => Sock!TypeOK
    /\ part = "hashtable" => Hash!TypeOK
    /\ part = "freelist" => Objs!TypeOK
    /\ part = "fat32" => Fat!TypeOK
    /\ part = "blkcache" => Cache!TypeOK
    /\ part = "dma" => Dmac!TypeOK
    /\ part = "eeprom" => Rom!TypeOK
    /\ part = "containers" => Seqs!TypeOK
    /\ part = "usb" => Wire!TypeOK

(* The controller only ever writes into buffers of its own: the one slot    *)
(* that may be without a buffer, or hold a frame that was taken out, is the *)
(* one at the consumer index, and then the controller is not at it          *)
(* (Receive, RestockRx).                                                    *)
RxSlotsStocked == part = "network" => Net!RxSlotsStocked

(* NetThread does not sleep on a frame it could take: the event is set, or  *)
(* the interrupt that sets it is still to come or to end, although it       *)
(* clears bits that were raised while it ran.                               *)
PacketNoticed == part = "network" => Net!PacketNoticed

(* NetThread asks for the service time only after a Service, while answers  *)
(* change the client's state and its times: still it never leaves a client  *)
(* that has no lease alone for longer than the longest backoff, nor one     *)
(* that has a lease beyond the lease's end, unless the backoff that ran     *)
(* when it was acknowledged is longer (Service, Backoff, GetServiceTime).   *)
ServiceTimely == part = "dhcp" => Lease!ServiceTimely

(* A client without a lease waits for something, and the byte that counts   *)
(* the backoff never wraps to 0, which would send without a pause (Service, *)
(* Backoff).                                                                *)
BackoffCounts == part = "dhcp" => Lease!BackoffCounts

(* Bind and Connect let go of the list between its changes, and two sockets *)
(* may come to share a tuple: still no tuple leads to a socket that has     *)
(* another one or is closed, so no datagram is delivered to it later        *)
(* (Bind, Connect, Close, Receive).                                         *)
ListedAsNamed == part = "udp" => Sock!ListedAsNamed

(* The events are edge triggered: a socket with datagrams queued shows      *)
(* EVENT_READABLE, although IcmpError and ClearEvent write bits they have   *)
(* read before, without a common lock (Receive, IcmpError, RecvFrom).       *)
QueuedIsReadable == part = "udp" => Sock!QueuedIsReadable

(* Between operations Find returns the place of a key exactly if the key    *)
(* was inserted and not erased since, and no key is in two places, through  *)
(* evictions and the rehashes nested in each other (Insert, Rehash).        *)
FindExact == part = "hashtable" => Hash!FindExact

(* An object in use is in a magazine that is linked, once, and marked       *)
(* there, so that no other caller is given it nor the heap its memory; and  *)
(* at most the magazine at the front is kept empty (Alloc, Expand, Free).   *)
ObjectsHeld == part = "freelist" => Objs!ObjectsHeld

(* core/fat32.cxx: "No cross-linking possible" and "Never causes another    *)
(* file to reference freed clusters".  Whenever power may fail, every       *)
(* cluster that an entry leads to is allocated and is no other entry's.     *)
NoCrossLink == part = "fat32" => Fat!NoCrossLink

(* "File shorter than actual chain", never longer: the size that the        *)
(* directory gives a file is within the clusters that it can reach, whatever *)
(* was written when power failed (write, update_dirent).                    *)
SizeCovered == part = "fat32" => Fat!SizeCovered

(* Between calls, and until power fails or a call loses clusters on its     *)
(* own, the free count is right and no cluster is allocated that nothing    *)
(* leads to (fat_allocate, fat_free_chain and all their callers).           *)
NothingLost == part = "fat32" => Fat!NothingLost

(* Between calls, whatever power failures and calls have left behind, fsck  *)
(* reports every cluster that is allocated and that nothing leads to, and   *)
(* raises no false alarm: none that is in use, no cross-link and no wrong   *)
(* size.  It counts two free clusters too many (fsck).                      *)
FsckTruthful == part = "fat32" => Fat!FsckTruthful

(* The cache and the device never disagree unnoticed: outside of the        *)
(* sectors that a bypass or a failed flush gave up, an entry has the last   *)
(* write, and what is not marked dirty is on the device, through evictions, *)
(* errors half way and reuse of entries (blkcache.cxx).                     *)
Coherent == part = "blkcache" => Cache!Coherent

(* The LRU list is one list: from either end its links lead through the     *)
(* same entries, each once, and it has every entry in use, so that there is *)
(* a victim, but for those that a failed write-through left off it          *)
(* (lru_move_to_front, which also moves entries that were invalidated).     *)
ListSound == part = "blkcache" => Cache!ListSound

(* A thread waits for a stream only while another holds every stream it     *)
(* could take: no release, by a completion, by a character that arrives or  *)
(* by the writer itself, passes it by (AssignTx, AssignRx, ReleaseTx,       *)
(* ReleaseRx).                                                              *)
ClaimsHeard == part = "dma" => Dmac!ClaimsHeard

(* The driver is one user's from Acquire to the end of its call, so that    *)
(* its data are the ones moved, and they have all been moved before the     *)
(* call returns (Acquire, Read, Write, HandleInterrupt).                    *)
OneTransfer == part = "eeprom" => Rom!OneTransfer

(* Deque, ODeque and Ring have what was put into them and not taken out, in *)
(* the order of the calls or of the items, whatever was consumed and        *)
(* compacted since; Set and ODeque find an item exactly if they have one;   *)
(* and the block that a ring's reader takes at once has the first items     *)
(* (Insert, Erase, AutoCompact, Find, Continuous).                          *)
ContentExact == part = "containers" => Seqs!ContentExact

(* A number that FormatNumber wrote reads back with strto as the same bits, *)
(* to the last character, in either radix, signed or not, the most negative *)
(* one too, however it is padded; only blanks after a minus sign end it     *)
(* early.  The search by halving finds the least clear or set bit of every  *)
(* word.  A date is its day's: counted in closed form it is the same number *)
(* of days, and the time of day adds up.  A block with its checksum in      *)
(* place sums to all ones, of odd length or even, whatever sum it starts    *)
(* from, and the checksum is never 0, which in UDP means none.  A message   *)
(* followed by its CRC has CRC 0, and with a byte changed it has another.   *)
NumbersExact == part = "util" => Pure!NumbersExact

(* Decoding gives back what was encoded, which holds no character that must *)
(* be escaped but the escape, and never makes a string longer.  The pieces  *)
(* of a split put together with the divider are the string, no more of them *)
(* than asked for, and none but a last one cut off by the limit holds the   *)
(* divider.  Comparison is by the first character that differs.             *)
TextExact == part = "util" => Pure!TextExact

(* Once no SETUP waits, what is still to be sent is of the reply to the     *)
(* host's last SETUP, and so is the packet in the controller if there is    *)
(* such a reply: nothing of a reply that the host gave up is left in the    *)
(* buffer, and what the controller may have of it is written over           *)
(* (ServiceEPs, FillINEP, HandleInterrupt).                                 *)
ReplyIsCurrent == part = "usb" => Wire!ReplyIsCurrent

(* The thread does not sleep on a SETUP, unless the interrupt came between  *)
(* its test and its wait, and then _wake is set for when the second is over: *)
(* if nothing else is going on, there is an answer to take, or there was,   *)
(* or a stall, to every request but those that the code never answers       *)
(* (Service, ServiceEPs, HandleInterrupt).                                  *)
Answered == part = "usb" => Wire!Answered

-----------------------------------------------------------------------------
(* The names of files are alike to the model checker. *)
NamesAlike == Permutations(Names)
=============================================================================
