# enetcore in TLA+

Models, model checks and proofs of the enetcore library: the thread scheduler
of `core/thread.cxx`, the synchronisation objects of `core/mutex.cxx` that
everything else stands on, the DNS resolver as a monitor built from them, and
twelve further parts, from the network thread, the FAT32 file system and the USB
device down to the containers and the pure functions. Every definition is translated from the
source; the lines each one stands for are in `PROJECT.json` under `map`.

    cd tla
    tlc -workers 2 -config Mutex_safe.cfg Mutex.tla      # one run
    tlapm CondVarProofs.tla                              # one module's proofs

## The system

enetcore is a library for single-core Cortex-M controllers: preemptive threads,
mutexes, condition variables and events, drivers whose interrupts wake threads,
a small UDP/IP stack and storage.

| Part | State it keeps | Operations | What is hard about it | What makes it correct |
|---|---|---|---|---|
| Scheduler (`core/thread.*`, `arch/armv7m/systick.*`, `nvic_exc.s`) | run queue; per thread state, priority, object and deadline of its wait; current thread; end of quantum; pending switch; IPL count; SysTick | Create, SetPriority, WaitFor, Sleep, WakeSingle, WakeAll, IPL, Reap; SysTick and PendSV handlers | every call can be preempted and every wake can come from an interrupt; one timer serves all deadlines; switches are posted now and carried out later | no deadline is lost, the highest runnable thread runs, a switch goes to a runnable thread |
| Mutex (`core/mutex.*`) | owner, count, number of waiters | TryLock, Lock, Unlock | Unlock runs with interrupts enabled | mutual exclusion, no lost wakeup |
| CondVar | number of waiters | Wait, timed Wait, Signal, Broadcast | Wait is Unlock, WaitFor and Lock one after the other | the mutex comes back at its depth; a signal reaches a blocked waiter |
| EventObject | value, mode, number of waiters | Set, Reset, Wait, timed Wait | set from interrupts; the value is exchanged and the waiters woken in two sections; timeouts race sets | a wait returns on a value or at its limit; no waiter stays blocked on a set event |
| DNS resolver (`core/dns.*`) | IDLE or RESOLVING, a lock, a condition variable | GetAddrByName (Acquire, query, Release), SetNS, SetDomain | several kinds of callers share one condition variable | one resolver at a time, waiting resolvers get their turn |
| Buffer pool, network thread and Ethernet (`core/network.*`, `soc/stm32h7x/ethernet.*`) | free buffers; two descriptor rings with the buffer of each slot; interrupt status; one event | Alloc, FreeBuffer, Receive, RestockRx, Send, HandleInterrupt; the service loop | indices are moved by hardware, interrupts and threads; the IPL around the pool masks nothing | the controller never comes to a slot without a buffer; no frame waits unseen |
| DHCP (`core/dhcp.*`) | state, backoff, times of retransmission, lease | Reset, Receive, Service | timeouts race replies; the thread keeps a service time computed before them | the client is served in time; the backoff never wraps |
| UDP (`core/udp.*`, `core/socket.h`) | socket list by tuple, receive queues, event bits | Create, Bind, Connect, Close, Receive, RecvFrom, IcmpError | two locks never held together; lookups are used after unlocking; bits changed without a common lock | a tuple leads to the socket that has it; queued datagrams are announced |
| Hash table (`core/hashtable.*`, `core/hashmap.h`) | two-hash table, item in hand | Find, Insert, Erase, Rehash | evictions that rehash while they carry an item, rehashes nested in each other | a key is found exactly if it was inserted |
| Free list (`core/freelist.*`) | chain of magazines with a bitmap each | Alloc, Expand, Free | magazines go back to the heap by a count that is never lowered | no object in use is given out again or freed with its magazine |
| FAT32 (`core/fat32.*`) | allocation table, entries, fsinfo, open files | create, open, write, truncate, close, unlink, rename, mkdir, rmdir, sync, fsck | power fails between any two sector writes | no cross-links, no file beyond its clusters, counts right, fsck tells the truth |
| Sector cache (`core/blkcache.*`) | entries with LRU list and dirty marks | read, write, bypass, flush | device errors half way; eviction writes | what is not dirty is on the device; the list is one list |
| DMA, USART and SPI (`soc/stm32f4x`) | stream assignment, transfer counts, send queue | AssignTx, AssignRx, AssignRxTx, Transmit, Release; Write, StartTx, Transact; completion interrupts | completions and received characters interrupt a writer between test and wait | a thread waits for a stream only while another holds it |
| EEPROM (`soc/lpc/lpc_eeprom.*`) | lock, state, remaining length, page | Acquire, Read, Write, interrupt | one completion wakes two users | a transfer is one user's from start to end |
| Containers (`core/vector.h`, `deque.h`, `odeque.h`, `ovector.h`, `set.h`, `ring.h`) | arrays with a head and a tail | Insert, Erase, PushBack, PopBack, Flush, Find, Continuous | compaction at a moment that the calls before decide; indices that wrap | what was put in comes out, in order, once |
| Pure functions (`core/util.*`, `platform.cxx`, `time.*`, `pstring.cxx`, `crc16.cxx`, `ipcksum`) | none | FormatNumber, strto, ffcw, ffsw, ToCalendar, UrlEncode, UrlDecode, Split, strcmp, checksums | extremes of integers, ends of strings and of years, carries | what is written reads back |
| USB device (`soc/lpc/lpc_usb_dev.*`, `core/usbtmc.*`) | the last SETUP; per endpoint a buffer with what is filled, done, held and to be followed by an empty packet; address, configuration, status; `_wake` | Write, WriteHold, WriteDone, FillINEP, HandleInterrupt, ServiceEPs, ProcessSetup, Service | a SETUP comes over a reply that is half sent; the interrupt refills what the thread flushes; a wake between test and wait | no part of a reply goes out as another's; every SETUP is answered |
| FP context (`Thread::EnableFP`, `Rotate`) | owner of the FP registers, saved registers | EnableFP, the switch | registers are saved lazily | no thread sees another's registers |
| IP, ARP, ICMP (`core/ip.*`) | routes, datagrams waiting for ARP | Send, Receive, ArpReceive, Service | routes expire while sockets cache them | buffers are neither lost nor freed twice |
| SD cards, I2C, CS8900A, partition map, FAT16 | see "Not modelled" | | | |
| The rest | | | register access, layouts, formats, standard algorithms, drawing | see `components` in `PROJECT.json` |

Interaction: drivers' interrupt handlers and threads call `WakeSingle`,
`WakeAll` and `EventObject::Set`; blocking calls go through `WaitFor` and
`Thread::Idle`; all of them meet in `Rotate` and in the pending PendSV. The
network thread waits on one event and calls Ethernet, IP, DHCP and, through IP,
UDP; application threads reach UDP through sockets, DNS through its monitor.
FAT32 reads and writes through the sector cache; the USART and the SPI bus share
the DMA controller's streams.

## Modules

| Module | What it is |
|---|---|
| `Scheduler` | state and operations of the scheduler; no next-state relation of its own |
| `Thread` | the scheduler used through the thread API by arbitrary threads and interrupts |
| `Mutex` | Mutex on the scheduler; refines `RecursiveLock` |
| `CondVar` | CondVar with its mutex on the scheduler; refines `Monitor` |
| `EventObject` | EventObject on the scheduler; refines `Event` |
| `Dns` | the resolver's use of `CondVar` |
| `RecursiveLock`, `Monitor`, `Event` | abstract specifications: what the three promise |
| `Network` | buffer pool, the Ethernet driver's rings with its controller, and NetThread's loop |
| `Dhcp` | the DHCP client with NetThread's service time |
| `Udp` | socket list and sockets under their locks, with readers and the network thread |
| `HashTable`, `Freelist` | the cuckoo hash table; the free list of magazines |
| `Fat32` | every call that writes, sector by sector, with power failures, mount and fsck |
| `BlkCache` | the sector cache over a device whose accesses fail |
| `Dma` | the F4's DMA controller with a USART and an SPI bus |
| `Eeprom` | the LPC's EEPROM driver with its users |
| `Containers`, `Util` | the sequential containers; the pure functions, one call to a behaviour |
| `Usb` | the LPC's USB device and USBTMC's control requests, with the controller and a host |
| `Library` | composes the twelve parts from `Network` to `Usb`, which share no state, by `INSTANCE ... WITH` |
| `SchedulerProofs` | lemmas: each operation of `Scheduler` keeps the scheduler's invariant |
| `ThreadProofs`, `EventObjectProofs`, `Fat32Proofs`, `BlkCacheProofs`, `UtilProofs` | the theorems about a module |
| `CondVarProofs` | the theorems about `Mutex`, `CondVar` and `Dns`, which extend each other |
| `LibraryProofs` | the library implements its parts, and so has their theorems; the theorems about `Network`, `Udp`, `Dhcp`, `Eeprom`, `HashTable`, `Freelist`, `Dma`, `Usb` and `Containers`, whose only instances are there |

`Mutex`, `CondVar`, `EventObject` and `Thread` each extend `Scheduler`, so that
the interleavings that a mutex or an event is checked under are those the real
scheduler can produce, with its priorities, preemption points and pending
switches, and not arbitrary ones. `CondVar` extends `Mutex`, `Dns` extends
`CondVar`. The other modules do not need who runs when: they let any thread or
interrupt step between any two steps of another, which contains what the
scheduler allows, and take a mutex's section as one step, which `Mutex` warrants.

### How state and steps correspond to the code

* **Names.** A variable is named for the member it models (`_waitob` is
  `waitob`, `Mutex::_tid` is `tid`), as its comment in the module says. A thread
  is its index in `_runq`.
* **Steps.** A step is what the code does between two points where it can be
  interrupted. A `ScopedNoInt` section is one step up to a wait in it.
  `Mutex::Unlock`, `CondVar::Wait`, `Signal`, `EventObject::Set` and
  `Thread::Reap` run with interrupts enabled and are one step per access to
  shared state; `pc`, `cv` and `at` say where a thread stands in them.
* **`Rotate`.** The pass over the run queue is a set of operators over the
  states it reads (`Ready`, `Highest`, `NextPeer`, `Choice`, `NextTimer`); its
  callers are `PendSV` (`in_csw`), `SysTick` and `EnterIdle`. When no thread is
  runnable the code reads the priority through a null pointer; address 0 is the
  vector table, and whatever is read, a null `top` never becomes the current
  thread, so the model keeps the current one.
* **PendSV.** It has the lowest exception priority and preempts all threads, so
  while it is pending and interrupts are enabled no thread takes a step
  (`InCode` requires `~pendSV`). `ContextSwitch` opens a window for it, even in
  code that runs with PRIMASK set.
* **`Idle`.** `EnterIdle` is the code up to `EnableInterrupts`, `WaitForInterrupt`
  is WFI, any interrupt moves a thread from `wfi` to `check`, and there the loop
  goes round (`IdleAgain`) or returns (`LeaveIdle`). While a thread sits in
  `Idle` it is the current thread even if it is blocked.
* **Time.** Deadlines, quantum and timer are ticks from now, so states do not
  grow; `Tick` moves them all. `SysTick` may fire at any time while it is armed,
  early too, since its 24-bit reload register cuts off long counts (a superset
  of what the hardware does); it is taken before time moves past its expiry.
* **IPL.** `SetIPL(min(ipl - 1, GetIPL()))` with BASEPRI 0 leaves it at 0, which
  masks nothing. The model's IPL is what it is in the code: a counter.
* **Assertions** do nothing in the models, as in a build without `DEBUG`; those
  worth it are stated as properties.

Of the parts of `Library`:

* **Network.** The controller walks both rings and raises status bits; the
  interrupt handler takes the bits it read, handles them, and clears what it has
  handled; `npc` is where NetThread stands. `Alloc`'s `Back` and `PopBack` are two
  steps, since the interrupt's `FreeBuffer` may come between. A frame's content is
  left out; whether it is IP or ARP decides nothing while no interface exists.
* **DHCP.** Times are seconds left. An answer to any earlier message is accepted
  at any time, because the client keeps its transaction id: loss, delay, repetition
  and reordering are all in `Receive`. The seconds until `Service` is called are
  NetThread's `next`.
* **UDP.** One step per section under a lock; a read and a write of `_event` are
  two. `halted` is a tripped assertion, which stops the thread's processor in
  every build that has assertions.
* **FAT32.** A call is one step that computes the sectors it writes; they are
  then written one at a time, and `Crash` may drop the rest when the call is one of
  `CrashIn`. `Mount` reads back what the device has.
* **Sector cache.** Contents are abstracted to "is the last write"; each device
  access may fail, and the call then returns where the code does.
* **DMA.** Handlers are one step; thread code is a step per access to what a
  handler changes, because `Thread::IPL` masks nothing. `Completes` is the engine.
* **Hash table, free list.** They run without interrupts. The hash table's steps
  are those of its loop, so that the rehashes it nests can be followed.
* **Containers.** `content` is the abstract sequence; the rest is the code's array
  and indices. The size at which compaction starts, 32 or 64 in the code, is a
  constant.
* **Pure functions.** `call` is a function and its arguments, `result` what it
  returned; integers have `Word` values, characters are codes, CRC words sets of bits.

* **USB.** A request is known by what becomes of it (`Requests`), and bytes are
  counted in units and named by the SETUP they answer. The thread masks the
  interrupt while it serves an endpoint (`SetIPL(IPL_USB)` does), so that is one
  step; the handler is two, since the host may send a SETUP while it takes one out.

External to the code and modelled from its use: the clock (`Tick`, `Clock`), the
Ethernet and USB controllers, the USB host, the DMA engine, the DHCP server and the network, the
storage device, the order passed to the sorted containers, and the hash function
(any of a set of pairs of hashes for each key).

## Runs

Twelve runs, five of which expect a violation. `Library_safe` takes about three
minutes on two cores, `Thread_safe` and `Mutex_safe` less.

| Run | Expect | Bounds | Shows |
|---|---|---|---|
| `Thread_safe` | pass | 2 threads, 2 priorities, IPLs nested once, delays of 1, `IplModulus` 4 | `TypeOK`, `TimerCoversDeadlines`, `HigherPriorityPending`, `SwitchTakesHighest` |
| `Thread_live` | pass | 2 threads, delays of 2, quantum 2, fairness | `TimedWaitEnds`, `HighestRuns` |
| `Thread_round_robin` | violation | 2 threads of one priority, fairness | `RoundRobin` |
| `Mutex_safe` | pass | 3 threads, 2 priorities, locks nested twice | `TypeOK`, `CountIsDepth`, `WaitersCounted`, `NoStrandedWaiter`, `ImplementsRecursiveLock` |
| `Mutex_owner` | violation | 2 threads, locks nested twice | `HolderIsOwner` |
| `CondVar_safe` | pass | 2 threads, 2 priorities, locks nested three times, delays of 2 | `CondCounted`, `NoStrandedWaiter`, `ImplementsMonitor` |
| `Dns_safe` | pass | 3 threads, 2 priorities | `OneResolver` |
| `Dns_lost` | violation | 2 threads | `ChangeSignalled` |
| `EventObject_safe` | pass | 3 threads, 2 priorities, both modes, values 0 to 2 | `WaitersCounted`, `NoStrandedWaiter`, `ImplementsEvent` |
| `Library_safe` | pass | see below | the 22 invariants of `Library` |
| `Fat32_crash` | violation | 2 names, 2 clusters and the root's, both copies of the table, power fails in unlink or rmdir | `NoCrossLink` |
| `Dma_owner` | violation | ring of 3, writes of up to 2 characters | `StreamOwned` |

Why the bounds are enough: three threads are the least number with a holder, a
waiter and one that overtakes it, and with two runnable threads to choose from
while a third blocks; two priorities are enough for preemption, equal and
unequal rank. `Thread_safe`, which has IPLs, priority changes and stops besides, has two threads; the
theorem about the same four properties has no such bound, and the runs of `Mutex`, `EventObject` and
`Dns` drive the same scheduler with three. A delay of one tick already races the wake against the timer, the
quantum and an early SysTick; `Thread_live` and `CondVar_safe` take two, so that
one deadline can lie behind another. `Horizon`, the 10 s upper bound on the
timer, is the tick after the longest delay where that fits. `IplModulus` stands
for 2^32 and is only to be larger than the nesting allowed. For the scheduler, the mutex, the
condition variable, the resolver and the event the theorems then remove the bounds altogether. No run uses a state constraint.

The parts of `Library_safe`:

| Part | Bounds | Why they are enough |
|---|---|---|
| network | 4 buffers, rings of 3 slots, no reserve kept from transmission, at most 3 in the pool | fewer buffers than the two rings have slots, so restocking fails and reclaims; the rings wrap; proved for every size |
| dhcp | backoff to 8, leases of 5 and 12 s | a lease shorter and one longer than the longest backoff; proved for every size |
| udp | 2 sockets, 2 tuples, 2 readers, 1 datagram queued | two owners that contend for a tuple, two readers for a datagram; proved for every size |
| hashtable | 3 keys, 6 pairs of hashes, 2 evictions, size 2 to 8 | keys that collide in both tables, in one and in none; two doublings; proved for any hashes, sizes and depth |
| freelist | 3 magazines of 2 objects, 2 kept | one more than is kept; proved for every size |
| fat32 | 2 names, 1 handle, 2 clusters and the root's, files of up to 2 clusters, 1 copy of the table | two files, or a file and a directory, that compete for the last cluster; proved for every size |
| blkcache | 3 entries, 4 sectors, 1 sector given up | one sector more than entries, so that there is always an eviction; front, middle and back of the list; proved for every size |
| dma | ring of 4, writes of up to 4 characters | a write longer than the ring has room for, and one that wraps; proved for every size |
| eeprom | 3 users, 3 pages, lengths to 3 | two users that are woken while a third is in; proved for every size |
| containers | 2 keys with 2 tags, 6 items, compaction from 2 and 4 slots, ring of 4 | equal items that differ; a head that wraps; compaction in the middle of every call that makes it; proved for any keys, tags and sizes |
| util | integers of 16 values, bytes of 2 bits in checksums, strings of 3 to 5 characters, the days of 1970 to 1972, 1999 to 2001 and 2099 to 2101 | every value and every word of 8 bits; a century that is and one that is not a leap year; sums that carry twice; proved for every even word, every byte, every day and texts of every length |
| usb | packets of 2 units, replies of 1 to 3 in up to three writes, 2 SETUPs, 1 change of status | a reply that fills a packet, one that fills it and leaves a rest, one of less; one SETUP over another in every state of the first; proved for every packet size and any number of SETUPs and changes |

`Mutex`, `CondVar` and `EventObject` start in `Settled`, a state that the
threads reach by creating each other and setting their priorities, for every
choice of priorities. They do not change priority afterwards and take no IPLs;
`Thread` does both. Deadlock is checked in the runs on the scheduler, where time always moves; it is not in `Library` and its
parts, where a file system with no room or a bound reached may leave nothing to do. `Library_safe`
takes the names of files as symmetric: they are only compared.

`CrashIn` of `Library_safe` leaves out the calls that are known to break the
documented promise when power fails in them: rmdir, truncate and close free
clusters before the entry is written (`Fat32_crash` shows rmdir), and a directory
that grows is linked in before its new cluster is cleared.

**Fairness** (`FairSpec` in `Thread`): the clock moves; an expired SysTick and a
pending PendSV are taken, which the hardware guarantees as long as interrupts
are enabled; the scheduler's own code (`Idle`, `Reap`, a return from a wait)
runs on. Nothing is assumed of the threads: they may compute for ever, never
wake anybody and never wait. `Thread_live` has no IPLs: with them a thread can
end up with interrupts disabled for good (see the divergences), and then nothing
is taken. The other modules state no fairness: their "in time" is said by what is
due (`PacketNoticed`, `ServiceTimely`, `ClaimsHeard`, `NoStrandedWaiter`), which the
scheduler's liveness then carries out.

## Proofs

| Theorem | Says |
|---|---|
| `ThreadProofs!TypesHold` | `Spec => []TypeOK` |
| `ThreadProofs!DeadlinesCovered` | `Spec => []TimerCoversDeadlines` |
| `ThreadProofs!HigherPrioritySwitches` | `Spec => []HigherPriorityPending` |
| `ThreadProofs!SwitchesTakeHighest` | `Spec => SwitchTakesHighest` |
| `CondVarProofs!TypesHold`, `CountHolds`, `WaitersHold`, `NoLostWakeup` | of the mutex: `Spec => []TypeOK`, `[]CountIsDepth`, `[]WaitersCounted`, `[]NoStrandedWaiter` |
| `CondVarProofs!MutexImplementsRecursiveLock` | `Spec => ImplementsRecursiveLock` |
| `CondVarProofs!CvTypesHold`, `CondCountHolds`, `MonitorLosesNoWakeup` | of the condition variable with its mutex: `CvSpec => []CvTypeOK`, `[]CondCounted`, `[]NoStrandedWaiter` |
| `CondVarProofs!CondVarImplementsMonitor` | `CvSpec => ImplementsMonitor` |
| `CondVarProofs!ResolverIsMonitor`, `ResolverAlone` | of the resolver: `DnsSpec => ImplementsMonitor`, `[]OneResolver` |
| `EventObjectProofs!TypesHold`, `WaitersHold`, `NoLostWakeup` | `Spec => []TypeOK`, `[]WaitersCounted`, `[]NoStrandedWaiter` |
| `EventObjectProofs!EventObjectImplementsEvent` | `Spec => ImplementsEvent` |
| `Fat32Proofs!Invariance`, `Typed`, `NoCrossLinks`, `SizesCovered`, `NothingIsLost`, `FsckTellsTruth` | `Spec => []IInv`, `[]TypeOK`, `[]NoCrossLink`, `[]SizeCovered`, `[]NothingLost`, `[]FsckTruthful` |
| `BlkCacheProofs!TypesHold`, `CacheCoherent`, `ListStaysSound` | `Spec => []TypeOK`, `[]Coherent`, `[]ListSound` |
| `UtilProofs!NumberReadsBack` | what `FormatNumber` writes, `strto` reads back: the lemma behind the first part of `NumbersExact` |
| `UtilProofs!NumbersExactHolds`, `TextExactHolds` | of the pure functions: `Spec => []NumbersExact`, `[]TextExact` |
| `LibraryProofs!NetworkMapped` and eleven more | the library implements the part: `Spec => Net!Spec` and so on |
| `LibraryProofs!Fat32TypesHold`, `ClustersApart`, `SizeReached`, `ClustersKept`, `FsckReports`, `CacheCoherent`, `ListStaysSound`, `NumbersExactHolds`, `TextExactHolds` | the same of the library |
| `LibraryProofs!AlwaysStocked`, `NoFrameMissed` | `Spec => []RxSlotsStocked`, `[]PacketNoticed`, of the network thread |
| `LibraryProofs!UdpTypesHold`, `TuplesLeadHome`, `NoEventLost` | `Spec => []Sock!TypeOK`, `[]ListedAsNamed`, `[]QueuedIsReadable` |
| `LibraryProofs!DhcpTypesHold`, `ServedInTime`, `BackoffNeverWraps` | `Spec => []Lease!TypeOK`, `[]ServiceTimely`, `[]BackoffCounts` |
| `LibraryProofs!EepromTypesHold`, `OneAtATime` | `Spec => []Rom!TypeOK`, `[]OneTransfer` |
| `LibraryProofs!FoundExactly` | `Spec => []FindExact`, of the hash table |
| `LibraryProofs!ObjectsStayHeld` | `Spec => []ObjectsHeld`, of the free list |
| `LibraryProofs!NoClaimUnheard` | `Spec => []ClaimsHeard`, of the DMA controller |
| `LibraryProofs!RepliesStayCurrent`, `EverySetupAnswered` | `Spec => []ReplyIsCurrent`, `[]Answered`, of the USB device |
| `LibraryProofs!ContentsKept` | `Spec => []ContentExact`, of the containers |
| `LibraryProofs!AllTyped` | `Spec => []TypesOK`, the types of every part with state |

Those on the scheduler hold for every number of threads, priorities, objects, values, nesting depths and
delays, from the assumptions on constants in the modules: there is at least one
thread and one priority, the quantum is not longer than the bound on the timer,
the nesting of IPLs fits their counter, the mutex, the condition variable and the event are objects and
`NULL` is not. The others hold for every set of buffers, sockets, tuples, readers, users, leases,
pages, entries, sectors, keys with any hashes, magazines, clusters, names, open files and items of containers, from the assumption that each part states
(`NetworkAssumption`, `DhcpAssumption`, `UdpAssumption`, `EepromAssumption`, `HashTableAssumption`,
`UsbAssumption`, `Fat32Assumption`, `BlkCacheAssumption`, `ContainersAssumption`, `UtilAssumption`): the rings have at least two slots, there are finitely many buffers and at least as
many as receive slots, the longest backoff is a power of two up to 128, some page is the last, the table starts
with a slot, a packet holds a unit, the number that stands for an unknown free count is above every count, the first FAT is
among those written, there are finitely many entries, the
size of a ring divides the number of values of its indices' type (it is a power of two in the code), the keys of containers are integers, a word has an even number of values and its width in bits is a power of two, a byte has more than
one value, no character of a string is the terminator, times and
bounds are natural numbers, and `NULL` is in none of the sets. A component's theorems
assume them explicitly, because its module is instantiated; `LibraryAssumption`,
which the run evaluates, gives them for the library.

*The scheduler's invariant* `SchedInv` (`SchedulerProofs`) is type correctness
with `TimerCoversDeadlines` and `HigherPriorityPending`. It is inductive as it
stands because each of the latter admits the pending switch: whenever an
operation breaks "the timer covers it" or "nobody outranks the current thread",
it leaves a pass of `Rotate` due, and that pass restores both. The lemmas that
carry this are `HighestChosen` (a finite set of threads has a first one of the
highest priority), `ChoiceIsHighest` and `TimerSettingCovers`, then one
`...Keeps` lemma for each operation. `Thread` adds only the bound on held IPLs.

*The mutex's invariant* (`CondVarProofs!IInv`) adds: `Standing`, what a thread's
place in the code says of its state (a thread at `lock` waits for the mutex or
has been woken, everywhere else it is runnable or asleep); `OneHolder`, at most
one thread has locks, and a recorded owner of a locked mutex is that thread;
`CountIsDepth`, `WaitersCounted` and `NoStrandedWaiter`. `OneHolder` is weaker
than "the holder is the owner", which is what fails in `Mutex_owner`: mutual
exclusion survives because a wiped `_tid` keeps everyone out, the holder too.
`NoStrandedWaiter` needs `Standing` and the lemma `WakeSingleWakes`, that
`WakeSingle` makes a blocked waiter runnable if there is one.

*The condition variable's* (`CvInv`) restates this for threads that are also inside `Wait`: `CvStands` says where a
thread stands in both codes at once, and `Held` that one thread at most is inside with `Wait`'s callers left out,
that `_count` is its depth but for the moment in which `Wait`'s `Lock` has returned and the depth is not restored
(then it is 1), and that `Wait`'s local variable has the depth to go back to. Mutual exclusion needs the last two
together: it is `_count` that keeps others out, while the depth that the monitor promises sits in a local variable.
The steps of `CvNext` are sorted by `CvNextIsCore` into steps of the mutex and the scheduler (`CoreStep`), for which
one lemma each suffices, and five of its own. The resolver only takes steps of `CvNext`, and
`OneResolver` adds who has which task.

*The event's* (`EventObjectProofs!IInv`) is the scheduler's with `Standing`, `WaitersCounted` and `NoStrandedWaiter`.
The last is inductive with what `Standing` says of a waiter: one that is neither blocked nor timed out is
runnable, so that it will take the value; a step that clears the value, or leaves it set with a thread in `Set` past its
test, makes up for a waiter passed over.

*The network's invariant* (`LibraryProofs!NetInv`) is `RxInv` with `WakeInv`. `RxInv` adds to
`RxSlotsStocked` that the slot at the consumer index has its buffer once `RestockRx` is at its second half.
`WakeInv` says that when the thread is on its way to sleep past a frame (`Away`), the event is set, or a
status bit that is not among those being cleared will raise an interrupt, or the handler is still to signal;
and that a handler that clears the receive bit has a signal to give. `PacketNoticed` alone is not inductive: the
handler clears bits after it has looked, and what makes up for a bit cleared too late is the signal it then sends.

*The DHCP client's* adds to `ServiceTimely` that the backoff is a power of two up to the longest, or 0 in a
client with a lease, and that no wait for a retransmission is longer than the longest backoff, which is why the thread may
take an old backoff for its own. *UDP's* adds `Placed` (a listed socket has the tuple it is listed by and its
owner has not taken it off), and what readers and the network thread have in hand: a reader about to clear
the event has seen an empty queue, and an error about to write bits back has read a readable bit that still
holds; without these, a clear and an error that overlap a delivery would break `QueuedIsReadable`. *The EEPROM
driver's* adds that the driver's state is idle exactly when nobody is inside, and that a finished transfer has
nothing left. In each module the proof that a step keeps the invariant is one lemma per action.

*The sector cache's* (`BlkCacheProofs!IInv`) replaces the lookup in `Coherent` by all valid entries (`Agree`), which is the same only while no
sector is in two of them (`Unique`). `OneList` says that some sequence of entries is threaded forth and back by the links, as
`ListSound` does, and that an entry off that list has no links (`Loose`): `lru_move_to_front` unlinks
an entry by what its own links say and would otherwise cut another out. With write-through (`through`) a valid entry may be
off the list, since a failed write returns before it puts its entry there; without, all are on. The proof gives the new sequence for each case: the entry from the
front, the middle, the end or outside.

*The file system's* (`Fat32Proofs!IInv`) cannot be a statement about the chains on the device alone, because a call plans its
writes and then stores them one by one: it says that there are a state `t` and chains `ch` such that the writes still to come
lead from the device to `t` (`Leads`), and `t` with `ch` is `Settled`. Wherever power may fail on the way,
`Leads` asks that the device is sound with chains of its own. `Sound` says that the chain of each head, the root's or an entry's,
is linked up to a mark of its end, that a cluster is in one of them at most and once, that an entry's chain begins where the entry says and
is not shorter than its size, and that a never used slot is the last of its directory. `Agrees` ties the open files to
their entries, and `Counted` the free count to the FAT, until a power failure or a call that loses clusters (`damaged`). Chains
are given and not computed: `Reads` shows that what the code reads by following the FAT (`Chain`, `Live`, `Entries`) is `ch`. Each
call has one lemma (`...Done`), which gives the state after each of its writes; `FreeLeads` does so for a whole chain.
The assumption that power does not fail in four of the calls is the one that `CrashIn` makes in the run, and the code needs it: see the divergences.

*fsck* (`FsckTellsTruth`) needs no invariant beyond that: between calls the chains are there, and the proof is about its
nested folds. `Alike` and `FoldsAgree` stand in for induction over a fold, by the least number of indices for which two functions
with the same equation would differ; `VisitsMark`, `InsideMarks` and `RootMarks` say what each of the three walks marks if each step marks
its share. The shares are disjoint because no two chains share a cluster (`TreeApart`), so no step meets a marked cluster, and the walks
end at a never used slot only where the directory does (`FreeLast`). What is marked in the end is `Reachable` (`UnderRoot`).

*The hash table's* (`HashInv`) places every key that was inserted in exactly one of the table, the item in hand, what is left of a
vector being rehashed and the item of an `Insert` that waits for one, at any depth of nesting: a key in none would be lost, one in two found
twice. *The free list's* is `ObjectsHeld` itself with the types. *The DMA controller's* (`DmaInv`) adds only that a
character is pushed while some are left; `ClaimsHeard` is inductive because every release wakes in the section in which it frees.

*The USB device's* (`UsbInv`) follows the host's last SETUP: one in the controller is the host's last (`SetupInChip`); one that the
interrupt has read, or has just been overwritten, still has its bit (`SetupInHand`); once none waits it is `_request`
(`SetupRequested`), unless a reset is to come (`ResetEnds`). `ReplyCurrent` and `SetupReplied` are the two properties for states in which
neither a SETUP nor the interrupt is on its way; `ThreadAwake` says that a thread which still has a SETUP has been told of
its endpoint and is not asleep for good. Without `SetupInHand` a SETUP that arrives between the handler's two steps could leave the old one for the thread.
Its types need more (`UsbBound`): that what the controller, the handler and `_request` have of a SETUP carries a number that the host
has given out and is a request of `Requests`, that the buffer holds such numbers only, and that no packet is longer than the endpoint's.

*The containers'* (`SeqInv`) says for each kind what the array from the head on holds: of a deque the content itself (`SeqHeld`), of the ordered ones
besides that it is in order, of a set that its keys differ, and of a ring that its item `i` is `i` slots after the head, modulo the size,
however often the indices have wrapped. Compaction keeps what is held by dropping as many slots as it
takes off the head. The bisection is correct by the least width of a window for which it would not be (`Bisected` is recursive over windows):
all keys ahead of the window are at most the one sought, all behind it at least, and what the loop after it finds is then the first greater one.

*The pure functions* (`UtilProofs`) need no invariant to speak of: what is proved is what each function returns, for every argument.
Recursive functions and folds are chosen by their equations, so one that satisfies them is first shown to exist: `Recursion` for a function that recurs
towards an end, `SetFold` for the sets of indices under `FoldLeft`. Then follow, by `Induct` or by the least argument for which it
would fail: that digits are worth the number (`WorthMore`, `ShownIs`) and `strto`'s running sum, modulo the word, is what they are worth (`ValueIs`); that the mask of the
halving search always holds the least bit sought (`SearchIs`); that the years and months passed over are counted by the closed form (`YearIs`, `MonthIs`);
that folding the carries keeps a sum modulo `Full` and never reaches 0 from a positive one (`FoldedIs`); that two words never become the same in a step of the CRC and a word followed by itself becomes 0
(`CrcStepApart`, `UpdateZero`); that each character is decoded where its code starts (`CodeRead`); that a piece cut off and the divider behind it are what was there
(`PutBack`), and none lies within a piece (`NoneWithin`); and that a comparison ends at the first difference (`CompareIs`).

*The library* takes a step of one part and leaves the others: each `...Mapped` lemma shows that `Init` implies the
part's, and that every step is one of the part's steps or leaves its variables unchanged. The part's
theorem then holds of its instance, and the library's invariant follows from it, for whatever sizes the
configuration gives the parts that are proved.

`tlapm` 1.4.5 can confuse bound variables when it expands a quantifier over an enumerated set, so the proof modules avoid such
sets where they can; the largest three have also been checked with unused definitions put between their lemmas, which moves
the indices that the confusion depends on. Every leaf is small enough to be proved in a third of the provers' time limits.

Facts about a recursive function, as `Fat32!ChainFrom` or those of `Util`, are proved from its recursive equation by the least number for which they would
fail, since the induction theorems cannot be used.

*Model-checked only*: liveness (`TimedWaitEnds`, `HighestRuns`), which needs `ENABLED`. Every invariant of the passing runs is proved.

## Divergences

What the checked runs refute, each quoted with its line under `findings`:

* **Threads of one priority do not round-robin** (`Thread_round_robin`). The
  pass that SysTick makes at the end of the quantum picks the next thread and
  renews `_qend`; the pass in PendSV then finds the quantum not over and stays.
* **Unlock can wipe out the next holder** (`Mutex_owner`). Preempted between
  `--_count` and `_tid = 0`, it clears the `_tid` of a thread that has locked the
  mutex in between: that thread fails `AssertLocked`, and blocks on itself if it
  locks again.
* **A signal can be lost in front of WaitFor** (`Dns_lost`). `CondVar::Wait`
  counts itself and unlocks before it blocks; a signal in the gap wakes nobody.
* **A file can be given freed clusters** (`Fat32_crash`). rmdir frees a directory's
  clusters before it deletes the entry; so do `File::close` and `File::truncate` before they update theirs.
* **A transfer can run on a stream that is not the device's** (`Dma_owner`). A received character starts
  transmission between `Write`'s queueing and its `AssignTx`.

Others that the models' steps show, or that were met while reading, and no run is spent on.

*Scheduler.* `thread.h:153` says that context switches are disabled while a thread has an IPL restriction, but
`WakeAll` and `WakeSingle` post them regardless, and BASEPRI `min(ipl - 1, 0)` masks nothing. `_ipl_count`
is one variable for all threads, and `Idle` puts back the value of the thread that resumes: it can be off zero
with none held (`thread.cxx:363`). `~IPL` calls `ContextSwitch` with interrupts enabled, which that asserts
against (`thread.h:129,175`); without assertions the thread goes on with interrupts disabled. `WakeAll`, unlike
`WakeSingle`, does not look whether the current thread is blocked: woken threads that do not outrank it wait for
the next interrupt (`thread.cxx:307`, compare 341). An interrupt between `EnableInterrupts` and WFI in `Idle` is
only noticed at the next one (`thread.cxx:359`); the timer bounds the delay. A thread preempted between `STOP`
and `WakeAll` in `Reap` never wakes those that wait for it (`thread.cxx:101`).

*Network.* One buffer can get two owners, since an interrupt's `FreeBuffer` lands between `Alloc`'s `Back` and
`PopBack`. With no interface, DHCP and ARP replies are not freed; after a restock that failed
reception waits for the next receive interrupt. `Send`'s emergency reclaim frees the slot after the one it tests.
DHCP starts over after six messages, not four as its comment says; `_first_request` is not renewed with
the lease; `LinkRecovered` is never called. Two readers of a socket can trip the assertion in `RecvFrom`, which
also uses the value of a `void` `PopFront`.

*Containers.* `HashTable::Insert` returns where the last evicted item went, so that `HashMap::operator[]` may
write another key's value; three keys with equal pairs of hashes double the table for ever. `Freelist` never
counts its magazines down (`freelist.h:25`). `Set::Insert` returns the place after the item when it replaces one;
`Deque::PopBack` of an empty deque moves its tail before its head; `Vector::PushBack` of a vector copies bytes, not items;
`Ring::PushFront` writes the slot that it has just made the one before the first.

*Storage.* FAT32 reads only the first copy of the table; unlink takes directories and open files; rename
deletes before it looks for room; sync does nothing if fsinfo is clean; fsck counts two free clusters too many
and repairs nothing; its walk of a chain does not end on a cycle; the two highest clusters are never used. The
cache clears the dirty mark of a sector whose write failed; a failed write-through leaves its entry off the list;
a bypass drops dirty data.

*Drivers.* A spurious `ReleaseTx` releases another's stream; `ClearTCIF` of stream 4 clears stream 0's flag;
`Ring::PushBack` moves the tail before it stores. The EEPROM's waiters in `Acquire` are not woken by the
caller that sets the state idle, a wakeup before `WaitFor` is lost, and a write over several pages overflows the page register.

*USB*, which no project enables. `Setup` deletes the endpoints that the class has defined in `UsbDevInit`, so that bulk messages
never come and READ_STATUS_BYTE writes to an endpoint that is not there (`pc = "down"`). `WriteDone`'s `done` is only
taken back by the next `Write` or SETUP: after the last packet `FillINEP` sends empty ones for as long as the host takes them,
`zlp` or not, against the comment at `lpc_usb_dev.h:250`. SET_FEATURE and CLEAR_FEATURE of an endpoint, INDICATOR_PULSE and device
requests with unknown numbers are neither answered nor stalled. A SETUP that overwrites one in `DrainOUTEP` leaves the old bytes recorded
and its own interrupt cleared, since the code that would discard them is commented out. The wait's IPL masks nothing, so that a
SETUP may wait for the second to pass. `_reset` is set and never acted upon.

*Pure functions.* `ValidateCsum` compares an `int16_t` with a `uint16_t`, so that no checksum from 0x8000 up is
valid; `strncmp` and `strncasecmp` return 1 for strings that are equal in their first n characters; `strto` takes
no digits in bases below 10; `FMT_SPACEPAD` pads between the sign and the digits; the test of crc16 expects the value for another
initial word than `Checksum`'s default; `GetAlignedMem` returns the address it was to align; the fixed point operators shift twice.

## Not modelled

* **IP, ARP, routes**: never reached, because `AddInterface` is commented out in `dhcp.cxx:116` and no route is ever valid.
  The models have what the rest of the code does in that state.
* **DNS queries**: `GetAddrByName` cannot succeed as written: `dns.cxx:185` loops over a question count that it has
  not brought into host order, in a buffer of 512 bytes, and takes the bit that queries echo for the one that marks replies. Properties of its answers would be empty.
* **I2C, CS8900A, the registers of USB**: sequences of register accesses whose effects are the controllers', which the repository does not
  state; for USB the few facts that `Usb` assumes are in its header. I2C's three conditions share one `CondVar` and its `Cycle` drops
  the stop condition; the CS8900A driver does not compile.
* **USBTMC's messages**: bulk endpoints are deleted before the first one can arrive (see the divergences).
* **SD cards**: `sdmmc.cxx` does not compile and no driver stores a response.
* **FAT16 and the partition map**: read-only translation. Lookups in FAT16's sub-directories search
  the parent's entries first and long names are never found; the partition map counts sectors as entries.
* **SPI ownership, getc, H7 variants of DMA and USART**: each bus has one device in the projects; the H7's controller differs in its request multiplexer.
* **Clock**: `GetTime` handles an overflow that it sees and then reads the counter, so that time can step back; the
  modules count time in steps of a clock that only goes forward.
* **FP context**: register contents. `SecondLock`: declared only.
* **Heap, lookup3, crc32, SHA-1**: vendored or standard. **Format directives, fixed point, assembly**: data or machine
  code. **Register headers, boards, fonts, drawing, sensors, audio, applications**: no behaviour to relate.

## Plan

What would add most next:

1. **Liveness of the parts**: the network thread and the EEPROM driver on `Scheduler`, with `Thread`'s fairness, so that what is
   due is also done.
2. **Proofs**: refinements of abstract specifications of the parts of `Library`, as a queue for the deque and a set of keys for the hash table.
3. **Composition**: `Fat32` over `BlkCache` in place of a device that writes through.
4. **FP context** as part of `Scheduler`; the clock's roll-over.
