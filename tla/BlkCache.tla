------------------------------- MODULE BlkCache -------------------------------
(***************************************************************************)
(* The sector cache of core/blkcache.cxx over a device whose reads and      *)
(* writes can fail.  What a sector holds is abstracted to whether it is the *)
(* last write: disk has the sectors whose last write is on the device,      *)
(* fresh the entries in use that hold the last write to it.              *)
(***************************************************************************)
EXTENDS Integers, FiniteSets, Sequences

CONSTANTS
    Entries,        \* the indices of _entries
    Sectors,        \* sector numbers
    MaxLost,        \* bound: sectors given up at a time
    NULL            \* no entry

VARIABLES
    through,    \* _write_through
    lba, valid, dirty,
    prev, next, \* the LRU list's links
    head, tail,
    fresh, disk,
    lost        \* the sectors whose last write was given up

vars == <<through, lba, valid, dirty, prev, next, head, tail, fresh, disk, lost>>

TypeOK ==
    /\ through \in BOOLEAN
    /\ lba \in [Entries -> Sectors]
    /\ valid \subseteq Entries /\ dirty \subseteq Entries /\ fresh \subseteq valid
    /\ prev \in [Entries -> Entries \cup {NULL}]
    /\ next \in [Entries -> Entries \cup {NULL}]
    /\ head \in Entries \cup {NULL} /\ tail \in Entries \cup {NULL}
    /\ disk \subseteq Sectors /\ lost \subseteq Sectors

Init ==
    /\ through \in BOOLEAN
    /\ lba = [e \in Entries |-> 0]
    /\ valid = {} /\ dirty = {} /\ fresh = {}
    /\ prev = [e \in Entries |-> NULL] /\ next = prev
    /\ head = NULL /\ tail = NULL
    /\ disk = Sectors /\ lost = {}

-----------------------------------------------------------------------------
cache_lookup(s) ==
    IF \E e \in valid : lba[e] = s THEN CHOOSE e \in valid : lba[e] = s ELSE NULL

(* Mutant of lru_move_to_front: the tail does not move up. *)
lru_tail_stays(e) ==
    IF head = e
    THEN UNCHANGED <<prev, next, head, tail>>
    ELSE /\ next' = [f \in Entries |->
                        CASE f = e -> head
                          [] f # e /\ f = prev[e] -> next[e]
                          [] OTHER -> next[f]]
         /\ prev' = [f \in Entries |->
                        CASE f = e -> NULL
                          [] f # e /\ f = head -> e
                          [] f \notin {e, head} /\ f = next[e] -> prev[e]
                          [] OTHER -> prev[f]]
         /\ head' = e
         /\ tail' = IF tail = NULL THEN e ELSE tail

lru_move_to_front(e) ==
    IF head = e
    THEN UNCHANGED <<prev, next, head, tail>>
    ELSE /\ next' = [f \in Entries |->
                        CASE f = e -> head
                          [] f # e /\ f = prev[e] -> next[e]
                          [] OTHER -> next[f]]
         /\ prev' = [f \in Entries |->
                        CASE f = e -> NULL
                          [] f # e /\ f = head -> e
                          [] f \notin {e, head} /\ f = next[e] -> prev[e]
                          [] OTHER -> prev[f]]
         /\ head' = e
         /\ tail' = IF tail = e THEN prev[e] ELSE IF tail = NULL THEN e ELSE tail

Unused == Entries \ valid

(* cache_alloc_entry: the first unused entry, or the one at the tail of the *)
(* list, whose sector is written first if it is dirty.  assert(victim) is a *)
(* guard.                                                                   *)
cache_alloc_entry ==
    IF Unused # {} THEN {e \in Unused : \A f \in Unused : e <= f} ELSE {tail} \ {NULL}
Evicts == Unused = {} /\ tail \in dirty

(* Mutant of Evicted: the victim is not written. *)
EvictedUnwritten(on) == on

Evicted(on) == IF Evicts THEN on \cup {lba[tail]} ELSE on

EvictFails ==
    /\ Evicts
    /\ UNCHANGED <<lba, valid, dirty, prev, next, head, tail, fresh, disk, lost>>

(* A miss of read_blocks whose device read fails leaves the entry unused. *)
ReadFails(e) ==
    /\ valid' = valid \ {e}
    /\ dirty' = IF Evicts THEN dirty \ {e} ELSE dirty
    /\ fresh' = fresh \ {e}
    /\ disk' = Evicted(disk)
    /\ UNCHANGED <<lba, prev, next, head, tail, lost>>

Fill(e, s) ==
    /\ lba' = [lba EXCEPT ![e] = s]
    /\ valid' = valid \cup {e} /\ dirty' = dirty \ {e}
    /\ fresh' = IF s \in disk THEN fresh \cup {e} ELSE fresh \ {e}
    /\ disk' = Evicted(disk)
    /\ lru_move_to_front(e)
    /\ UNCHANGED lost

Hit(s) ==
    /\ lru_move_to_front(cache_lookup(s))
    /\ UNCHANGED <<lba, valid, dirty, fresh, disk, lost>>

read_blocks(s) ==
    /\ IF cache_lookup(s) # NULL
       THEN Hit(s)
       ELSE EvictFails \/ \E e \in cache_alloc_entry : ReadFails(e) \/ Fill(e, s)
    /\ UNCHANGED through

-----------------------------------------------------------------------------
(* write_blocks into an entry: the last write is there and, with write      *)
(* through, on the device, unless that fails: then the call returns before  *)
(* the entry is put on the list.                                            *)
Store(e, s, on) ==
    /\ lba' = [lba EXCEPT ![e] = s]
    /\ valid' = valid \cup {e} /\ fresh' = fresh \cup {e}
    /\ lost' = lost \ {s}
    /\ \/ /\ ~through
          /\ dirty' = dirty \cup {e} /\ disk' = on \ {s}
          /\ lru_move_to_front(e)
       \/ /\ through
          /\ dirty' = dirty \ {e} /\ disk' = on \cup {s}
          /\ lru_move_to_front(e)
       \/ /\ through
          /\ dirty' = dirty \cup {e} /\ disk' = on \ {s}
          /\ UNCHANGED <<prev, next, head, tail>>

write_blocks(s) ==
    /\ IF cache_lookup(s) # NULL
       THEN Store(cache_lookup(s), s, disk)
       ELSE EvictFails \/ \E e \in cache_alloc_entry : Store(e, s, Evicted(disk))
    /\ UNCHANGED through

(* Bypass: the entry is dropped, with what it holds and the device does     *)
(* not, before the device is asked.                                         *)
cache_invalidate(s) ==
    /\ valid' = valid \ {cache_lookup(s)}
    /\ fresh' = fresh \ {cache_lookup(s)}
    /\ UNCHANGED <<lba, dirty, prev, next, head, tail, through>>

GiveUp(ss) ==
    /\ lost' = lost \cup ss
    /\ Cardinality(lost') <= MaxLost

Dropped(s) == GiveUp(IF cache_lookup(s) \in dirty /\ s \notin disk THEN {s} ELSE {})

read_bypass(s) ==
    /\ cache_invalidate(s)
    /\ Dropped(s)
    /\ UNCHANGED disk

write_bypass(s) ==
    /\ cache_invalidate(s)
    /\ \/ disk' = disk \cup {s} /\ lost' = lost \ {s}
       \/ UNCHANGED disk /\ Dropped(s)

(* flush clears the mark of every dirty entry, also where the write fails. *)
flush ==
    /\ ~through
    /\ \E failed \in SUBSET (valid \cap dirty) :
        /\ disk' = disk \cup {lba[e] : e \in (valid \cap dirty) \ failed}
        /\ GiveUp({lba[e] : e \in failed})
    /\ dirty' = dirty \ valid
    /\ UNCHANGED <<through, lba, valid, prev, next, head, tail, fresh>>

Next ==
    \/ \E s \in Sectors :
        read_blocks(s) \/ write_blocks(s) \/ read_bypass(s) \/ write_bypass(s)
    \/ flush

Spec == Init /\ [][Next]_vars

-----------------------------------------------------------------------------
(* The cache and the device never disagree unnoticed: outside of the        *)
(* sectors that a bypass or a failed flush gave up, an entry has the last   *)
(* write, and what is not marked dirty is on the device, through evictions, *)
(* errors half way and reuse of entries; and no entry that would be written *)
(* back holds anything older (blkcache.cxx).                                *)
Coherent ==
    /\ valid \cap dirty \subseteq fresh
    /\ \A s \in Sectors \ lost :
        LET e == cache_lookup(s)
        IN  /\ e = NULL => s \in disk
            /\ e # NULL => e \in fresh /\ (e \in dirty \/ s \in disk)

(* The entries that the list leads through, each once: the same forth from  *)
(* the head and back from the tail.                                         *)
Ordered(list, n) ==
    /\ \A i, j \in 1..n : list[i] = list[j] => i = j
    /\ head = IF n = 0 THEN NULL ELSE list[1]
    /\ tail = IF n = 0 THEN NULL ELSE list[n]
    /\ \A i \in 1..n :
        /\ next[list[i]] = IF i = n THEN NULL ELSE list[i + 1]
        /\ prev[list[i]] = IF i = 1 THEN NULL ELSE list[i - 1]

(* The LRU list is one list: from either end its links lead through the     *)
(* same entries, each once, and it has every entry in use, so that there is *)
(* a victim, but for those that a failed write-through left off it          *)
(* (lru_move_to_front, which also moves entries that were invalidated).     *)
ListSound ==
    \E n \in 0..Cardinality(Entries) : \E list \in [1..n -> Entries] :
        /\ Ordered(list, n)
        /\ ~through => \A e \in valid : \E i \in 1..n : list[i] = e
=============================================================================
