------------------------------ MODULE HashTable ------------------------------
(***************************************************************************)
(* The cuckoo hash table of core/hashtable.cxx as the maps of               *)
(* core/hashmap.h use it: a lookup before each insertion or erasure.  The   *)
(* caller sees each operation whole, since it runs without interrupts; the  *)
(* steps here are those of its loop, with the item that the loop has in     *)
(* hand, and of the rehashes that Insert and Rehash nest in each other.     *)
(***************************************************************************)
EXTENDS Integers, FiniteSets, Sequences

CONSTANTS
    Keys,
    Hashes1, Hashes2,   \* the values of the first hash and of the second
    Depth,          \* _eviction_depth
    Reserve,        \* the size at the start, a power of two
    MaxSize,        \* bound on the size
    NULL            \* no item

(* What the proofs assume: NULL is neither an item nor a place. *)
HashTableAssumption ==
    /\ Hashes1 \subseteq Nat /\ Hashes2 \subseteq Nat
    /\ Depth \in Nat /\ MaxSize \in Nat
    /\ Reserve \in 1..MaxSize
    /\ NULL \notin Keys /\ NULL \notin Nat

VARIABLES
    hash,           \* _hash
    size, table,    \* _v
    hand,           \* the item being inserted
    pos, n,         \* where, and after how many evictions
    work,           \* the rehashes under way: what is left of _prev, and the
                    \* item of the Insert that called it
    inserted        \* the keys inserted and not erased

vars == <<hash, size, table, hand, pos, n, work, inserted>>

Items == {table[p] : p \in 0..(size - 1)} \ {NULL}

TypeOK ==
    /\ hash \in [Keys -> Hashes1 \X Hashes2]
    /\ size \in Reserve..MaxSize
    /\ table \in [0..(size - 1) -> Keys \cup {NULL}]
    /\ hand \in Keys \cup {NULL}
    /\ pos \in 0..(size - 1) /\ n \in 0..Depth
    /\ work \in Seq([prev : SUBSET Keys, item : Keys])
    /\ inserted \subseteq Keys

Empty(s) == [p \in 0..(s - 1) |-> NULL]

Init ==
    /\ hash \in [Keys -> Hashes1 \X Hashes2]
    /\ size = Reserve /\ table = Empty(size)
    /\ hand = NULL /\ pos = 0 /\ n = 0
    /\ work = <<>> /\ inserted = {}

h1(k) == hash[k][1] % size
h2(k) == hash[k][2] % size

Find(k) ==
    IF table[h1(k)] = k THEN h1(k) ELSE IF table[h2(k)] = k THEN h2(k) ELSE NULL

(* The other place of an item that was evicted from where it was. *)
Other(k, p) == IF p = h1(k) THEN h2(k) ELSE h1(k)

(* The loop of Insert starts at the first hash, as it does after a rehash. *)
Start(k) == hand' = k /\ pos' = hash[k][1] % size' /\ n' = 0

Resting == hand = NULL /\ work = <<>>

-----------------------------------------------------------------------------
Insert(k) ==
    /\ Resting
    /\ Find(k) = NULL
    /\ inserted' = inserted \cup {k}
    /\ UNCHANGED <<hash, size, table, work>>
    /\ Start(k)

Place ==
    /\ hand # NULL /\ n < Depth
    /\ table[pos] = NULL
    /\ table' = [table EXCEPT ![pos] = hand]
    /\ hand' = NULL
    /\ UNCHANGED <<hash, size, pos, n, work, inserted>>

Evict ==
    /\ hand # NULL /\ n < Depth
    /\ table[pos] # NULL
    /\ table' = [table EXCEPT ![pos] = hand]
    /\ hand' = table[pos]
    /\ pos' = Other(table[pos], pos)
    /\ n' = n + 1
    /\ UNCHANGED <<hash, size, work, inserted>>

(* Rehash takes the vector and inserts what is in it into one of twice the  *)
(* size, in an order left open, before Insert goes on with its item.        *)
Rehash ==
    /\ hand # NULL /\ n = Depth
    /\ 2 * size <= MaxSize
    /\ size' = 2 * size
    /\ table' = Empty(size')
    /\ work' = <<[prev |-> Items, item |-> hand]>> \o work
    /\ hand' = NULL /\ pos' = 0
    /\ UNCHANGED <<hash, n, inserted>>

Reinsert ==
    /\ hand = NULL /\ work # <<>>
    /\ \E k \in work[1].prev :
        /\ work' = [work EXCEPT ![1].prev = @ \ {k}]
        /\ UNCHANGED <<hash, size, table, inserted>>
        /\ Start(k)

(* Mutant of Rehashed: Insert goes on with the mask from before the rehash. *)
RehashedMasked ==
    /\ hand = NULL /\ work # <<>>
    /\ work[1].prev = {}
    /\ work' = Tail(work)
    /\ UNCHANGED <<hash, size, table, inserted>>
    /\ hand' = work[1].item /\ pos' = h1(hand') % (size \div 2) /\ n' = 0

Rehashed ==
    /\ hand = NULL /\ work # <<>>
    /\ work[1].prev = {}
    /\ work' = Tail(work)
    /\ UNCHANGED <<hash, size, table, inserted>>
    /\ Start(work[1].item)

Erase(k) ==
    /\ Resting
    /\ Find(k) # NULL
    /\ table' = [table EXCEPT ![Find(k)] = NULL]
    /\ inserted' = inserted \ {k}
    /\ UNCHANGED <<hash, size, hand, pos, n, work>>

Next ==
    \/ \E k \in Keys : Insert(k) \/ Erase(k)
    \/ Place \/ Evict \/ Rehash \/ Reinsert \/ Rehashed

Spec == Init /\ [][Next]_vars

-----------------------------------------------------------------------------
(* Between operations Find returns the place of a key exactly if the key    *)
(* was inserted and not erased since, and no key is in two places, through  *)
(* evictions and the rehashes nested in each other (Insert, Rehash).        *)
FindExact ==
    Resting =>
        /\ \A k \in Keys : k \in inserted <=> Find(k) # NULL
        /\ \A p, q \in 0..(size - 1) :
              table[p] # NULL /\ table[p] = table[q] => p = q
=============================================================================
