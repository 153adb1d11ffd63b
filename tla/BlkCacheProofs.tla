---------------------------- MODULE BlkCacheProofs ----------------------------
(***************************************************************************)
(* The sector cache for every number of entries and sectors: the cache and  *)
(* the device never disagree unnoticed, and the LRU list, which is threaded *)
(* through the entries by hand, stays one list in both directions.          *)
(***************************************************************************)
EXTENDS BlkCache, FiniteSetTheorems, TLAPS

BlkCacheAssumption == NULL \notin Entries /\ 0 \in Sectors /\ IsFiniteSet(Entries)

-----------------------------------------------------------------------------
(* The inductive invariant.  A sector is in one entry, so that a lookup     *)
(* finds it; and an entry that is not on the list has no links, so that to  *)
(* put it at the front disturbs nothing.                                    *)
Unique == \A e, f \in valid : lba[e] = lba[f] => e = f

Agree ==
    /\ valid \cap dirty \subseteq fresh
    /\ \A s \in Sectors \ lost :
        /\ (\A e \in valid : lba[e] # s) => s \in disk
        /\ \A e \in valid : lba[e] = s => e \in fresh /\ (e \in dirty \/ s \in disk)

On(e, list, n) == \E i \in 1..n : list[i] = e

Loose(list, n) == \A e \in Entries : ~On(e, list, n) => prev[e] = NULL /\ next[e] = NULL

Threaded(list, n) ==
    /\ Ordered(list, n)
    /\ Loose(list, n)
    /\ ~through => \A e \in valid : On(e, list, n)

OneList == \E n \in Nat : \E list \in [1..n -> Entries] : Threaded(list, n)

IInv == TypeOK /\ Unique /\ Agree /\ OneList
-----------------------------------------------------------------------------
(* lru_move_to_front with an entry that is on the list: the entries before  *)
(* it move one place back.                                                  *)
Forward(list, e, k) ==
    [i \in DOMAIN list |-> IF i = 1 THEN e ELSE IF i <= k THEN list[i - 1] ELSE list[i]]

LEMMA MoveListed ==
    ASSUME BlkCacheAssumption, TypeOK, NEW n \in Nat, NEW list \in [1..n -> Entries],
           Ordered(list, n), Loose(list, n),
           NEW k \in 1..n, k # 1, lru_move_to_front(list[k])
    PROVE  \E new \in [1..n -> Entries] :
              /\ Ordered(new, n)' /\ Loose(new, n)'
              /\ \A f \in Entries : On(f, list, n) => On(f, new, n)
<1> DEFINE e == list[k]
           new == Forward(list, e, k)
<1>1. /\ e \in Entries /\ new \in [1..n -> Entries] /\ NULL \notin Entries
      /\ \A i, j \in 1..n : list[i] = list[j] => i = j
  BY DEF Forward, Ordered, BlkCacheAssumption
<1>2. /\ head = list[1] /\ tail = list[n] /\ head # e
      /\ prev[e] = list[k - 1]
      /\ next[e] = IF k = n THEN NULL ELSE list[k + 1]
  BY <1>1 DEF Ordered
<1>3. /\ next' = [f \in Entries |-> CASE f = e -> head
                                     [] f # e /\ f = prev[e] -> next[e]
                                     [] OTHER -> next[f]]
      /\ prev' = [f \in Entries |-> CASE f = e -> NULL
                                     [] f # e /\ f = head -> e
                                     [] f \notin {e, head} /\ f = next[e] -> prev[e]
                                     [] OTHER -> prev[f]]
      /\ head' = e
      /\ tail' = IF tail = e THEN prev[e] ELSE IF tail = NULL THEN e ELSE tail
  BY <1>2 DEF lru_move_to_front
<1>4. \A i, j \in 1..n : new[i] = new[j] => i = j
  BY <1>1 DEF Forward
<1>5. head' = new[1] /\ tail' = new[n]
  BY <1>1, <1>2, <1>3 DEF Forward
<1>6. ASSUME NEW i \in 1..n
      PROVE  next'[new[i]] = IF i = n THEN NULL ELSE new[i + 1]
  <2>1. CASE i = 1
    BY <1>1, <1>2, <1>3, <2>1 DEF Forward
  <2>2. CASE i > 1 /\ i <= k
    <3>1. new[i] = list[i - 1] /\ list[i - 1] # e /\ i - 1 \in 1..n /\ i - 1 # n
      BY <1>1, <2>2 DEF Forward
    <3>2. next[list[i - 1]] = list[i]
      BY <3>1 DEF Ordered
    <3>3. list[i - 1] = prev[e] <=> i = k
      BY <1>1, <1>2, <2>2
    <3>4. next'[new[i]] = IF i = k THEN next[e] ELSE next[list[i - 1]]
      BY <1>1, <1>3, <3>1, <3>3
    <3> QED BY <1>1, <1>2, <2>2, <3>2, <3>4 DEF Forward
  <2>3. CASE i > k
    <3>1. new[i] = list[i] /\ list[i] # e /\ list[i] # prev[e] /\ i # 1
      BY <1>1, <1>2, <2>3 DEF Forward
    <3>2. next[list[i]] = IF i = n THEN NULL ELSE list[i + 1]
      BY DEF Ordered
    <3> QED BY <1>1, <1>3, <2>3, <3>1, <3>2 DEF Forward
  <2> QED BY <2>1, <2>2, <2>3
<1>7. ASSUME NEW i \in 1..n
      PROVE  prev'[new[i]] = IF i = 1 THEN NULL ELSE new[i - 1]
  <2>1. CASE i = 1
    BY <1>1, <1>3, <2>1 DEF Forward
  <2>2. CASE i = 2
    BY <1>1, <1>2, <1>3, <2>2 DEF Forward
  <2>3. CASE i > 2 /\ i <= k
    <3>1. /\ new[i] = list[i - 1] /\ list[i - 1] # e /\ list[i - 1] # head
          /\ list[i - 1] # next[e] /\ new[i - 1] = list[i - 2]
      <4>1. i - 1 \in 1..n /\ i - 1 # 1 /\ i - 1 < k /\ (i - 1) - 1 = i - 2
        BY <2>3
      <4>2. new[i] = list[i - 1] /\ new[i - 1] = list[i - 2]
        BY <1>1, <2>3, <4>1 DEF Forward
      <4>3. list[i - 1] # e
        BY <1>1, <4>1
      <4>4. list[i - 1] # head
        BY <1>1, <1>2, <4>1
      <4>5. list[i - 1] # next[e]
        <5>1. CASE k = n
          BY <1>1, <1>2, <4>1, <5>1
        <5>2. CASE k # n
          <6>1. k + 1 \in 1..n /\ next[e] = list[k + 1]
            BY <1>2, <5>2
          <6> QED BY <1>1, <4>1, <6>1
        <5> QED BY <5>1, <5>2
      <4> QED BY <4>2, <4>3, <4>4, <4>5
    <3>2. prev[list[i - 1]] = list[i - 2]
      <4>1. i - 1 \in 1..n /\ i - 1 # 1
        BY <2>3
      <4> QED BY <4>1 DEF Ordered
    <3> QED BY <1>1, <1>3, <2>3, <3>1, <3>2
  <2>4. CASE i > k /\ i # 2
    <3>1. new[i] = list[i] /\ list[i] # e /\ list[i] # head /\ i - 1 >= k
      BY <1>1, <1>2, <2>4 DEF Forward
    <3>2. prev[list[i]] = list[i - 1]
      BY <2>4 DEF Ordered
    <3>3. list[i] = next[e] <=> i - 1 = k
      BY <1>1, <1>2, <2>4
    <3>4. prev'[new[i]] = IF i - 1 = k THEN prev[e] ELSE prev[list[i]]
      BY <1>1, <1>3, <3>1, <3>3
    <3> QED BY <1>1, <1>2, <2>4, <3>1, <3>2, <3>4 DEF Forward
  <2> QED BY <2>1, <2>2, <2>3, <2>4
<1>8. \A f \in Entries : On(f, list, n) <=> On(f, new, n)
  <2>1. ASSUME NEW i \in 1..n
        PROVE  On(list[i], new, n)
    <3>1. CASE i < k
      <4>1. i + 1 \in 1..n /\ new[i + 1] = list[i]
        BY <1>1, <3>1 DEF Forward
      <4> QED BY <4>1 DEF On
    <3>2. CASE i = k
      BY <1>1, <3>2 DEF On, Forward
    <3>3. CASE i > k
      BY <1>1, <3>3 DEF On, Forward
    <3> QED BY <3>1, <3>2, <3>3
  <2>2. ASSUME NEW i \in 1..n
        PROVE  On(new[i], list, n)
    BY <1>1 DEF On, Forward
  <2> HIDE DEF new, e
  <2> QED BY <2>1, <2>2 DEF On
<1>9. Loose(new, n)'
  <2> HIDE DEF new
  <2> SUFFICES ASSUME NEW f \in Entries, ~On(f, new, n)
               PROVE  prev'[f] = NULL /\ next'[f] = NULL
    BY DEF Loose, On
  <2>1. ~On(f, list, n) /\ prev[f] = NULL /\ next[f] = NULL
    BY <1>8 DEF Loose
  <2>2. f # e /\ f # prev[e] /\ f # next[e] /\ f # head
    BY <1>1, <1>2, <2>1 DEF On
  <2> QED BY <1>3, <2>1, <2>2
<1>10. Ordered(new, n)'
  <2> HIDE DEF new
  <2>1. n # 0
    OBVIOUS
  <2> QED BY <1>4, <1>5, <1>6, <1>7, <2>1 DEF Ordered
<1> HIDE DEF new
<1> QED BY <1>1, <1>8, <1>9, <1>10
(* With one that is not, which has no links to follow. *)
Longer(list, e, n) == [i \in 1..(n + 1) |-> IF i = 1 THEN e ELSE list[i - 1]]

LEMMA MoveUnlisted ==
    ASSUME BlkCacheAssumption, TypeOK, NEW n \in Nat, NEW list \in [1..n -> Entries],
           Ordered(list, n), Loose(list, n),
           NEW e \in Entries, ~On(e, list, n), lru_move_to_front(e)
    PROVE  \E new \in [1..(n + 1) -> Entries] :
              /\ Ordered(new, n + 1)' /\ Loose(new, n + 1)'
              /\ On(e, new, n + 1)
              /\ \A f \in Entries : On(f, list, n) => On(f, new, n + 1)
<1> DEFINE new == Longer(list, e, n)
<1>1. /\ new \in [1..(n + 1) -> Entries] /\ NULL \notin Entries
      /\ new[1] = e /\ \A i \in 2..(n + 1) : new[i] = list[i - 1]
      /\ \A i \in 1..n : list[i] \in Entries /\ list[i] # e /\ new[i + 1] = list[i]
  BY DEF Longer, On, BlkCacheAssumption
<1> HIDE DEF new
<1>2. /\ prev[e] = NULL /\ next[e] = NULL /\ head # e /\ tail # e
      /\ head = IF n = 0 THEN NULL ELSE list[1]
      /\ tail = IF n = 0 THEN NULL ELSE list[n]
  BY <1>1 DEF Ordered, Loose
<1>3. /\ \A f \in Entries : next'[f] = IF f = e THEN head ELSE next[f]
      /\ \A f \in Entries : prev'[f] = IF f = e THEN NULL ELSE IF f = head THEN e ELSE prev[f]
      /\ head' = e
      /\ tail' = IF tail = NULL THEN e ELSE tail
  BY <1>1, <1>2 DEF lru_move_to_front
<1>4. ASSUME NEW i \in 1..(n + 1), NEW j \in 1..(n + 1), new[i] = new[j]
      PROVE  i = j
  <2>1. CASE i = 1 \/ j = 1
    <3>1. \A k \in 2..(n + 1) : new[k] # e
      BY <1>1
    <3> QED BY <1>1, <1>4, <2>1, <3>1
  <2>2. CASE i # 1 /\ j # 1
    <3>1. i - 1 \in 1..n /\ j - 1 \in 1..n /\ list[i - 1] = list[j - 1]
      BY <1>1, <1>4, <2>2
    <3>2. i - 1 = j - 1
      BY <3>1 DEF Ordered
    <3> QED BY <3>2
  <2> QED BY <2>1, <2>2
<1>5. head' = new[1] /\ tail' = new[n + 1]
  BY <1>1, <1>2, <1>3
<1>6. ASSUME NEW i \in 1..(n + 1)
      PROVE  /\ next'[new[i]] = IF i = n + 1 THEN NULL ELSE new[i + 1]
             /\ prev'[new[i]] = IF i = 1 THEN NULL ELSE new[i - 1]
  <2>1. CASE i = 1
    BY <1>1, <1>2, <1>3, <2>1
  <2>2. CASE i # 1
    <3>1. i - 1 \in 1..n /\ new[i] = list[i - 1] /\ list[i - 1] # e /\ list[i - 1] \in Entries
      BY <1>1, <2>2
    <3>2. /\ next[list[i - 1]] = IF i - 1 = n THEN NULL ELSE list[(i - 1) + 1]
          /\ prev[list[i - 1]] = IF i - 1 = 1 THEN NULL ELSE list[(i - 1) - 1]
      BY <3>1 DEF Ordered
    <3>3. next'[new[i]] = IF i = n + 1 THEN NULL ELSE new[i + 1]
      BY <1>1, <1>3, <2>2, <3>1, <3>2
    <3>4. list[i - 1] = head <=> i = 2
      <4>1. list[i - 1] = list[1] => i - 1 = 1
        BY <3>1 DEF Ordered
      <4> QED BY <1>2, <3>1, <4>1
    <3>5. prev'[new[i]] = new[i - 1]
      BY <1>1, <1>3, <2>2, <3>1, <3>2, <3>4
    <3> QED BY <2>2, <3>3, <3>5
  <2> QED BY <2>1, <2>2
<1>7. Ordered(new, n + 1)'
  <2>1. n + 1 # 0
    OBVIOUS
  <2> QED BY <1>4, <1>5, <1>6, <2>1 DEF Ordered
<1>8. On(e, new, n + 1) /\ \A f \in Entries : On(f, list, n) => On(f, new, n + 1)
  BY <1>1 DEF On
<1>9. Loose(new, n + 1)'
  <2> SUFFICES ASSUME NEW f \in Entries, ~On(f, new, n + 1)
               PROVE  prev'[f] = NULL /\ next'[f] = NULL
    BY DEF Loose, On
  <2>1. ~On(f, list, n) /\ f # e /\ prev[f] = NULL /\ next[f] = NULL
    BY <1>8 DEF Loose
  <2>2. f # head
    BY <1>1, <1>2, <2>1 DEF On
  <2> QED BY <1>3, <2>1, <2>2
<1> QED BY <1>1, <1>7, <1>8, <1>9

(* In each case the list stays one list, with the entry on it. *)
LEMMA MoveToFront ==
    ASSUME BlkCacheAssumption, TypeOK, NEW n \in Nat, NEW list \in [1..n -> Entries],
           Ordered(list, n), Loose(list, n), NEW e \in Entries, lru_move_to_front(e)
    PROVE  \E m \in Nat : \E new \in [1..m -> Entries] :
              /\ Ordered(new, m)' /\ Loose(new, m)'
              /\ On(e, new, m)
              /\ \A f \in Entries : On(f, list, n) => On(f, new, m)
<1>1. CASE head = e
  <2>1. n # 0 /\ list[1] = e
    BY <1>1 DEF Ordered, BlkCacheAssumption
  <2>2. UNCHANGED <<prev, next, head, tail>>
    BY <1>1 DEF lru_move_to_front
  <2>3. Ordered(list, n)' /\ Loose(list, n)' /\ On(e, list, n)
    BY <2>1, <2>2 DEF Ordered, Loose, On
  <2> QED BY <2>3
<1>2. CASE head # e /\ On(e, list, n)
  <2>1. PICK k \in 1..n : list[k] = e
    BY <1>2 DEF On
  <2>2. k # 1
    BY <1>2, <2>1 DEF Ordered
  <2> QED BY <1>2, <2>1, <2>2, MoveListed
<1>3. CASE ~On(e, list, n)
  BY <1>3, MoveUnlisted, n + 1 \in Nat
<1> QED BY <1>1, <1>2, <1>3
LEMMA MoveTyped ==
    ASSUME BlkCacheAssumption, TypeOK, NEW e \in Entries, lru_move_to_front(e)
    PROVE  /\ prev' \in [Entries -> Entries \cup {NULL}]
           /\ next' \in [Entries -> Entries \cup {NULL}]
           /\ head' \in Entries \cup {NULL} /\ tail' \in Entries \cup {NULL}
<1>1. CASE head = e
  BY <1>1 DEF lru_move_to_front, TypeOK
<1>2. CASE head # e
  BY <1>2 DEF lru_move_to_front, TypeOK
<1> QED BY <1>1, <1>2

(* What a call does to the list: nothing, and then no entry is taken into   *)
(* use unless a write through failed, or it moves the entry it used.        *)
LEMMA ListKept ==
    ASSUME BlkCacheAssumption, TypeOK, OneList, through' = through,
           \/ UNCHANGED <<prev, next, head, tail>> /\ (through \/ valid' \subseteq valid)
           \/ \E e \in Entries : lru_move_to_front(e) /\ valid' \subseteq valid \cup {e}
    PROVE  OneList'
<1>. PICK n \in Nat : \E list \in [1..n -> Entries] : Threaded(list, n)
  BY DEF OneList
<1>1. PICK list \in [1..n -> Entries] : Threaded(list, n)
  OBVIOUS
<1>2. CASE UNCHANGED <<prev, next, head, tail>> /\ (through \/ valid' \subseteq valid)
  <2>1. Threaded(list, n)'
    BY <1>1, <1>2 DEF Threaded, Ordered, Loose, On, TypeOK
  <2> QED BY <2>1 DEF OneList
<1>3. CASE \E e \in Entries : lru_move_to_front(e) /\ valid' \subseteq valid \cup {e}
  <2>1. PICK e \in Entries : lru_move_to_front(e) /\ valid' \subseteq valid \cup {e}
    BY <1>3
  <2>. PICK m \in Nat : \E new \in [1..m -> Entries] :
          /\ Ordered(new, m)' /\ Loose(new, m)'
          /\ On(e, new, m)
          /\ \A f \in Entries : On(f, list, n) => On(f, new, m)
    BY <1>1, <2>1, MoveToFront DEF Threaded
  <2>2. PICK new \in [1..m -> Entries] :
          /\ Ordered(new, m)' /\ Loose(new, m)'
          /\ On(e, new, m)
          /\ \A f \in Entries : On(f, list, n) => On(f, new, m)
    OBVIOUS
  <2>3. ~through => \A f \in valid' : On(f, new, m)
    BY <1>1, <2>1, <2>2 DEF Threaded, TypeOK
  <2>4. Threaded(new, m)'
    BY <2>2, <2>3 DEF Threaded, On
  <2> QED BY <2>4 DEF OneList
<1> QED BY <1>2, <1>3

-----------------------------------------------------------------------------
(* A lookup finds the entry that has the sector. *)
LEMMA LookupFinds ==
    ASSUME BlkCacheAssumption, TypeOK, Unique, NEW s
    PROVE  LET e == cache_lookup(s)
           IN  /\ e = NULL => \A f \in valid : lba[f] # s
               /\ e # NULL => /\ e \in valid /\ lba[e] = s
                              /\ \A f \in valid : lba[f] = s => f = e
<1>1. CASE \E e \in valid : lba[e] = s
  <2>1. cache_lookup(s) \in valid /\ lba[cache_lookup(s)] = s
    BY <1>1 DEF cache_lookup
  <2> QED BY <2>1 DEF Unique, BlkCacheAssumption, TypeOK
<1>2. CASE ~\E e \in valid : lba[e] = s
  BY <1>2 DEF cache_lookup
<1> QED BY <1>1, <1>2

(* The entry that is taken for another sector is unused, or every entry is  *)
(* in use and what it holds is on the device once it is written.            *)
LEMMA VictimWritten ==
    ASSUME BlkCacheAssumption, TypeOK, Unique, Agree, NEW e \in cache_alloc_entry
    PROVE  /\ e \in Entries
           /\ disk \subseteq Evicted(disk) /\ Evicted(disk) \subseteq Sectors
           /\ e \in valid /\ lba[e] \notin lost => lba[e] \in Evicted(disk)
           /\ Evicts => e \in valid
<1>1. CASE Unused # {}
  BY <1>1 DEF cache_alloc_entry, Unused, Evicted, Evicts, TypeOK
<1>2. CASE Unused = {}
  <2>1. e = tail /\ e \in Entries /\ valid = Entries
    BY <1>2 DEF cache_alloc_entry, Unused, TypeOK
  <2>2. lba[e] \in Sectors /\ Evicted(disk) = IF e \in dirty THEN disk \cup {lba[e]} ELSE disk
    BY <1>2, <2>1 DEF Evicted, Evicts, TypeOK
  <2> QED BY <2>1, <2>2 DEF Agree, TypeOK
<1> QED BY <1>1, <1>2

-----------------------------------------------------------------------------
(* The entry is given up where its sector cannot be read. *)
LEMMA ReadFailsKeeps ==
    ASSUME BlkCacheAssumption, IInv, NEW e \in cache_alloc_entry, ReadFails(e),
           through' = through
    PROVE  IInv'
<1>1. TypeOK /\ Unique /\ Agree /\ OneList
  BY DEF IInv
<1>2. /\ e \in Entries /\ disk \subseteq disk' /\ disk' \subseteq Sectors
      /\ e \in valid /\ lba[e] \notin lost => lba[e] \in disk'
  BY <1>1, VictimWritten DEF ReadFails
<1>3. /\ valid' = valid \ {e} /\ fresh' = fresh \ {e}
      /\ dirty' \subseteq dirty /\ dirty \ {e} \subseteq dirty'
      /\ UNCHANGED <<lba, prev, next, head, tail, lost>>
  BY DEF ReadFails
<1>4. OneList'
  BY <1>1, <1>3, ListKept
<1>5. TypeOK'
  BY <1>1, <1>2, <1>3 DEF TypeOK
<1>6. Unique'
  BY <1>1, <1>3 DEF Unique
<1>7. Agree'
  <2>1. (valid \cap dirty \subseteq fresh)'
    BY <1>1, <1>3 DEF Agree
  <2>2. ASSUME NEW s \in Sectors \ lost
        PROVE  /\ (\A f \in valid \ {e} : lba[f] # s) => s \in disk'
               /\ \A f \in valid \ {e} :
                      lba[f] = s => f \in fresh' /\ (f \in dirty' \/ s \in disk')
    BY <1>1, <1>2, <1>3 DEF Agree
  <2> QED BY <1>3, <2>1, <2>2 DEF Agree
<1> QED BY <1>4, <1>5, <1>6, <1>7 DEF IInv

(* The entry takes what the device has of the sector. *)
LEMMA FillKeeps ==
    ASSUME BlkCacheAssumption, IInv, NEW s \in Sectors, cache_lookup(s) = NULL,
           NEW e \in cache_alloc_entry, Fill(e, s), through' = through
    PROVE  IInv'
<1>1. TypeOK /\ Unique /\ Agree /\ OneList
  BY DEF IInv
<1>2. /\ e \in Entries /\ disk \subseteq disk' /\ disk' \subseteq Sectors
      /\ e \in valid /\ lba[e] \notin lost => lba[e] \in disk'
      /\ \A f \in valid : lba[f] # s
  BY <1>1, VictimWritten, LookupFinds DEF Fill
<1>3. /\ lba' = [lba EXCEPT ![e] = s] /\ valid' = valid \cup {e} /\ dirty' = dirty \ {e}
      /\ fresh' = IF s \in disk THEN fresh \cup {e} ELSE fresh \ {e}
      /\ lost' = lost /\ lru_move_to_front(e)
  BY DEF Fill
<1>4. OneList'
  BY <1>1, <1>2, <1>3, ListKept
<1>5. TypeOK'
  BY <1>1, <1>2, <1>3, MoveTyped DEF TypeOK
<1>6. lba'[e] = s /\ \A f \in Entries \ {e} : lba'[f] = lba[f]
  BY <1>1, <1>2, <1>3 DEF TypeOK
<1>7. Unique'
  BY <1>1, <1>2, <1>3, <1>6 DEF Unique, TypeOK
<1>8. Agree'
  <2>1. (valid \cap dirty \subseteq fresh)'
    BY <1>1, <1>3 DEF Agree
  <2>2. ASSUME NEW t \in Sectors \ lost, \A f \in valid' : lba'[f] # t
        PROVE  t \in disk'
    <3>1. \A f \in valid \ {e} : lba[f] # t
      BY <1>1, <1>3, <1>6, <2>2 DEF TypeOK
    <3> QED BY <1>1, <1>2, <2>2, <3>1 DEF Agree
  <2>3. ASSUME NEW t \in Sectors \ lost, NEW f \in valid', lba'[f] = t
        PROVE  f \in fresh' /\ (f \in dirty' \/ t \in disk')
    <3>1. CASE f = e
      BY <1>1, <1>2, <1>3, <1>6, <2>3, <3>1 DEF Agree
    <3>2. CASE f # e
      BY <1>1, <1>2, <1>3, <1>6, <2>3, <3>2 DEF Agree, TypeOK
    <3> QED BY <3>1, <3>2
  <2> QED BY <1>3, <2>1, <2>2, <2>3 DEF Agree
<1> QED BY <1>4, <1>5, <1>7, <1>8 DEF IInv
(* The entry holds the last write, and so does the device after a write     *)
(* through that did not fail.                                               *)
LEMMA StoreKeeps ==
    ASSUME BlkCacheAssumption, IInv, NEW s \in Sectors, NEW e \in Entries, NEW on,
           \A f \in valid : lba[f] = s => f = e,
           disk \subseteq on, on \subseteq Sectors,
           e \in valid /\ lba[e] \notin lost \cup {s} => lba[e] \in on,
           Store(e, s, on), through' = through
    PROVE  IInv'
<1>1. TypeOK /\ Unique /\ Agree /\ OneList
  BY DEF IInv
<1>2. /\ lba' = [lba EXCEPT ![e] = s] /\ valid' = valid \cup {e} /\ fresh' = fresh \cup {e}
      /\ lost' = lost \ {s}
  BY DEF Store
<1>3. /\ \/ dirty' = dirty \cup {e} /\ disk' = on \ {s}
         \/ dirty' = dirty \ {e} /\ disk' = on \cup {s}
      /\ \/ lru_move_to_front(e)
         \/ through /\ UNCHANGED <<prev, next, head, tail>>
  BY DEF Store
<1>4. OneList'
  BY <1>1, <1>2, <1>3, ListKept
<1>5. TypeOK'
  BY <1>1, <1>2, <1>3, MoveTyped DEF TypeOK
<1>6. lba'[e] = s /\ \A f \in Entries \ {e} : lba'[f] = lba[f]
  BY <1>1, <1>2 DEF TypeOK
<1>7. Unique'
  BY <1>1, <1>2, <1>6 DEF Unique, TypeOK
<1>8. Agree'
  <2>1. (valid \cap dirty \subseteq fresh)'
    BY <1>1, <1>2, <1>3 DEF Agree
  <2>2. ASSUME NEW t \in Sectors \ lost', \A f \in valid' : lba'[f] # t
        PROVE  t \in disk'
    <3>1. t # s /\ \A f \in valid \ {e} : lba[f] # t
      BY <1>1, <1>2, <1>6, <2>2 DEF TypeOK
    <3>2. t \in on
      BY <1>1, <1>2, <2>2, <3>1 DEF Agree
    <3> QED BY <1>3, <3>1, <3>2
  <2>3. ASSUME NEW t \in Sectors \ lost', NEW f \in valid', lba'[f] = t
        PROVE  f \in fresh' /\ (f \in dirty' \/ t \in disk')
    <3>1. CASE f = e
      BY <1>2, <1>3, <1>6, <2>3, <3>1
    <3>2. CASE f # e
      <4>1. f \in valid /\ lba[f] = t /\ t # s
        BY <1>1, <1>2, <1>6, <2>3, <3>2 DEF TypeOK
      <4>2. f \in fresh /\ (f \in dirty \/ t \in disk)
        BY <1>1, <1>2, <2>3, <4>1 DEF Agree
      <4> QED BY <1>2, <1>3, <3>2, <4>1, <4>2
    <3> QED BY <3>1, <3>2
  <2> QED BY <2>1, <2>2, <2>3 DEF Agree
<1> QED BY <1>4, <1>5, <1>7, <1>8 DEF IInv

LEMMA ReadKeeps ==
    ASSUME BlkCacheAssumption, IInv, NEW s \in Sectors, read_blocks(s)
    PROVE  IInv'
<1>1. TypeOK /\ Unique /\ Agree /\ OneList /\ through' = through
  BY DEF IInv, read_blocks
<1>2. CASE cache_lookup(s) # NULL
  <2>1. cache_lookup(s) \in Entries
    BY <1>1, <1>2, LookupFinds DEF TypeOK
  <2>2. /\ lru_move_to_front(cache_lookup(s))
        /\ UNCHANGED <<lba, valid, dirty, fresh, disk, lost>>
    BY <1>2 DEF read_blocks, Hit
  <2>3. OneList'
    BY <1>1, <2>1, <2>2, ListKept
  <2>4. TypeOK'
    BY <1>1, <2>1, <2>2, MoveTyped DEF TypeOK
  <2>5. Unique' /\ Agree'
    BY <1>1, <2>2 DEF Unique, Agree
  <2> QED BY <2>3, <2>4, <2>5 DEF IInv
<1>3. CASE cache_lookup(s) = NULL /\ EvictFails
  <2>1. UNCHANGED vars
    BY <1>1, <1>3 DEF EvictFails, vars
  <2>2. OneList'
    BY <1>1, <2>1, ListKept DEF vars
  <2> QED BY <1>1, <2>1, <2>2 DEF IInv, TypeOK, Unique, Agree, vars
<1>4. CASE cache_lookup(s) = NULL /\ \E e \in cache_alloc_entry : ReadFails(e) \/ Fill(e, s)
  BY <1>1, <1>4, ReadFailsKeeps, FillKeeps
<1> QED BY <1>2, <1>3, <1>4 DEF read_blocks

LEMMA WriteKeeps ==
    ASSUME BlkCacheAssumption, IInv, NEW s \in Sectors, write_blocks(s)
    PROVE  IInv'
<1>1. TypeOK /\ Unique /\ Agree /\ OneList /\ through' = through
  BY DEF IInv, write_blocks
<1>2. CASE cache_lookup(s) # NULL
  <2>1. /\ cache_lookup(s) \in Entries /\ lba[cache_lookup(s)] = s
        /\ \A f \in valid : lba[f] = s => f = cache_lookup(s)
    BY <1>1, <1>2, LookupFinds DEF TypeOK
  <2>2. Store(cache_lookup(s), s, disk) /\ disk \subseteq Sectors
    BY <1>1, <1>2 DEF write_blocks, TypeOK
  <2> QED BY <1>1, <2>1, <2>2, StoreKeeps
<1>3. CASE cache_lookup(s) = NULL /\ EvictFails
  <2>1. UNCHANGED vars
    BY <1>1, <1>3 DEF EvictFails, vars
  <2>2. OneList'
    BY <1>1, <2>1, ListKept DEF vars
  <2> QED BY <1>1, <2>1, <2>2 DEF IInv, TypeOK, Unique, Agree, vars
<1>4. CASE cache_lookup(s) = NULL /\ \E e \in cache_alloc_entry : Store(e, s, Evicted(disk))
  <2>1. PICK e \in cache_alloc_entry : Store(e, s, Evicted(disk))
    BY <1>4
  <2>2. \A f \in valid : lba[f] # s
    BY <1>1, <1>4, LookupFinds
  <2>3. /\ e \in Entries
        /\ disk \subseteq Evicted(disk) /\ Evicted(disk) \subseteq Sectors
        /\ e \in valid /\ lba[e] \notin lost => lba[e] \in Evicted(disk)
    BY <1>1, VictimWritten
  <2> QED BY <1>1, <2>1, <2>2, <2>3, StoreKeeps
<1> QED BY <1>2, <1>3, <1>4 DEF write_blocks

(* A bypass drops the entry, and gives up a write that was only there. *)
LEMMA BypassKeeps ==
    ASSUME BlkCacheAssumption, IInv, NEW s \in Sectors, read_bypass(s) \/ write_bypass(s)
    PROVE  IInv'
<1>1. TypeOK /\ Unique /\ Agree /\ OneList
  BY DEF IInv
<1> DEFINE e == cache_lookup(s)
<1>2. /\ valid' = valid \ {e} /\ fresh' = fresh \ {e}
      /\ UNCHANGED <<lba, dirty, prev, next, head, tail, through>>
  BY DEF read_bypass, write_bypass, cache_invalidate
<1>3. \/ disk' = disk \cup {s} /\ lost' = lost \ {s}
      \/ disk' = disk /\ lost' = lost \cup (IF e \in dirty /\ s \notin disk THEN {s} ELSE {})
  BY DEF read_bypass, write_bypass, Dropped, GiveUp
<1>4. /\ e = NULL => \A f \in valid : lba[f] # s
      /\ e # NULL => e \in valid /\ lba[e] = s /\ \A f \in valid : lba[f] = s => f = e
  BY <1>1, LookupFinds
<1> HIDE DEF e
<1>5. OneList'
  BY <1>1, <1>2, ListKept
<1>6. TypeOK'
  BY <1>1, <1>2, <1>3 DEF TypeOK
<1>7. Unique'
  BY <1>1, <1>2 DEF Unique
<1>8. Agree'
  <2>1. (valid \cap dirty \subseteq fresh)'
    BY <1>1, <1>2 DEF Agree
  <2>2. ASSUME NEW t \in Sectors \ lost'
        PROVE  /\ (\A f \in valid' : lba[f] # t) => t \in disk'
               /\ \A f \in valid' : lba[f] = t => f \in fresh' /\ (f \in dirty \/ t \in disk')
    <3>1. CASE t = s
      <4>1. \A f \in valid' : lba[f] # s
        BY <1>1, <1>2, <1>4
      <4>2. s \in disk'
        BY <1>1, <1>3, <1>4, <2>2, <3>1 DEF Agree
      <4> QED BY <3>1, <4>1, <4>2
    <3>2. CASE t # s
      <4>1. t \in Sectors \ lost /\ disk \subseteq disk'
        BY <1>3, <2>2, <3>2
      <4>2. \A f \in valid : lba[f] = t => f \in valid'
        BY <1>1, <1>2, <1>4, <3>2, BlkCacheAssumption DEF BlkCacheAssumption, TypeOK
      <4>3. /\ (\A f \in valid : lba[f] # t) => t \in disk
            /\ \A f \in valid : lba[f] = t => f \in fresh /\ (f \in dirty \/ t \in disk)
        BY <1>1, <4>1 DEF Agree
      <4> QED BY <1>2, <4>1, <4>2, <4>3
    <3> QED BY <3>1, <3>2
  <2> QED BY <1>2, <2>1, <2>2 DEF Agree
<1> QED BY <1>5, <1>6, <1>7, <1>8 DEF IInv

(* A flush writes what is marked and gives up what the device refuses. *)
LEMMA FlushKeeps ==
    ASSUME BlkCacheAssumption, IInv, flush
    PROVE  IInv'
<1>1. TypeOK /\ Unique /\ Agree /\ OneList
  BY DEF IInv
<1>2. PICK failed \in SUBSET (valid \cap dirty) :
        /\ disk' = disk \cup {lba[e] : e \in (valid \cap dirty) \ failed}
        /\ lost' = lost \cup {lba[e] : e \in failed}
  BY DEF flush, GiveUp
<1>3. /\ dirty' = dirty \ valid
      /\ UNCHANGED <<through, lba, valid, prev, next, head, tail, fresh>>
  BY DEF flush
<1>4. OneList'
  BY <1>1, <1>3, ListKept
<1>5. TypeOK'
  BY <1>1, <1>2, <1>3 DEF TypeOK
<1>6. Unique'
  BY <1>1, <1>3 DEF Unique
<1>7. Agree'
  <2>1. (valid \cap dirty \subseteq fresh)'
    BY <1>1, <1>3 DEF Agree
  <2>2. ASSUME NEW t \in Sectors \ lost'
        PROVE  /\ (\A f \in valid : lba[f] # t) => t \in disk'
               /\ \A f \in valid : lba[f] = t => f \in fresh /\ t \in disk'
    <3>1. t \in Sectors \ lost /\ disk \subseteq disk'
      BY <1>2, <2>2
    <3>2. ASSUME NEW f \in valid, lba[f] = t, t \notin disk
          PROVE  t \in disk'
      <4>1. f \in dirty /\ f \notin failed
        BY <1>1, <1>2, <2>2, <3>1, <3>2 DEF Agree
      <4> QED BY <1>2, <3>2, <4>1
    <3> QED BY <1>1, <3>1, <3>2 DEF Agree
  <2> QED BY <1>3, <2>1, <2>2 DEF Agree
<1> QED BY <1>4, <1>5, <1>6, <1>7 DEF IInv

-----------------------------------------------------------------------------
LEMMA InitIInv ==
    ASSUME BlkCacheAssumption, Init
    PROVE  IInv
<1>1. TypeOK
  BY DEF Init, TypeOK, BlkCacheAssumption
<1>2. Unique /\ Agree
  BY DEF Init, Unique, Agree
<1>3. OneList
  <2> DEFINE list == [i \in 1..0 |-> NULL]
  <2>1. list \in [1..0 -> Entries]
    OBVIOUS
  <2>2. Threaded(list, 0)
    BY DEF Init, Threaded, Ordered, Loose, On
  <2> HIDE DEF list
  <2> QED BY <2>1, <2>2 DEF OneList
<1> QED BY <1>1, <1>2, <1>3 DEF IInv

LEMMA NextKeeps ==
    ASSUME BlkCacheAssumption, IInv, [Next]_vars
    PROVE  IInv'
<1>1. CASE UNCHANGED vars
  <2>1. OneList'
    BY <1>1, ListKept DEF vars, IInv
  <2> QED BY <1>1, <2>1 DEF vars, IInv, TypeOK, Unique, Agree
<1> QED BY <1>1, ReadKeeps, WriteKeeps, BypassKeeps, FlushKeeps DEF Next

LEMMA Invariance == ASSUME BlkCacheAssumption PROVE Spec => []IInv
<1>1. Init => IInv
  BY InitIInv
<1>2. IInv /\ [Next]_vars => IInv'
  BY NextKeeps
<1> QED BY <1>1, <1>2, PTL DEF Spec

-----------------------------------------------------------------------------
(* The cache's variables stay in their types. *)
THEOREM TypesHold == ASSUME BlkCacheAssumption PROVE Spec => []TypeOK
<1>1. IInv => TypeOK
  BY DEF IInv
<1> QED BY <1>1, Invariance, PTL

(* The cache and the device never disagree unnoticed, through evictions,    *)
(* failures half way, bypasses and flushes (blkcache.cxx), for any number   *)
(* of entries and sectors.                                                  *)
THEOREM CacheCoherent == ASSUME BlkCacheAssumption PROVE Spec => []Coherent
<1>1. ASSUME IInv
      PROVE  Coherent
  <2>1. TypeOK /\ Unique /\ Agree
    BY <1>1 DEF IInv
  <2>2. ASSUME NEW s \in Sectors \ lost
        PROVE  LET e == cache_lookup(s)
               IN  /\ e = NULL => s \in disk
                   /\ e # NULL => e \in fresh /\ (e \in dirty \/ s \in disk)
    BY <2>1, LookupFinds DEF Agree
  <2> QED BY <2>1, <2>2 DEF Coherent, Agree
<1> QED BY <1>1, Invariance, PTL

(* A list of different entries is no longer than there are entries. *)
LEMMA ListBounded ==
    ASSUME BlkCacheAssumption, NEW n \in Nat, NEW list \in [1..n -> Entries],
           \A i, j \in 1..n : list[i] = list[j] => i = j
    PROVE  Cardinality(Entries) \in Nat /\ n <= Cardinality(Entries)
<1>1. IsFiniteSet(1..n) /\ Cardinality(1..n) = n /\ IsFiniteSet(Entries)
  BY FS_Interval DEF BlkCacheAssumption
<1>2. list \in Injection(1..n, Entries)
  BY DEF Injection, IsInjective
<1>3. Cardinality(1..n) <= Cardinality(Entries)
  BY <1>1, <1>2, FS_Injection
<1> QED BY <1>1, <1>3, FS_CardinalityType

(* The LRU list stays one list (lru_move_to_front). *)
THEOREM ListStaysSound == ASSUME BlkCacheAssumption PROVE Spec => []ListSound
<1>1. ASSUME IInv
      PROVE  ListSound
  <2>. PICK n \in Nat : \E list \in [1..n -> Entries] : Threaded(list, n)
    BY <1>1 DEF IInv, OneList
  <2>1. PICK list \in [1..n -> Entries] : Threaded(list, n)
    OBVIOUS
  <2>2. n \in 0..Cardinality(Entries)
    BY <2>1, ListBounded DEF Threaded, Ordered
  <2> QED BY <2>1, <2>2 DEF ListSound, Threaded, On
<1> QED BY <1>1, Invariance, PTL
===============================================================================
