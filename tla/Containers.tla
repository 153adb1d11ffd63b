----------------------------- MODULE Containers -----------------------------
(***************************************************************************)
(* The library's sequences: Deque, which pops at the front by moving a head *)
(* over its Vector and compacts now and then; ODeque, which does the same   *)
(* over an OVector that it searches by bisection; Set, an OVector in which  *)
(* an equal item is replaced; and Ring, a ring of fixed size whose head is  *)
(* at the slot before the first item.  A behaviour is about one of them,    *)
(* and content is what its users expect to be in it.                        *)
(*                                                                          *)
(* Items are ordered by their first component alone, so that equal items    *)
(* can be told apart.  The asserts are guards: popping from an empty deque  *)
(* is the caller's error (Deque::PopBack would then move the tail before    *)
(* the head).  SetSize and the like, sharing of memory, and Ring::PushFront *)
(* and Flatten, which nothing calls, are left out.                          *)
(***************************************************************************)
EXTENDS Integers, SequencesExt

CONSTANTS
    Keys, Tags,     \* an item is a key and a tag, and Order compares the keys
    Slack,          \* 32: what Vector::Grow allocates in advance
    DequeMin,       \* 32: a Deque of so many slots is not compacted
    ODequeMin,      \* 64: an ODeque with less memory is not compacted
    MaxUsed,        \* bound: the slots in use, consumed ones included
    RingSize,       \* N of Ring, a power of two
    WordSize        \* how many values size_type has: 2^32

(* What the proofs assume of them. *)
ContainersAssumption ==
    /\ Keys \subseteq Int
    /\ Slack \in Nat /\ DequeMin \in Nat /\ ODequeMin \in Nat /\ MaxUsed \in Nat
    /\ RingSize \in Nat \ {0}
    /\ WordSize \in Nat /\ \E n \in 1..WordSize : WordSize = n * RingSize

VARIABLES
    kind,       \* which container it is
    mem,        \* Vector::_mem up to _used; Ring::_v
    alloc,      \* Vector::_alloc
    head,       \* Deque::_head, ODeque::_head, Ring::_head
    tail,       \* Ring::_tail
    content     \* what is expected to be in it

vars == <<kind, mem, alloc, head, tail, content>>

Items == Keys \X Tags

(* bool Order(a, b) is a > b. *)
Greater(a, b) == a[1] > b[1]
IsEqual(a, b) == ~Greater(a, b) /\ ~Greater(b, a)

TypeOK ==
    /\ kind \in {"deque", "odeque", "set", "ring"}
    /\ mem \in Seq(Items) /\ Len(mem) <= alloc
    /\ alloc \in Nat
    /\ head \in 0..Len(mem)
    /\ tail \in 0..(RingSize - 1)
    /\ content \in Seq(Items)

Init ==
    /\ kind \in {"deque", "odeque", "set", "ring"}
    /\ \E garbage \in Items :
           mem = IF kind = "ring" THEN [i \in 1..RingSize |-> garbage] ELSE <<>>
    /\ alloc = Len(mem) /\ head = 0 /\ tail = 0
    /\ content = <<>>

-----------------------------------------------------------------------------
(* Vector.  Positions are the code's, from 0. *)

(* Vector::Grow *)
Grown(used) == IF used > alloc THEN used + Slack ELSE alloc

(* Vector::Insert, with the item that its caller assigns *)
VectorInsert(v, pos, arg) == SubSeq(v, 1, pos) \o <<arg>> \o SubSeq(v, pos + 1, Len(v))

(* Vector::Erase *)
VectorErase(v, pos, num) ==
    LET n == IF num < Len(v) - pos THEN num ELSE Len(v) - pos
    IN  SubSeq(v, 1, pos) \o SubSeq(v, pos + n + 1, Len(v))

Size == Len(mem) - head

-----------------------------------------------------------------------------
(* OVector::FindGreaterThan: bisection to an item that is equal or to where *)
(* it would be, and from there to the first greater one.                    *)
Windows == [lo : 0..Len(mem), hi : 0..Len(mem), last : 0..Len(mem)]
Window(lo, hi, last) == [lo |-> lo, hi |-> hi, last |-> last]

Bisected(arg, start) ==
    LET Bisect[w \in Windows] ==
            IF w.lo >= w.hi THEN w.last
            ELSE LET mid == (w.lo + w.hi) \div 2
                 IN  IF Greater(arg, mem[mid + 1]) THEN Bisect[Window(mid + 1, w.hi, mid)]
                     ELSE IF Greater(mem[mid + 1], arg) THEN Bisect[Window(w.lo, mid, mid)]
                     ELSE mid
    IN  Bisect[Window(start, Len(mem), Len(mem))]

FindGreaterThan(arg, start) ==
    LET from == Bisected(arg, start)
    IN  CHOOSE pos \in from..Len(mem) :
            /\ \A i \in from..(pos - 1) : ~Greater(mem[i + 1], arg)
            /\ pos = Len(mem) \/ Greater(mem[pos + 1], arg)

(* OVector::Find and, from 0, Set::Find: -1 for NOT_FOUND. *)
Find(arg, start) ==
    LET pos == FindGreaterThan(arg, start)
    IN  IF start >= Len(mem) \/ pos = start \/ ~IsEqual(arg, mem[pos]) THEN -1 ELSE pos - 1

-----------------------------------------------------------------------------
(* Deque *)

(* Deque::Compact *)
Compacted(v, h) == IF h > 0 THEN VectorErase(v, 0, h) ELSE v

(* Deque::AutoCompact *)
Crowded(v, h) == Len(v) > DequeMin /\ h > Len(v) \div 2

(* What v and h become when AutoCompact is done with them. *)
AutoCompact(v, h) ==
    /\ mem' = IF Crowded(v, h) THEN Compacted(v, h) ELSE v
    /\ head' = IF Crowded(v, h) THEN 0 ELSE h

(* Mutant of DequeInsert: the place is computed before the compaction. *)
DequeInsertStale(pos, arg) ==
    /\ kind = "deque" /\ pos \in 0..Size /\ Len(mem) < MaxUsed
    /\ IF pos = 0 /\ head >= 1
       THEN /\ head' = head - 1
            /\ mem' = [mem EXCEPT ![head] = arg]
            /\ UNCHANGED alloc
       ELSE LET crowded == Crowded(mem, head)
                v == IF crowded THEN Compacted(mem, head) ELSE mem
            IN  /\ head' = (IF crowded THEN 0 ELSE head)
                /\ mem' = VectorInsert(v, IF head + pos < Len(v) THEN head + pos ELSE Len(v), arg)
                /\ alloc' = Grown(Len(v) + 1)
    /\ content' = InsertAt(content, pos + 1, arg)
    /\ UNCHANGED <<kind, tail>>

(* Deque::Insert, and so PushFront and PushBack of an item: a slot before   *)
(* the head is taken back, or the vector makes room.                        *)
DequeInsert(pos, arg) ==
    /\ kind = "deque" /\ pos \in 0..Size /\ Len(mem) < MaxUsed
    /\ IF pos = 0 /\ head >= 1
       THEN /\ head' = head - 1
            /\ mem' = [mem EXCEPT ![head] = arg]
            /\ UNCHANGED alloc
       ELSE LET crowded == Crowded(mem, head)
                v == IF crowded THEN Compacted(mem, head) ELSE mem
                h == IF crowded THEN 0 ELSE head
            IN  /\ head' = h
                /\ mem' = VectorInsert(v, h + pos, arg)
                /\ alloc' = Grown(Len(v) + 1)
    /\ content' = InsertAt(content, pos + 1, arg)
    /\ UNCHANGED <<kind, tail>>

(* Deque::PushBack of several items: Vector::PushBack first. *)
DequePushBack(args) ==
    /\ kind = "deque" /\ Len(mem) + Len(args) <= MaxUsed
    /\ AutoCompact(mem \o args, head)
    /\ alloc' = Grown(Len(mem) + Len(args))
    /\ content' = content \o args
    /\ UNCHANGED <<kind, tail>>

(* Deque::Erase, and so PopFront *)
DequeErase(pos, num) ==
    /\ kind = "deque" /\ pos \in 0..(Size - 1) /\ num \in 1..Size
    /\ IF pos = 0
       THEN AutoCompact(mem, head + num)
       ELSE AutoCompact(VectorErase(mem, head + pos, num), head)
    /\ content' = VectorErase(content, pos, num)
    /\ UNCHANGED <<kind, alloc, tail>>

(* Deque::PopBack *)
DequePopBack ==
    /\ kind = "deque" /\ Size > 0
    /\ mem' = Front(mem)
    /\ content' = Front(content)
    /\ UNCHANGED <<kind, alloc, head, tail>>

(* Deque::Flush; Clear, which gives the memory back too *)
Flush ==
    /\ kind = "deque"
    /\ alloc' \in {alloc, 0}
    /\ mem' = <<>> /\ head' = 0 /\ content' = <<>>
    /\ UNCHANGED <<kind, tail>>

-----------------------------------------------------------------------------
(* ODeque and Set.  In what is expected an item goes behind all that are    *)
(* not greater.                                                             *)
InOrder(s, arg) ==
    LET n == CHOOSE k \in 0..Len(s) : \A i \in DOMAIN s : i <= k <=> ~Greater(s[i], arg)
    IN  InsertAt(s, n + 1, arg)

(* A set without the item that is equal to arg. *)
Without(s, arg) ==
    IF \E i \in DOMAIN s : IsEqual(s[i], arg)
    THEN RemoveAt(s, CHOOSE i \in DOMAIN s : IsEqual(s[i], arg)) ELSE s

(* ODeque::Insert compacts only here, and after the insertion. *)
ODequeInsert(arg) ==
    LET pos == FindGreaterThan(arg, head)
        v == VectorInsert(mem, pos, arg)
        crowded == Grown(Len(v)) >= ODequeMin /\ head > Len(v) \div 2
    IN  /\ kind = "odeque" /\ Len(mem) < MaxUsed
        /\ IF pos = head /\ head > 0
           THEN /\ head' = head - 1
                /\ mem' = [mem EXCEPT ![head] = arg]
                /\ UNCHANGED alloc
           ELSE /\ mem' = (IF crowded THEN Compacted(v, head) ELSE v)
                /\ head' = (IF crowded THEN 0 ELSE head)
                /\ alloc' = Grown(Len(v))
        /\ content' = InOrder(content, arg)
        /\ UNCHANGED <<kind, tail>>

(* ODeque::Erase, and so PopFront and PopBack *)
ODequeErase(pos, num) ==
    /\ kind = "odeque" /\ pos \in 0..(Size - 1) /\ num \in 1..Size
    /\ IF pos = 0
       THEN head' = head + num /\ UNCHANGED mem
       ELSE mem' = VectorErase(mem, head + pos, num) /\ UNCHANGED head
    /\ content' = VectorErase(content, pos, num)
    /\ UNCHANGED <<kind, alloc, tail>>

(* Set::Insert *)
SetInsert(arg) ==
    LET pos == FindGreaterThan(arg, 0)
        present == pos > 0 /\ IsEqual(arg, mem[pos])
    IN  /\ kind = "set" /\ Len(mem) < MaxUsed
        /\ IF present
           THEN mem' = [mem EXCEPT ![pos] = arg] /\ UNCHANGED alloc
           ELSE mem' = VectorInsert(mem, pos, arg) /\ alloc' = Grown(Len(mem) + 1)
        /\ content' = InOrder(Without(content, arg), arg)
        /\ UNCHANGED <<kind, head, tail>>

(* Set::Erase of an item *)
SetErase(arg) ==
    LET pos == Find(arg, 0)
    IN  /\ kind = "set"
        /\ mem' = IF pos # -1 THEN VectorErase(mem, pos, 1) ELSE mem
        /\ content' = Without(content, arg)
        /\ UNCHANGED <<kind, alloc, head, tail>>

-----------------------------------------------------------------------------
(* Ring *)

(* Ring::Size, Headroom and Continuous: how many items are in it, how many  *)
(* more it takes, and how many from the first on are one block of memory.   *)
RingUsed == IF tail >= head THEN tail - head ELSE RingSize - head + tail
Headroom == RingSize - RingUsed - 1
Continuous ==
    IF head <= tail THEN RingUsed
    ELSE IF head = RingSize - 1 THEN tail + 1
    ELSE RingSize - head - 1

(* Ring::PushBack of some items, one after the other. *)
RingPushBack(args) ==
    /\ kind = "ring" /\ Len(args) <= Headroom
    /\ tail' = (tail + Len(args)) % RingSize
    /\ mem' = [i \in DOMAIN mem |->
                  LET n == (i - 1 - tail) % RingSize
                  IN  IF n \in DOMAIN args THEN args[n] ELSE mem[i]]
    /\ content' = content \o args
    /\ UNCHANGED <<kind, alloc, head>>

(* Ring::PopFront *)
RingPopFront(n) ==
    /\ kind = "ring" /\ n \in 1..RingUsed
    /\ head' = (head + n) % RingSize
    /\ content' = SubSeq(content, n + 1, Len(content))
    /\ UNCHANGED <<kind, mem, alloc, tail>>

(* Ring::PopBack *)
RingPopBack ==
    /\ kind = "ring" /\ RingUsed > 0
    /\ tail' = ((tail - 1) % WordSize) % RingSize
    /\ content' = Front(content)
    /\ UNCHANGED <<kind, mem, alloc, head>>

(* Ring::operator[] *)
RingItem(i) == mem[((head + i + 1) % RingSize) + 1]

Next ==
    \/ \E pos \in 0..Size, arg \in Items : DequeInsert(pos, arg)
    \/ \E a, b \in Items : DequePushBack(<<a, b>>)
    \/ \E pos, num \in 0..Size : DequeErase(pos, num) \/ ODequeErase(pos, num)
    \/ DequePopBack \/ Flush
    \/ \E arg \in Items : ODequeInsert(arg) \/ SetInsert(arg) \/ SetErase(arg)
    \/ \E a, b \in Items : RingPushBack(<<a>>) \/ RingPushBack(<<a, b>>)
    \/ \E n \in 1..RingSize : RingPopFront(n)
    \/ RingPopBack

Spec == Init /\ [][Next]_vars

-----------------------------------------------------------------------------
(* From the head on a container has what was put into it and not taken out, *)
(* in the order of Deque's and Ring's calls or of the items, whatever was   *)
(* consumed and compacted since; Find finds an equal item exactly if there  *)
(* is one (ODeque, Set); and the block of memory that a ring's reader takes *)
(* at once has the first items and is empty only if the ring is             *)
(* (Continuous, Buffer).                                                    *)
ContentExact ==
    /\ kind # "ring" => SubSeq(mem, head + 1, Len(mem)) = content
    /\ kind \in {"odeque", "set"} =>
           \A arg \in Items :
               LET pos == Find(arg, head)
               IN  IF \E i \in DOMAIN content : IsEqual(arg, content[i])
                   THEN pos >= head /\ IsEqual(arg, mem[pos + 1])
                   ELSE pos = -1
    /\ kind = "ring" =>
           LET first == (head + 1) % RingSize
           IN  /\ [i \in 1..RingUsed |-> RingItem(i - 1)] = content
               /\ SubSeq(mem, first + 1, first + Continuous) = SubSeq(content, 1, Continuous)
               /\ Continuous = 0 <=> content = <<>>
=============================================================================
