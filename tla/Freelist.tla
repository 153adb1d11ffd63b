------------------------------- MODULE Freelist -------------------------------
(***************************************************************************)
(* The free list of core/freelist.cxx: objects are carved from magazines,   *)
(* which are taken from the heap when all that there are are used up, and   *)
(* given back when they are empty.  Alloc and Free run without interrupts.  *)
(***************************************************************************)
EXTENDS Integers, FiniteSets, Sequences

CONSTANTS
    Magazines,      \* blocks of the heap that can hold a magazine
    Places,         \* the 32 objects of a magazine
    NumKeep         \* _numkeep

VARIABLES
    chain,          \* the magazines linked from _head
    used,           \* _used of each
    nummag,         \* _nummag, up to one more than _numkeep
    objects         \* the objects allocated and not freed

vars == <<chain, used, nummag, objects>>

Linked == {chain[i] : i \in 1..Len(chain)}

TypeOK ==
    /\ chain \in Seq(Magazines)
    /\ used \in [Magazines -> SUBSET Places]
    /\ nummag \in 0..(NumKeep + 1)
    /\ objects \subseteq Magazines \X Places

Init ==
    /\ chain = <<>>
    /\ used = [m \in Magazines |-> {}]
    /\ nummag = 0 /\ objects = {}

-----------------------------------------------------------------------------
(* Alloc takes the first free place of the first magazine of the chain that *)
(* has one; which place of a magazine is left open.                         *)
HasRoom(m) == used[m] # Places

Take(m, p) ==
    /\ used' = [used EXCEPT ![m] = @ \cup {p}]
    /\ objects' = objects \cup {<<m, p>>}

Alloc ==
    \E i \in 1..Len(chain) :
        /\ HasRoom(chain[i])
        /\ \A j \in 1..(i - 1) : ~HasRoom(chain[j])
        /\ \E p \in Places \ used[chain[i]] : Take(chain[i], p)
        /\ UNCHANGED <<chain, nummag>>

(* Expand puts the new magazine at the front. *)
Expand ==
    /\ \A m \in Linked : ~HasRoom(m)
    /\ \E m \in Magazines \ Linked, p \in Places :
        /\ chain' = <<m>> \o chain
        /\ used' = [used EXCEPT ![m] = {p}]
        /\ objects' = objects \cup {<<m, p>>}
    /\ nummag' = IF nummag <= NumKeep THEN nummag + 1 ELSE nummag

(* Free gives an empty magazine back, but for the one at the front while    *)
(* there have never been more than _numkeep: nothing counts _nummag down.   *)
Keeps(m) == m = Head(chain) /\ nummag <= NumKeep

(* Mutant of Unlinked: always the first. *)
UnlinkedFirst(m) == Tail(chain)

Position(m) == CHOOSE i \in 1..Len(chain) : chain[i] = m

Unlinked(m) ==
    [i \in 1..(Len(chain) - 1) |-> IF i < Position(m) THEN chain[i] ELSE chain[i + 1]]

Free(m, p) ==
    /\ <<m, p>> \in objects
    /\ used' = [used EXCEPT ![m] = @ \ {p}]
    /\ objects' = objects \ {<<m, p>>}
    /\ chain' = IF used[m] = {p} /\ ~Keeps(m) THEN Unlinked(m) ELSE chain
    /\ UNCHANGED nummag

Next ==
    \/ Alloc \/ Expand
    \/ \E m \in Magazines, p \in Places : Free(m, p)

Spec == Init /\ [][Next]_vars

-----------------------------------------------------------------------------
(* An object in use is in a magazine that is linked, once, and marked       *)
(* there, so that no other caller is given it nor the heap its memory; and  *)
(* at most the magazine at the front is kept empty (Alloc, Expand, Free).   *)
ObjectsHeld ==
    /\ \A i, j \in 1..Len(chain) : chain[i] = chain[j] => i = j
    /\ objects = {o \in Linked \X Places : o[2] \in used[o[1]]}
    /\ \A i \in 1..Len(chain) : used[chain[i]] = {} => i = 1
=============================================================================
