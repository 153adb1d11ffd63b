-------------------------------- MODULE Fat32 --------------------------------
(***************************************************************************)
(* The FAT32 file system of core/fat32.cxx on a device that can lose power  *)
(* between any two sector writes.  A call holds FileSys::_lock throughout   *)
(* and reads only what was written before it, so it is one step that makes  *)
(* the list of the sectors it writes and updates what the code keeps in     *)
(* memory; the writes are then carried out one by one, and the next call    *)
(* comes when they are done.                                                *)
(*                                                                          *)
(* A cluster is one sector and, in a directory, holds one entry besides     *)
(* "." and "..".  Directories are made in the root, files anywhere.  A file *)
(* is open once at a time, and is neither removed nor renamed while open.   *)
(***************************************************************************)
EXTENDS Integers, FiniteSets, SequencesExt

CONSTANTS
    Names, Handles,
    NULL,
    Top,            \* _total_clusters - 1: no higher cluster is ever allocated
    ActiveFats,     \* the copies fat_set writes: {0, 1} with mirroring
    Unknown,        \* 0xffffffff
    MaxSize,        \* bound: clusters of a file
    CrashIn         \* the calls that a power failure can interrupt

VARIABLES
    fat,        \* the copies of the FAT
    ent,        \* the directory entry in each cluster
    fsinfo,     \* FSINFO on the device: free_count and next_free
    info,       \* _free_cluster_count, _next_free_cluster, _fsinfo_dirty
    handle,     \* FileSys::File objects, NULL when not in use
    writes,     \* the sectors that the call under way has still to write
    damaged     \* power has failed, or a call has let go of clusters

vars == <<fat, ent, fsinfo, info, handle, writes, damaged>>

Root == 2
Clusters == Root..Top
EOC == Top + 1
Links == {0, EOC} \cup Clusters

NoEntry(k) == [kind |-> k, name |-> NULL, first |-> 0, size |-> 0]
Free == NoEntry("free")             \* name[0] is 0x00
Deleted == NoEntry("deleted")       \* name[0] is 0xe5
Data == NoEntry("data")             \* the cluster is not a directory's
Entry(k, n, c, s) == [kind |-> k, name |-> n, first |-> c, size |-> s]
Used(e) == e.kind \in {"file", "dir"}

TypeOK ==
    /\ fat \in [{0, 1} -> [Clusters -> Links]]
    /\ \A c \in Clusters :
        /\ ent[c].kind \in {"free", "deleted", "data", "file", "dir"}
        /\ Used(ent[c]) => ent[c].name \in Names
        /\ ent[c].first \in {0} \cup Clusters /\ ent[c].size \in 0..MaxSize
    /\ fsinfo.count \in 0..Unknown /\ fsinfo.next \in Root..EOC
    /\ info.count \in 0..Unknown /\ info.next \in Root..EOC /\ info.dirty \in BOOLEAN
    /\ \A h \in Handles : handle[h] # NULL =>
        /\ handle[h].slot \in Clusters /\ handle[h].first \in {0} \cup Clusters
        /\ handle[h].size \in 0..MaxSize
    /\ damaged \in BOOLEAN

(* A formatted device, mounted. *)
Init ==
    /\ fat = [i \in {0, 1} |-> [c \in Clusters |-> IF c = Root THEN EOC ELSE 0]]
    /\ ent = [c \in Clusters |-> IF c = Root THEN Free ELSE Data]
    /\ fsinfo = [count |-> Top - Root, next |-> Root + 1]
    /\ info = [count |-> Top - Root, next |-> Root + 1, dirty |-> FALSE]
    /\ handle = [h \in Handles |-> NULL]
    /\ writes = <<>>
    /\ damaged = FALSE

-----------------------------------------------------------------------------
(* fat_get reads the first copy, whichever is active. *)
fat_get(c) == fat[0][c]

(* The clusters of a chain, in order: the first n from each on, and all. *)
ChainFrom[n \in 0..Top] ==
    [c \in Links |-> IF n = 0 \/ c \notin Clusters THEN <<>>
                     ELSE <<c>> \o ChainFrom[n - 1][fat_get(c)]]
Chain(start) == ChainFrom[Top][start]

Empty(c) == fat_get(c) = 0

Least(S) == CHOOSE c \in S : \A d \in S : c <= d

(* fat_allocate's search: from the hint on, then from the start. *)
Search(taken) ==
    LET Fit == {c \in Clusters \ taken : Empty(c)}
        Ahead == {c \in Fit : c >= info.next}
    IN  IF Ahead # {} THEN Least(Ahead) ELSE IF Fit # {} THEN Least(Fit) ELSE 0

(* The sectors that the functions write, as records. *)
Copies == Cardinality(ActiveFats)
fat_set(op, c, v) ==
    [n \in 1..Copies |-> [op |-> op, to |-> "fat", copy |-> Least(ActiveFats) + n - 1,
                          at |-> c, val |-> v]]

SetEntry(op, c, e) == <<[op |-> op, to |-> "ent", at |-> c, val |-> e]>>

fat_free_chain(op, start) ==
    [n \in 1..(Copies * Len(Chain(start))) |->
        fat_set(op, Chain(start)[((n - 1) \div Copies) + 1], 0)[((n - 1) % Copies) + 1]]

(* update_dirent; the entry in the sector keeps its name and kind. *)
update_dirent(op, f) ==
    SetEntry(op, f.slot, [ent[f.slot] EXCEPT !.first = f.first, !.size = f.size])

(* What fat_allocate and fat_free_chain do to the counts: one takes and the *)
(* other returns the clusters cs.  The count is left alone once it has come *)
(* to 0xffffffff, by which it is unknown: also down from 0, which it can    *)
(* reach too early after a power failure.                                   *)
CountAllocated(cs) ==
    LET n == Len(cs)
    IN  info' = IF n = 0 THEN info
                ELSE [count |-> IF info.count \in n..(Unknown - 1) THEN info.count - n ELSE Unknown,
                      next |-> Last(cs) + 1, dirty |-> TRUE]

(* Mutant of CountFreed: the free count stays. *)
CountFreedNot(cs) ==
    LET lowest == {info.next} \cup Range(cs)
    IN  info' = IF cs = <<>> THEN info
                ELSE [info EXCEPT !.next = Least(lowest), !.dirty = TRUE]

CountFreed(cs) ==
    LET n == Len(cs)
        lowest == {info.next} \cup Range(cs)
    IN  info' = IF n = 0 THEN info
                ELSE [count |-> IF info.count + n < Unknown THEN info.count + n ELSE Unknown,
                      next |-> Least(lowest), dirty |-> TRUE]

-----------------------------------------------------------------------------
(* Directories and what is in them.  An entry with 0x00 ends a directory,   *)
(* and the slots after it in the cluster chain have never been used.        *)
Entries(d) == {c \in Range(Chain(d)) : Used(ent[c])}
Dirs == {Root} \cup {ent[c].first : c \in {e \in Entries(Root) : ent[e].kind = "dir"}}
Live == UNION {Entries(d) : d \in Dirs}
IsOpen(c) == \E h \in Handles : handle[h] # NULL /\ handle[h].slot = c
Exists(d, name) == \E c \in Entries(d) : ent[c].name = name

(* dir_find_free_slot, once the entry in a cluster of gone is deleted: the  *)
(* first free slot of the directory, or that of a cluster with which it     *)
(* grows.                                                                   *)
FreeSlots(d, gone) ==
    {i \in DOMAIN Chain(d) : LET c == Chain(d)[i]
                             IN  ent[c].kind \in {"free", "deleted"} \/ c \in gone}
Grows(d, gone) == FreeSlots(d, gone) = {}
Room(d, gone) == ~Grows(d, gone) \/ Search({}) # 0
Slot(d, gone) == IF Grows(d, gone) THEN Search({}) ELSE Chain(d)[Least(FreeSlots(d, gone))]
Taken(d, gone) == IF Grows(d, gone) THEN <<Slot(d, gone)>> ELSE <<>>
Grow(d, gone) ==
    IF Grows(d, gone)
    THEN LET c == Slot(d, gone)
         IN  fat_set("grow", c, EOC) \o fat_set("grow", Last(Chain(d)), c)
                \o SetEntry("grow", c, Free)
    ELSE <<>>

-----------------------------------------------------------------------------
(* The calls. *)
Called == writes = <<>>

create(h, d, name) ==
    /\ Called /\ handle[h] = NULL /\ d \in Dirs
    /\ ~Exists(d, name) /\ Room(d, {})
    /\ LET c == Slot(d, {})
       IN  /\ writes' = Grow(d, {}) \o SetEntry("create", c, Entry("file", name, 0, 0))
           /\ handle' = [handle EXCEPT ![h] = [slot |-> c, first |-> 0, size |-> 0]]
    /\ CountAllocated(Taken(d, {}))
    /\ UNCHANGED <<fat, ent, fsinfo, damaged>>

open(h, c) ==
    /\ Called /\ handle[h] = NULL
    /\ c \in Live /\ ent[c].kind = "file" /\ ~IsOpen(c)
    /\ handle' = [handle EXCEPT ![h] = [slot |-> c, first |-> ent[c].first, size |-> ent[c].size]]
    /\ UNCHANGED <<fat, ent, fsinfo, info, writes, damaged>>

(* File::write of one cluster at a position up to the end of the file.  The *)
(* first cluster is put in the directory at once, the others are linked     *)
(* after they are allocated (ensure_cluster_index), the data come last and  *)
(* the size is left to close or sync.                                       *)
write(h, p) ==
    /\ Called /\ handle[h] # NULL
    /\ p \in 0..handle[h].size /\ p < MaxSize
    /\ LET f == handle[h]
           chain == Chain(f.first)
           old == p < Len(chain)
           c == IF old THEN chain[p + 1] ELSE Search({})
           g == [f EXCEPT !.first = IF f.first = 0 THEN c ELSE f.first]
           link == IF old THEN <<>>
                   ELSE fat_set("write", c, EOC)
                        \o (IF f.first = 0 THEN update_dirent("write", g)
                            ELSE fat_set("write", Last(chain), c))
       IN  /\ c # 0
           /\ writes' = link \o SetEntry("write", c, Data)
           /\ handle' = [handle EXCEPT ![h] = [g EXCEPT !.size = IF p = f.size THEN p + 1 ELSE @]]
           /\ CountAllocated(IF old THEN <<>> ELSE <<c>>)
    /\ UNCHANGED <<fat, ent, fsinfo, damaged>>

(* Mutant of shrink: the size in the directory is left to close. *)
shrinkUnsaved(h, n) ==
    /\ Called /\ handle[h] # NULL /\ n < handle[h].size
    /\ LET chain == Chain(handle[h].first)
           tail == SubSeq(chain, n + 1, Len(chain))
       IN  /\ writes' = (IF tail = <<>> THEN <<>> ELSE fat_free_chain("truncate", Head(tail)))
                        \o (IF n = 0 THEN <<>> ELSE fat_set("truncate", chain[n], EOC))
           /\ CountFreed(tail)
    /\ handle' = [handle EXCEPT ![h].size = n, ![h].first = IF n = 0 THEN 0 ELSE @]
    /\ UNCHANGED <<fat, ent, fsinfo, damaged>>

(* File::truncate by shrinking: the tail is freed, then the new end marked, *)
(* then the directory updated.                                              *)
shrink(h, n) ==
    /\ Called /\ handle[h] # NULL /\ n < handle[h].size
    /\ LET f == handle[h]
           chain == Chain(f.first)
           g == [f EXCEPT !.size = n, !.first = IF n = 0 THEN 0 ELSE f.first]
           tail == SubSeq(chain, n + 1, Len(chain))
       IN  /\ writes' = (IF tail = <<>> THEN <<>> ELSE fat_free_chain("truncate", Head(tail)))
                        \o (IF n = 0 THEN <<>> ELSE fat_set("truncate", chain[n], EOC))
                        \o update_dirent("truncate", g)
           /\ handle' = [handle EXCEPT ![h] = g]
           /\ CountFreed(tail)
    /\ UNCHANGED <<fat, ent, fsinfo, damaged>>

(* File::truncate by growing one cluster, of which nothing is written. *)
grow(h) ==
    /\ Called /\ handle[h] # NULL /\ handle[h].size < MaxSize
    /\ LET f == handle[h]
           chain == Chain(f.first)
           old == f.size < Len(chain)
           c == IF old THEN f.first ELSE Search({})
           g == [f EXCEPT !.size = @ + 1, !.first = IF f.first = 0 THEN c ELSE f.first]
       IN  /\ c # 0
           /\ writes' = (IF old THEN <<>>
                         ELSE fat_set("extend", c, EOC)
                              \o (IF f.first = 0 THEN <<>>
                                  ELSE fat_set("extend", Last(chain), c)
                                       \o fat_set("extend", c, EOC)))
                        \o update_dirent("extend", g)
           /\ handle' = [handle EXCEPT ![h] = g]
           /\ CountAllocated(IF old THEN <<>> ELSE <<c>>)
    /\ UNCHANGED <<fat, ent, fsinfo, damaged>>

(* File::sync *)
sync_file(h) ==
    /\ Called /\ handle[h] # NULL
    /\ writes' = update_dirent("sync", handle[h])
    /\ UNCHANGED <<fat, ent, fsinfo, info, handle, damaged>>

(* File::close frees the clusters of a file of no size before it updates    *)
(* the directory.                                                           *)
close(h) ==
    /\ Called /\ handle[h] # NULL
    /\ LET f == handle[h]
           drop == f.size = 0 /\ f.first # 0
       IN  /\ writes' = (IF drop THEN fat_free_chain("close", f.first) ELSE <<>>)
                        \o update_dirent(IF drop THEN "close" ELSE "sync",
                                         IF drop THEN [f EXCEPT !.first = 0] ELSE f)
           /\ CountFreed(IF drop THEN Chain(f.first) ELSE <<>>)
    /\ handle' = [handle EXCEPT ![h] = NULL]
    /\ UNCHANGED <<fat, ent, fsinfo, damaged>>

(* Mutant of unlink: the clusters are freed before the entry is deleted. *)
unlinkFreesFirst(c) ==
    /\ Called /\ c \in Live /\ ~IsOpen(c)
    /\ ent[c].kind = "dir" => \A e \in Entries(ent[c].first) : ~IsOpen(e)
    /\ writes' = fat_free_chain("unlink", ent[c].first) \o SetEntry("unlink", c, Deleted)
    /\ CountFreed(Chain(ent[c].first))
    /\ damaged' = (damaged \/ (ent[c].kind = "dir" /\ Entries(ent[c].first) # {}))
    /\ UNCHANGED <<fat, ent, fsinfo, handle>>

(* unlink takes directories too, and what is in them with them. *)
unlink(c) ==
    /\ Called /\ c \in Live /\ ~IsOpen(c)
    /\ ent[c].kind = "dir" => \A e \in Entries(ent[c].first) : ~IsOpen(e)
    /\ writes' = SetEntry("unlink", c, Deleted) \o fat_free_chain("unlink", ent[c].first)
    /\ CountFreed(Chain(ent[c].first))
    /\ damaged' = (damaged \/ (ent[c].kind = "dir" /\ Entries(ent[c].first) # {}))
    /\ UNCHANGED <<fat, ent, fsinfo, handle>>

(* rename deletes the old entry before it looks for room for the new one:   *)
(* without room the file is gone.                                           *)
rename(c, d, name) ==
    /\ Called /\ c \in Live /\ ent[c].kind = "file" /\ ~IsOpen(c)
    /\ d \in Dirs /\ ~Exists(d, name)
    /\ writes' = SetEntry("rename", c, Deleted)
                 \o (IF Room(d, {c})
                     THEN Grow(d, {c}) \o SetEntry("rename", Slot(d, {c}), [ent[c] EXCEPT !.name = name])
                     ELSE <<>>)
    /\ CountAllocated(IF Room(d, {c}) THEN Taken(d, {c}) ELSE <<>>)
    /\ damaged' = (damaged \/ ~Room(d, {c}))
    /\ UNCHANGED <<fat, ent, fsinfo, handle>>

mkdir(name) ==
    /\ Called /\ ~Exists(Root, name) /\ Room(Root, {})
    /\ LET taken == Taken(Root, {})
           new == Search(Range(taken))
       IN  /\ new # 0
           /\ writes' = Grow(Root, {}) \o fat_set("mkdir", new, EOC)
                        \o SetEntry("mkdir", new, Free)
                        \o SetEntry("mkdir", Slot(Root, {}), Entry("dir", name, new, 0))
           /\ CountAllocated(taken \o <<new>>)
    /\ UNCHANGED <<fat, ent, fsinfo, handle, damaged>>

(* rmdir frees the clusters before it deletes the entry. *)
rmdir(c) ==
    /\ Called /\ c \in Live /\ ent[c].kind = "dir" /\ Entries(ent[c].first) = {}
    /\ writes' = fat_free_chain("rmdir", ent[c].first) \o SetEntry("rmdir", c, Deleted)
    /\ CountFreed(Chain(ent[c].first))
    /\ UNCHANGED <<fat, ent, fsinfo, handle, damaged>>

(* FileSys::sync *)
sync ==
    /\ Called /\ info.dirty
    /\ writes' = <<[op |-> "fsinfo", to |-> "info", val |-> [count |-> info.count, next |-> info.next]]>>
    /\ info' = [info EXCEPT !.dirty = FALSE]
    /\ UNCHANGED <<fat, ent, fsinfo, handle, damaged>>

-----------------------------------------------------------------------------
(* store_sector: the next sector of the call. *)
store_sector ==
    /\ writes # <<>>
    /\ writes' = Tail(writes)
    /\ LET w == Head(writes)
       IN  CASE w.to = "fat" -> fat' = [fat EXCEPT ![w.copy][w.at] = w.val]
                                /\ UNCHANGED <<ent, fsinfo>>
             [] w.to = "ent" -> ent' = [ent EXCEPT ![w.at] = w.val] /\ UNCHANGED <<fat, fsinfo>>
             [] w.to = "info" -> fsinfo' = w.val /\ UNCHANGED <<fat, ent>>
    /\ UNCHANGED <<info, handle, damaged>>

(* Power fails, and the file system is mounted again. *)
CanCrash == writes # <<>> => Head(writes).op \in CrashIn

mount ==
    /\ CanCrash
    /\ writes' = <<>>
    /\ handle' = [h \in Handles |-> NULL]
    /\ info' = [count |-> fsinfo.count,
                next |-> IF fsinfo.next \in Clusters THEN fsinfo.next ELSE Root,
                dirty |-> FALSE]
    /\ damaged' = TRUE
    /\ UNCHANGED <<fat, ent, fsinfo>>

Call ==
    \/ \E h \in Handles, d \in Clusters, n \in Names : create(h, d, n)
    \/ \E h \in Handles, c \in Clusters : open(h, c)
    \/ \E h \in Handles, p \in 0..MaxSize : write(h, p) \/ shrink(h, p)
    \/ \E h \in Handles : grow(h) \/ sync_file(h) \/ close(h)
    \/ \E c \in Clusters : unlink(c) \/ rmdir(c)
    \/ \E c, d \in Clusters, n \in Names : rename(c, d, n)
    \/ \E n \in Names : mkdir(n)
    \/ sync

Next == Call \/ store_sector \/ mount

Spec == Init /\ [][Next]_vars

-----------------------------------------------------------------------------
(* fsck, which repairs nothing: FAT32_FSCK_REPAIR is not defined.  The       *)
(* state of its scan is the marked clusters, what it reports, and whether    *)
(* the chain or directory it is in has come to its end.                      *)
Scanning == [marked |-> {}, cross_links |-> 0, mismatches |-> 0, invalid |-> 0, ended |-> FALSE]

Visit(r, c) ==
    IF r.ended THEN r
    ELSE IF c \in r.marked THEN [r EXCEPT !.cross_links = @ + 1, !.ended = TRUE]
    ELSE [r EXCEPT !.marked = @ \cup {c}]

(* Mutant of fsck_mark_chain: it looks ahead, and misses the last cluster. *)
fsck_mark_chainShort(r, start) ==
    FoldLeft(Visit, [r EXCEPT !.ended = FALSE], Front(Chain(start)))

fsck_mark_chain(r, start) == FoldLeft(Visit, [r EXCEPT !.ended = FALSE], Chain(start))

(* A file's chain, and whether it is as long as its size. *)
ScanFile(r, e) ==
    LET q == fsck_mark_chain(r, e.first)
    IN  IF e.first = 0 THEN r
        ELSE [q EXCEPT !.invalid = IF q.ended THEN @ + 1 ELSE @,
                       !.mismatches = IF Len(Chain(e.first)) < e.size THEN @ + 1 ELSE @,
                       !.ended = FALSE]

(* An entry with 0x00 ends the directory, one with 0xe5 is skipped. *)
ScanEntry(r, c) ==
    CASE ent[c].kind = "file" -> ScanFile(r, ent[c])
      [] ent[c].kind = "free" -> [r EXCEPT !.ended = TRUE]
      [] OTHER -> r

(* A directory, and the directories in it, which have none in them. *)
fsck_scan_directory(r, start) ==
    LET Walk(r0, d, Scan(_, _)) ==
            LET Step(q, c) ==
                    IF Visit(q, c).ended THEN Visit(q, c) ELSE Scan(Visit(q, c), c)
            IN  [FoldLeft(Step, [r0 EXCEPT !.ended = FALSE], Chain(d)) EXCEPT !.ended = FALSE]
        ScanAny(q, c) ==
            IF ent[c].kind = "dir" THEN Walk(q, ent[c].first, ScanEntry) ELSE ScanEntry(q, c)
    IN  Walk(r, start, ScanAny)

fsck ==
    LET r == fsck_scan_directory(Scanning, Root)
        free == {c \in Clusters : Empty(c)}
    IN  [lost |-> Cardinality((Clusters \ free) \ r.marked), cross_links |-> r.cross_links,
         mismatches |-> r.mismatches, invalid |-> r.invalid, free |-> Cardinality(free) + 2]

-----------------------------------------------------------------------------
Owned(c) == Range(Chain(ent[c].first))

(* core/fat32.cxx: "No cross-linking possible" and "Never causes another    *)
(* file to reference freed clusters".  Whenever power may fail, every       *)
(* cluster that an entry leads to is allocated and is no other entry's.     *)
NoCrossLink ==
    CanCrash => \A c \in Live :
        /\ \A x \in Owned(c) : ~Empty(x)
        /\ Root \notin Owned(c)
        /\ \A d \in Live : d # c => Owned(c) \cap Owned(d) = {}

(* "File shorter than actual chain", never longer: the size that the        *)
(* directory gives a file is within the clusters that it can reach, whatever *)
(* was written when power failed (write, update_dirent).                    *)
SizeCovered ==
    CanCrash => \A c \in Live : ent[c].size <= Cardinality(Owned(c))

(* Between calls, and until power fails or a call loses clusters on its     *)
(* own, the free count is right and no cluster is allocated that nothing    *)
(* leads to (fat_allocate, fat_free_chain and all their callers).           *)
Reachable == Range(Chain(Root)) \cup UNION {Owned(c) : c \in Live}
Allocated == {c \in Clusters : ~Empty(c)}
NothingLost ==
    Called /\ ~damaged =>
        /\ info.count = Cardinality(Clusters \ Allocated)
        /\ Allocated = Reachable

(* Between calls, whatever power failures and calls have left behind, fsck  *)
(* reports every cluster that is allocated and that nothing leads to, and   *)
(* raises no false alarm: none that is in use, no cross-link and no wrong   *)
(* size.  It counts two free clusters too many (fsck).                      *)
FsckTruthful ==
    Called => fsck = [lost |-> Cardinality(Allocated \ Reachable), cross_links |-> 0,
                      mismatches |-> 0, invalid |-> 0,
                      free |-> Cardinality(Clusters \ Allocated) + 2]
=============================================================================
