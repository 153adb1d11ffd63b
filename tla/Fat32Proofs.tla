------------------------------ MODULE Fat32Proofs ------------------------------
(***************************************************************************)
(* The file system, for every number of clusters, names, open files and     *)
(* copies of the FAT that are written, the first among them.                *)
(***************************************************************************)
EXTENDS Fat32, FiniteSetTheorems, NaturalsInduction, SequenceTheorems, TLAPS

Fat32Assumption ==
    /\ Top \in Nat /\ Root <= Top /\ Unknown \in Nat /\ Top - Root < Unknown
    /\ MaxSize \in Nat
    /\ ActiveFats \in {{0}, {0, 1}}
    /\ CrashIn \cap {"grow", "truncate", "close", "rmdir"} = {}

-----------------------------------------------------------------------------
(* The clusters that are a chain's head: 0 stands for the root directory,   *)
(* a cluster for the file or directory whose entry is in it.                *)
Heads == {0} \cup Clusters
Chains == [Heads -> Seq(Clusters)]

(* What is on the device, and in the writes. *)
Kinds == {"free", "deleted", "data", "file", "dir"}
Records ==
    {e \in [kind : Kinds, name : Names \cup {NULL}, first : Heads, size : 0..MaxSize] :
         Used(e) => e.name \in Names}
Counts == [count : 0..Unknown, next : Root..EOC]
Ops ==
    {"create", "write", "extend", "truncate", "close", "sync", "fsinfo", "unlink",
     "rename", "mkdir", "rmdir", "grow"}
FatWrites == [op : Ops, to : {"fat"}, copy : {0, 1}, at : Clusters, val : Links]
EntWrites == [op : Ops, to : {"ent"}, at : Clusters, val : Records]
InfoWrites == [op : Ops, to : {"info"}, val : Counts]
Writes == FatWrites \cup EntWrites \cup InfoWrites

(* The copy of the FAT that is read, and the entries. *)
States == [fat : [Clusters -> Links], ent : [Clusters -> Records]]
Current == [fat |-> fat[0], ent |-> ent]

(* In a sound state the chains ch are those of the root directory and of    *)
(* the entries, and each cluster is in one chain at most.                   *)
In(ch, h, c) == \E i \in 1..Len(ch[h]) : ch[h][i] = c
DirHead(s, ch, h) == h = 0 \/ (In(ch, 0, h) /\ s.ent[h].kind = "dir")
Slotted(s, ch, c) == \E h \in Heads : DirHead(s, ch, h) /\ In(ch, h, c)
Listed(s, ch, c) == Slotted(s, ch, c) /\ Used(s.ent[c])

Linked(s, ch) ==
    \A h \in Heads : \A i \in 1..Len(ch[h]) :
        s.fat[ch[h][i]] = IF i = Len(ch[h]) THEN EOC ELSE ch[h][i + 1]
Apart(ch) ==
    \A g, h \in Heads : \A i \in 1..Len(ch[g]), j \in 1..Len(ch[h]) :
        ch[g][i] = ch[h][j] => g = h /\ i = j
Rooted(ch) == Len(ch[0]) > 0 /\ ch[0][1] = Root
Headed(s, ch) ==
    \A c \in Clusters :
        IF Listed(s, ch, c) /\ s.ent[c].first # 0
        THEN Len(ch[c]) > 0 /\ ch[c][1] = s.ent[c].first
        ELSE ch[c] = <<>>
Sized(s, ch) ==
    \A c \in Clusters : Listed(s, ch, c) =>
        /\ s.ent[c].size <= Len(ch[c])
        /\ s.ent[c].kind = "dir" => In(ch, 0, c) /\ s.ent[c].first # 0
(* The slots after an entry with 0x00 have never been used. *)
FreeLast(s, ch) ==
    \A h \in Heads : DirHead(s, ch, h) =>
        \A i \in 1..(Len(ch[h]) - 1) : s.ent[ch[h][i]].kind # "free"
Sound(s, ch) ==
    /\ Linked(s, ch) /\ Apart(ch) /\ Rooted(ch) /\ Headed(s, ch) /\ Sized(s, ch)
    /\ FreeLast(s, ch)

(* The files that are open, and the clusters counted. *)
Agrees(s, ch, hd) ==
    /\ \A h \in Handles : hd[h] # NULL =>
        /\ hd[h].slot \in Clusters /\ Listed(s, ch, hd[h].slot)
        /\ s.ent[hd[h].slot].kind = "file"
        /\ hd[h].first = s.ent[hd[h].slot].first /\ hd[h].size <= Len(ch[hd[h].slot])
    /\ \A g, h \in Handles :
           hd[g] # NULL /\ hd[h] # NULL /\ hd[g].slot = hd[h].slot => g = h
Counted(s, ch, n) ==
    /\ n = Cardinality({c \in Clusters : s.fat[c] = 0})
    /\ \A c \in Clusters : s.fat[c] # 0 => \E h \in Heads : In(ch, h, c)
Settled(s, ch, hd, n, dam) ==
    Sound(s, ch) /\ Agrees(s, ch, hd) /\ (~dam => Counted(s, ch, n))

-----------------------------------------------------------------------------
(* The chains.  What is not in a chain can change, and so can an entry and  *)
(* its own chain, which no other entry then shares.                         *)
LEMMA Constants ==
    ASSUME Fat32Assumption
    PROVE  /\ Clusters \in SUBSET Nat /\ 0 \notin Clusters /\ EOC \notin Clusters
           /\ EOC # 0
           /\ Root \in Clusters /\ EOC \in Nat /\ Heads \in SUBSET Nat /\ 0 \in Heads
           /\ \A c \in Clusters : c \in Heads
BY DEF Fat32Assumption, Clusters, EOC, Root, Heads

(* A file's entry is set to lead to the chain X. *)
LEMMA FileSet ==
    ASSUME Fat32Assumption, NEW s \in States, NEW t \in States, NEW ch \in Chains,
           Sound(s, ch),
           NEW c \in Clusters, NEW X \in Seq(Clusters),
           Slotted(s, ch, c), s.ent[c].kind # "dir",
           \A i \in 1..Len(X) : t.fat[X[i]] = IF i = Len(X) THEN EOC ELSE X[i + 1],
           \A i, j \in 1..Len(X) : X[i] = X[j] => i = j,
           \A h \in Heads \ {c} : \A i \in 1..Len(X) : \A j \in 1..Len(ch[h]) :
               X[i] # ch[h][j],
           \A h \in Heads \ {c} : \A j \in 1..Len(ch[h]) :
               t.fat[ch[h][j]] = s.fat[ch[h][j]],
           \A d \in Clusters \ {c} : Slotted(s, ch, d) => t.ent[d] = s.ent[d],
           t.ent[c].kind = "file", t.ent[c].size <= Len(X),
           IF t.ent[c].first # 0 THEN Len(X) > 0 /\ X[1] = t.ent[c].first ELSE X = <<>>
    PROVE  LET u == [ch EXCEPT ![c] = X]
           IN  /\ u \in Chains /\ Sound(t, u)
               /\ \A d \in Clusters : Slotted(t, u, d) <=> Slotted(s, ch, d)
<1> DEFINE u == [ch EXCEPT ![c] = X]
<1>1. /\ Clusters \in SUBSET Nat /\ 0 \notin Clusters /\ 0 \in Heads /\ c \in Heads
      /\ c # 0
      /\ \A d \in Clusters : d \in Heads
  BY Constants
<1>2. u \in Chains /\ u[c] = X /\ \A h \in Heads \ {c} : u[h] = ch[h]
  BY <1>1 DEF Chains
<1> HIDE DEF u
<1>3. Linked(t, u)
  BY <1>1, <1>2 DEF Linked, Sound
<1>4. Apart(u)
  <2> SUFFICES ASSUME NEW g \in Heads, NEW h \in Heads,
                      NEW i \in 1..Len(u[g]), NEW j \in 1..Len(u[h]), u[g][i] = u[h][j]
               PROVE  g = h /\ i = j
    BY DEF Apart
  <2>1. Apart(ch)
    BY DEF Sound
  <2>2. CASE g = c /\ h = c
    BY <1>2, <2>2
  <2>3. CASE g = c /\ h # c
    BY <1>2, <2>3
  <2>4. CASE g # c /\ h = c
    BY <1>2, <2>4
  <2>5. CASE g # c /\ h # c
    BY <1>2, <2>1, <2>5 DEF Apart
  <2> QED BY <2>2, <2>3, <2>4, <2>5
<1>5. Rooted(u)
  BY <1>1, <1>2 DEF Rooted, Sound
<1>6. \A h \in Heads : DirHead(t, u, h) <=> DirHead(s, ch, h)
  <2>1. SUFFICES ASSUME NEW h \in Heads, h # 0
                 PROVE  DirHead(t, u, h) <=> DirHead(s, ch, h)
    BY DEF DirHead
  <2>2. In(u, 0, h) <=> In(ch, 0, h)
    BY <1>1, <1>2 DEF In
  <2>3. In(ch, 0, h) => Slotted(s, ch, h) /\ h \in Clusters
    BY <1>1, <2>1 DEF Slotted, DirHead, Heads
  <2>4. CASE h = c
    BY <2>1, <2>4 DEF DirHead
  <2>5. CASE h # c
    BY <2>2, <2>3, <2>5 DEF DirHead
  <2> QED BY <2>4, <2>5
<1>7. \A h \in Heads : DirHead(s, ch, h) => h # c
  BY <1>1 DEF DirHead
<1>8. \A d \in Clusters : Slotted(t, u, d) <=> Slotted(s, ch, d)
  BY <1>2, <1>6, <1>7 DEF Slotted, In
<1>9. Headed(t, u)
  BY <1>1, <1>2, <1>8 DEF Headed, Sound, Listed, Used
<1>10. Sized(t, u)
  <2> SUFFICES ASSUME NEW d \in Clusters, Listed(t, u, d)
               PROVE  /\ t.ent[d].size <= Len(u[d])
                      /\ t.ent[d].kind = "dir" => In(u, 0, d) /\ t.ent[d].first # 0
    BY DEF Sized
  <2>1. CASE d = c
    BY <1>2, <2>1
  <2>2. CASE d # c
    <3>1. Slotted(s, ch, d) /\ t.ent[d] = s.ent[d]
      BY <1>8, <2>2 DEF Listed
    <3>2. Listed(s, ch, d)
      BY <3>1 DEF Listed
    <3>3. /\ s.ent[d].size <= Len(ch[d])
          /\ s.ent[d].kind = "dir" => In(ch, 0, d) /\ s.ent[d].first # 0
      BY <3>2 DEF Sound, Sized
    <3>4. u[d] = ch[d] /\ u[0] = ch[0]
      BY <1>1, <1>2, <2>2
    <3> QED BY <3>1, <3>3, <3>4 DEF In
  <2> QED BY <2>1, <2>2
<1>11. FreeLast(t, u)
  <2> SUFFICES ASSUME NEW h \in Heads, DirHead(t, u, h), NEW i \in 1..(Len(u[h]) - 1)
               PROVE  t.ent[u[h][i]].kind # "free"
    BY DEF FreeLast
  <2>1. DirHead(s, ch, h) /\ u[h] = ch[h] /\ ch[h] \in Seq(Clusters)
    BY <1>2, <1>6, <1>7 DEF Chains
  <2>2. i \in 1..Len(ch[h]) /\ ch[h][i] \in Clusters
    BY <2>1
  <2>3. Slotted(s, ch, ch[h][i])
    BY <2>1, <2>2 DEF Slotted, In
  <2>4. s.ent[ch[h][i]].kind # "free"
    BY <2>1 DEF Sound, FreeLast
  <2> QED BY <2>1, <2>2, <2>3, <2>4
<1> QED BY <1>2, <1>3, <1>4, <1>5, <1>8, <1>9, <1>10, <1>11 DEF Sound, u

(* What is in no chain, and in no directory, can change. *)
LEMMA Untouched ==
    ASSUME Fat32Assumption, NEW s \in States, NEW t \in States, NEW ch \in Chains,
           Sound(s, ch),
           \A h \in Heads : \A j \in 1..Len(ch[h]) : t.fat[ch[h][j]] = s.fat[ch[h][j]],
           \A d \in Clusters : Slotted(s, ch, d) => t.ent[d] = s.ent[d]
    PROVE  Sound(t, ch) /\ \A d \in Clusters : Slotted(t, ch, d) <=> Slotted(s, ch, d)
<1>1. /\ 0 \notin Clusters /\ 0 \in Heads /\ \A d \in Clusters : d \in Heads
      /\ \A h \in Heads : h = 0 \/ h \in Clusters
  BY Constants DEF Heads
<1>2. \A h \in Heads : DirHead(t, ch, h) <=> DirHead(s, ch, h)
  <2>1. ASSUME NEW h \in Heads, In(ch, 0, h) PROVE Slotted(s, ch, h)
    BY <1>1, <2>1 DEF Slotted, DirHead
  <2> QED BY <1>1, <2>1 DEF DirHead
<1>3. \A d \in Clusters : Slotted(t, ch, d) <=> Slotted(s, ch, d)
  BY <1>2 DEF Slotted
<1>4. Linked(t, ch)
  BY DEF Linked, Sound
<1>5. Headed(t, ch) /\ Sized(t, ch)
  BY <1>3 DEF Headed, Sized, Sound, Listed
<1>6. FreeLast(t, ch)
  <2> SUFFICES ASSUME NEW h \in Heads, DirHead(t, ch, h), NEW i \in 1..(Len(ch[h]) - 1)
               PROVE  t.ent[ch[h][i]].kind # "free"
    BY DEF FreeLast
  <2>1. DirHead(s, ch, h) /\ ch[h] \in Seq(Clusters)
    BY <1>2 DEF Chains
  <2>2. i \in 1..Len(ch[h]) /\ ch[h][i] \in Clusters
    BY <2>1
  <2>3. Slotted(s, ch, ch[h][i])
    BY <2>1, <2>2 DEF Slotted, In
  <2>4. s.ent[ch[h][i]].kind # "free"
    BY <2>1 DEF Sound, FreeLast
  <2> QED BY <2>2, <2>3, <2>4
<1> QED BY <1>3, <1>4, <1>5, <1>6 DEF Sound

(* An entry is deleted, and with a directory what is in it. *)
Gone(s, ch, c) == {c} \cup {d \in Clusters : s.ent[c].kind = "dir" /\ In(ch, c, d)}

(* An entry is deleted: it and, if it is a directory, what is in it lose    *)
(* their chains.                                                            *)
LEMMA Removed ==
    ASSUME Fat32Assumption, NEW s \in States, NEW t \in States, NEW ch \in Chains,
           Sound(s, ch),
           NEW c \in Clusters, Listed(s, ch, c), t.ent[c].kind = "deleted",
           \A h \in Heads \ Gone(s, ch, c) :
               \A j \in 1..Len(ch[h]) : t.fat[ch[h][j]] = s.fat[ch[h][j]],
           \A d \in Clusters \ {c} : Slotted(s, ch, d) => t.ent[d] = s.ent[d]
    PROVE  LET u == [h \in Heads |-> IF h \in Gone(s, ch, c) THEN <<>> ELSE ch[h]]
           IN  /\ u \in Chains /\ Sound(t, u)
               /\ \A d \in Clusters :
                     Slotted(t, u, d) <=>
                         Slotted(s, ch, d) /\ ~(s.ent[c].kind = "dir" /\ In(ch, c, d))
<1> DEFINE G == Gone(s, ch, c)
           u == [h \in Heads |-> IF h \in G THEN <<>> ELSE ch[h]]
           Inside(d) == s.ent[c].kind = "dir" /\ In(ch, c, d)
<1>1. /\ 0 \notin Clusters /\ 0 \in Heads /\ c \in Heads /\ c # 0
      /\ \A d \in Clusters : d \in Heads
      /\ \A h \in Heads : h = 0 \/ h \in Clusters
  BY Constants DEF Heads
<1>2. u \in Chains
  BY DEF Chains
<1>3. \A h \in Heads : u[h] = IF h \in G THEN <<>> ELSE ch[h]
  OBVIOUS
<1>4. G \in SUBSET Clusters /\ c \in G /\ 0 \notin G
  BY <1>1 DEF Gone
<1>5. \A d \in G : d = c \/ (s.ent[c].kind = "dir" /\ In(ch, c, d))
  BY DEF Gone
<1> HIDE DEF G, u
<1>6. Linked(t, u)
  BY <1>3 DEF Linked, Sound, G
<1>7. Apart(u)
  BY <1>3 DEF Apart, Sound
<1>8. Rooted(u)
  BY <1>1, <1>3, <1>4 DEF Rooted, Sound
<1>9. \A h, g \in Heads : \A d : In(ch, h, d) /\ In(ch, g, d) => h = g
  BY DEF In, Apart, Sound
<1>10. ASSUME NEW h \in Heads PROVE DirHead(t, u, h) <=> DirHead(s, ch, h) /\ h # c
  <2>1. CASE h = 0
    BY <1>1, <2>1 DEF DirHead
  <2>2. CASE h # 0
    <3>1. In(u, 0, h) <=> In(ch, 0, h)
      BY <1>1, <1>3, <1>4 DEF In
    <3>2. In(ch, 0, h) => Slotted(s, ch, h)
      BY <1>1 DEF Slotted, DirHead
    <3> QED BY <1>1, <2>2, <3>1, <3>2 DEF DirHead
  <2> QED BY <2>1, <2>2
<1>11. ASSUME NEW h \in Heads, DirHead(s, ch, h), h # c PROVE h \notin G /\ u[h] = ch[h]
  <2>1. CASE h = 0
    BY <1>3, <1>4, <2>1
  <2>2. CASE h # 0
    <3>1. In(ch, 0, h)
      BY <1>11, <2>2 DEF DirHead
    <3>2. ~In(ch, c, h)
      BY <1>1, <1>9, <3>1
    <3> QED BY <1>3, <1>5, <1>11, <3>2
  <2> QED BY <2>1, <2>2
<1>12. ASSUME NEW d \in Clusters
       PROVE  Slotted(t, u, d) <=> Slotted(s, ch, d) /\ ~Inside(d)
  <2>1. ASSUME Slotted(t, u, d) PROVE Slotted(s, ch, d) /\ ~Inside(d)
    <3>1. PICK h \in Heads : DirHead(t, u, h) /\ In(u, h, d)
      BY <2>1 DEF Slotted
    <3>2. DirHead(s, ch, h) /\ h # c /\ In(ch, h, d)
      BY <1>10, <1>11, <3>1 DEF In
    <3> QED BY <1>1, <1>9, <3>2 DEF Slotted, Inside
  <2>2. ASSUME Slotted(s, ch, d), ~Inside(d) PROVE Slotted(t, u, d)
    <3>1. PICK h \in Heads : DirHead(s, ch, h) /\ In(ch, h, d)
      BY <2>2 DEF Slotted
    <3>2. h # c
      BY <1>1, <2>2, <3>1 DEF DirHead, Inside
    <3>3. DirHead(t, u, h) /\ In(u, h, d)
      BY <1>10, <1>11, <3>1, <3>2 DEF In
    <3> QED BY <3>3 DEF Slotted
  <2> QED BY <2>1, <2>2
<1>13. ASSUME NEW d \in Clusters
       PROVE  /\ Listed(t, u, d) =>
                     Listed(s, ch, d) /\ d \notin G /\ t.ent[d] = s.ent[d]
              /\ Listed(s, ch, d) /\ d \notin G => Listed(t, u, d)
  <2>1. Listed(t, u, d) => d # c
    BY DEF Listed, Used
  <2>2. d \in G <=> d = c \/ Inside(d)
    BY DEF G, Gone, Inside
  <2> QED BY <1>12, <2>1, <2>2 DEF Listed
<1>14. Headed(t, u)
  BY <1>1, <1>3, <1>13 DEF Headed, Sound
<1>15. Sized(t, u)
  <2> SUFFICES ASSUME NEW d \in Clusters, Listed(t, u, d)
               PROVE  /\ t.ent[d].size <= Len(u[d])
                      /\ t.ent[d].kind = "dir" => In(u, 0, d) /\ t.ent[d].first # 0
    BY DEF Sized
  <2>1. /\ Listed(s, ch, d) /\ d \notin G /\ t.ent[d] = s.ent[d] /\ u[d] = ch[d]
        /\ u[0] = ch[0]
    BY <1>1, <1>3, <1>4, <1>13
  <2> QED BY <2>1 DEF Sized, Sound, In
<1>16. FreeLast(t, u)
  <2> SUFFICES ASSUME NEW h \in Heads, DirHead(t, u, h), NEW i \in 1..(Len(u[h]) - 1)
               PROVE  t.ent[u[h][i]].kind # "free"
    BY DEF FreeLast
  <2>1. DirHead(s, ch, h) /\ u[h] = ch[h] /\ ch[h] \in Seq(Clusters)
    BY <1>10, <1>11 DEF Chains
  <2>2. i \in 1..Len(ch[h]) /\ ch[h][i] \in Clusters
    BY <2>1
  <2>3. Slotted(s, ch, ch[h][i])
    BY <2>1, <2>2 DEF Slotted, In
  <2>4. s.ent[ch[h][i]].kind # "free"
    BY <2>1 DEF Sound, FreeLast
  <2> QED BY <2>1, <2>2, <2>3, <2>4
<1> QED BY <1>2, <1>6, <1>7, <1>8, <1>12, <1>14, <1>15, <1>16 DEF Sound, u, G, Inside

(* A directory is made in the root, of a cluster of its own. *)
MadeDir(s, t, ch, c, n) ==
    /\ In(ch, 0, c) /\ ~Used(s.ent[c])
    /\ \A h \in Heads : \A j \in 1..Len(ch[h]) :
           ch[h][j] # n /\ t.fat[ch[h][j]] = s.fat[ch[h][j]]
    /\ \A d \in Clusters \ {c} : Slotted(s, ch, d) => t.ent[d] = s.ent[d]
    /\ t.fat[n] = EOC /\ t.ent[n].kind = "free"
    /\ t.ent[c].kind = "dir" /\ t.ent[c].first = n /\ t.ent[c].size = 0
DirAdded(s, t, ch, u, c, n) ==
    /\ Sound(t, u) /\ u[c] = << n >> /\ \A h \in Heads \ {c} : u[h] = ch[h]
    /\ \A d \in Clusters : Slotted(t, u, d) <=> Slotted(s, ch, d) \/ d = n

(* A directory gets its entry, and a cluster of its own without entries. *)
LEMMA DirMade ==
    ASSUME Fat32Assumption, NEW s \in States, NEW t \in States, NEW ch \in Chains,
           Sound(s, ch),
           NEW c \in Clusters, NEW n \in Clusters, MadeDir(s, t, ch, c, n)
    PROVE  \E u \in Chains : DirAdded(s, t, ch, u, c, n)
<1>1. /\ In(ch, 0, c) /\ ~Used(s.ent[c])
      /\ \A h \in Heads : \A j \in 1..Len(ch[h]) :
             ch[h][j] # n /\ t.fat[ch[h][j]] = s.fat[ch[h][j]]
      /\ \A d \in Clusters \ {c} : Slotted(s, ch, d) => t.ent[d] = s.ent[d]
      /\ t.fat[n] = EOC /\ t.ent[n].kind = "free"
      /\ t.ent[c].kind = "dir" /\ t.ent[c].first = n /\ t.ent[c].size = 0
  BY DEF MadeDir
<1> DEFINE u == [ch EXCEPT ![c] = <<n>>]
<1>2. /\ Clusters \in SUBSET Nat /\ 0 \notin Clusters /\ 0 \in Heads /\ c \in Heads
      /\ c # 0
      /\ \A d \in Clusters : d \in Heads
      /\ \A h \in Heads : h = 0 \/ h \in Clusters
  BY Constants DEF Heads
<1>3. u \in Chains /\ u[c] = <<n>> /\ \A h \in Heads \ {c} : u[h] = ch[h]
  BY <1>2 DEF Chains
<1> HIDE DEF u
<1>4. Slotted(s, ch, c) /\ ch[c] = <<>> /\ n # c
  <2>1. Slotted(s, ch, c) /\ n # c
    BY <1>1, <1>2 DEF Slotted, DirHead, In
  <2> QED BY <1>1, <2>1 DEF Headed, Sound, Listed
<1>5. Linked(t, u)
  BY <1>1, <1>2, <1>3 DEF Linked, Sound
<1>6. Apart(u)
  <2> SUFFICES ASSUME NEW g \in Heads, NEW h \in Heads,
                      NEW i \in 1..Len(u[g]), NEW j \in 1..Len(u[h]), u[g][i] = u[h][j]
               PROVE  g = h /\ i = j
    BY DEF Apart
  <2>1. Apart(ch)
    BY DEF Sound
  <2>2. CASE g = c /\ h = c
    BY <1>3, <2>2
  <2>3. CASE g = c /\ h # c
    BY <1>1, <1>3, <2>3
  <2>4. CASE g # c /\ h = c
    BY <1>1, <1>3, <2>4
  <2>5. CASE g # c /\ h # c
    BY <1>3, <2>1, <2>5 DEF Apart
  <2> QED BY <2>2, <2>3, <2>4, <2>5
<1>7. Rooted(u)
  BY <1>2, <1>3 DEF Rooted, Sound
<1>8. ASSUME NEW h \in Heads PROVE DirHead(t, u, h) <=> DirHead(s, ch, h) \/ h = c
  <2>1. CASE h = 0
    BY <1>2, <2>1 DEF DirHead
  <2>2. CASE h # 0
    <3>1. In(u, 0, h) <=> In(ch, 0, h)
      BY <1>2, <1>3 DEF In
    <3>2. In(ch, 0, h) => Slotted(s, ch, h)
      BY <1>2 DEF Slotted, DirHead
    <3> QED BY <1>1, <1>2, <2>2, <3>1, <3>2 DEF DirHead
  <2> QED BY <2>1, <2>2
<1>9. ~DirHead(s, ch, c)
  BY <1>1, <1>2 DEF DirHead, Used
<1>10. ASSUME NEW d \in Clusters PROVE Slotted(t, u, d) <=> Slotted(s, ch, d) \/ d = n
  <2>1. In(u, c, d) <=> d = n
    BY <1>3 DEF In
  <2>2. \A h \in Heads \ {c} : In(u, h, d) <=> In(ch, h, d)
    BY <1>3 DEF In
  <2> QED BY <1>2, <1>8, <1>9, <2>1, <2>2 DEF Slotted
<1>11. ~Slotted(s, ch, n)
  BY <1>1 DEF Slotted, In
<1>12. Headed(t, u)
  <2> SUFFICES ASSUME NEW d \in Clusters
               PROVE  IF Listed(t, u, d) /\ t.ent[d].first # 0
                      THEN Len(u[d]) > 0 /\ u[d][1] = t.ent[d].first
                      ELSE u[d] = <<>>
    BY DEF Headed
  <2>1. CASE d = c
    <3>1. Listed(t, u, c) /\ t.ent[c].first = n /\ n # 0
      BY <1>1, <1>2, <1>4, <1>10 DEF Listed, Used
    <3>2. Len(u[c]) = 1 /\ u[c][1] = n
      BY <1>3
    <3> QED BY <2>1, <3>1, <3>2
  <2>2. CASE d # c
    <3>1. u[d] = ch[d] /\ d \in Heads
      BY <1>2, <1>3, <2>2
    <3>2. Listed(t, u, d) /\ t.ent[d].first # 0 <=>
              Listed(s, ch, d) /\ s.ent[d].first # 0
      BY <1>1, <1>10, <1>11, <2>2 DEF Listed, Used
    <3>3. Listed(t, u, d) => t.ent[d] = s.ent[d]
      BY <1>1, <1>10, <2>2 DEF Listed, Used
    <3> QED BY <3>1, <3>2, <3>3 DEF Headed, Sound
  <2> QED BY <2>1, <2>2
<1>13. Sized(t, u)
  <2> SUFFICES ASSUME NEW d \in Clusters, Listed(t, u, d)
               PROVE  /\ t.ent[d].size <= Len(u[d])
                      /\ t.ent[d].kind = "dir" => In(u, 0, d) /\ t.ent[d].first # 0
    BY DEF Sized
  <2>1. u[0] = ch[0]
    BY <1>2, <1>3
  <2>2. CASE d = c
    BY <1>1, <1>2, <1>3, <2>1, <2>2 DEF In
  <2>3. CASE d # c
    <3>1. d # n /\ Listed(s, ch, d) /\ t.ent[d] = s.ent[d] /\ u[d] = ch[d]
      BY <1>1, <1>2, <1>3, <1>10, <2>3 DEF Listed, Used
    <3> QED BY <2>1, <3>1 DEF Sized, Sound, In
  <2> QED BY <2>2, <2>3
<1>14. FreeLast(t, u)
  <2> SUFFICES ASSUME NEW h \in Heads, DirHead(t, u, h), NEW i \in 1..(Len(u[h]) - 1)
               PROVE  t.ent[u[h][i]].kind # "free"
    BY DEF FreeLast
  <2>1. h # c
    <3>1. Len(u[c]) = 1 /\ i \in 1..(Len(u[h]) - 1)
      BY <1>3
    <3>2. SUFFICES ASSUME h = c PROVE FALSE
      OBVIOUS
    <3>3. Len(u[h]) - 1 = 0
      BY <3>1, <3>2
    <3>4. i \in 1..0
      BY <3>1, <3>3
    <3> QED BY <3>4
  <2>2. DirHead(s, ch, h) /\ u[h] = ch[h] /\ ch[h] \in Seq(Clusters)
    BY <1>3, <1>8, <2>1 DEF Chains
  <2>3. i \in 1..Len(ch[h]) /\ ch[h][i] \in Clusters
    BY <2>2
  <2>4. Slotted(s, ch, ch[h][i])
    BY <2>2, <2>3 DEF Slotted, In
  <2>5. s.ent[ch[h][i]].kind # "free"
    BY <2>2 DEF Sound, FreeLast
  <2> QED BY <1>1, <2>2, <2>3, <2>4, <2>5
<1> QED BY <1>1, <1>3, <1>5, <1>6, <1>7, <1>10, <1>12, <1>13, <1>14 DEF Sound, DirAdded

(* A directory without a free slot grows by a cluster, which is linked to   *)
(* its last one.                                                            *)
LinkedOn(s, t, ch, k, n, last) ==
    /\ DirHead(s, ch, k) /\ last = ch[k][Len(ch[k])] /\ s.ent[last].kind # "free"
    /\ \A h \in Heads : \A j \in 1..Len(ch[h]) :
           ch[h][j] # n /\ (ch[h][j] # last => t.fat[ch[h][j]] = s.fat[ch[h][j]])
    /\ \A d \in Clusters : Slotted(s, ch, d) => t.ent[d] = s.ent[d]
    /\ t.fat[n] = EOC /\ t.fat[last] = n /\ t.ent[n].kind = "free"
GrownBy(s, t, ch, k, n, u) ==
    /\ Sound(t, u) /\ u[k] = Append(ch[k], n)
    /\ \A h \in Heads \ {k} : u[h] = ch[h]
    /\ \A d \in Clusters : Slotted(t, u, d) <=> Slotted(s, ch, d) \/ d = n
LEMMA DirGrown ==
    ASSUME Fat32Assumption, NEW s \in States, NEW t \in States, NEW ch \in Chains,
           Sound(s, ch), NEW k \in Heads, NEW n \in Clusters, NEW last,
           LinkedOn(s, t, ch, k, n, last)
    PROVE  \E u \in Chains : GrownBy(s, t, ch, k, n, u)
<1> SUFFICES
      ASSUME DirHead(s, ch, k), last = ch[k][Len(ch[k])], s.ent[last].kind # "free",
             \A h \in Heads : \A j \in 1..Len(ch[h]) :
                 ch[h][j] # n /\ (ch[h][j] # last => t.fat[ch[h][j]] = s.fat[ch[h][j]]),
             \A d \in Clusters : Slotted(s, ch, d) => t.ent[d] = s.ent[d],
             t.fat[n] = EOC, t.fat[last] = n, t.ent[n].kind = "free"
      PROVE  \E u \in Chains :
                 /\ Sound(t, u) /\ u[k] = Append(ch[k], n)
                 /\ \A h \in Heads \ {k} : u[h] = ch[h]
                 /\ \A d \in Clusters : Slotted(t, u, d) <=> Slotted(s, ch, d) \/ d = n
  BY DEF LinkedOn, GrownBy
<1> DEFINE u == [ch EXCEPT ![k] = Append(@, n)]
           m == Len(ch[k])
<1>1. /\ Clusters \in SUBSET Nat /\ 0 \notin Clusters /\ 0 \in Heads
      /\ \A d \in Clusters : d \in Heads
      /\ \A h \in Heads : h = 0 \/ h \in Clusters
  BY Constants DEF Heads
<1>2. /\ u \in Chains /\ u[k] = Append(ch[k], n) /\ \A h \in Heads \ {k} : u[h] = ch[h]
      /\ \A h \in Heads : ch[h] \in Seq(Clusters) /\ u[h] \in Seq(Clusters)
  BY <1>1 DEF Chains
<1>3. /\ m \in Nat /\ Len(u[k]) = m + 1 /\ u[k][m + 1] = n
      /\ \A i \in 1..m : u[k][i] = ch[k][i]
  BY <1>2
<1> HIDE DEF u
<1>4. \A g \in Heads : \A i \in 1..Len(u[g]) :
         \/ g = k /\ i = m + 1 /\ u[g][i] = n
         \/ i \in 1..Len(ch[g]) /\ u[g][i] = ch[g][i]
  <2> SUFFICES ASSUME NEW g \in Heads, NEW i \in 1..Len(u[g])
               PROVE  \/ g = k /\ i = m + 1 /\ u[g][i] = n
                      \/ i \in 1..Len(ch[g]) /\ u[g][i] = ch[g][i]
    OBVIOUS
  <2>1. CASE g = k
    <3>1. i \in 1..(m + 1)
      BY <1>3, <2>1
    <3>2. i = m + 1 \/ i \in 1..m
      BY <1>3, <3>1
    <3> QED BY <1>3, <2>1, <3>2
  <2>2. CASE g # k
    BY <1>2, <2>2
  <2> QED BY <2>1, <2>2
<1>5. \A g \in Heads : \A i \in 1..Len(ch[g]) : i \in 1..Len(u[g]) /\ u[g][i] = ch[g][i]
  <2> SUFFICES ASSUME NEW g \in Heads, NEW i \in 1..Len(ch[g])
               PROVE  i \in 1..Len(u[g]) /\ u[g][i] = ch[g][i]
    OBVIOUS
  <2>1. CASE g = k
    BY <1>3, <2>1
  <2>2. CASE g # k
    BY <1>2, <2>2
  <2> QED BY <2>1, <2>2
<1>6. m > 0
  <2>1. CASE k = 0
    BY <2>1 DEF Sound, Rooted
  <2>2. CASE k # 0
    <3>1. k \in Clusters /\ In(ch, 0, k) /\ s.ent[k].kind = "dir"
      BY <1>1, <2>2 DEF DirHead
    <3>2. Listed(s, ch, k)
      BY <1>1, <3>1 DEF Listed, Slotted, DirHead, Used
    <3> QED BY <3>1, <3>2 DEF Sound, Headed, Sized
  <2> QED BY <2>1, <2>2
<1>7. last \in Clusters /\ last # n
  BY <1>2, <1>3, <1>6
<1> HIDE DEF m
<1>8. ASSUME NEW h \in Heads, h # k, NEW j \in 1..Len(ch[h]) PROVE ch[h][j] # last
  BY <1>3, <1>6, <1>8 DEF Apart, Sound, m
<1>9. ASSUME NEW j \in 1..(m - 1) PROVE ch[k][j] # last
  BY <1>3, <1>6 DEF Apart, Sound, m
<1>10. Linked(t, u)
  <2> SUFFICES ASSUME NEW h \in Heads, NEW i \in 1..Len(u[h])
               PROVE  t.fat[u[h][i]] = IF i = Len(u[h]) THEN EOC ELSE u[h][i + 1]
    BY DEF Linked
  <2>1. Linked(s, ch)
    BY DEF Sound
  <2>2. CASE h # k
    <3>1. u[h] = ch[h]
      BY <1>2, <2>2
    <3>2. i \in 1..Len(ch[h])
      BY <3>1
    <3>3. t.fat[ch[h][i]] = s.fat[ch[h][i]]
      BY <1>8, <2>2, <3>2
    <3>4. s.fat[ch[h][i]] = IF i = Len(ch[h]) THEN EOC ELSE ch[h][i + 1]
      BY ONLY h \in Heads, <2>1, <3>2 DEF Linked
    <3> QED BY <3>1, <3>3, <3>4
  <2>3. CASE h = k /\ i = m + 1
    BY <1>3, <2>3
  <2>4. CASE h = k /\ i = m
    BY <1>3, <1>6, <2>4 DEF m
  <2>5. CASE h = k /\ i \in 1..(m - 1)
    <3>1. t.fat[ch[k][i]] = s.fat[ch[k][i]]
      BY <1>3, <1>9, <2>5 DEF m
    <3>2. s.fat[ch[k][i]] = ch[k][i + 1]
      BY <1>3, <2>1, <2>5 DEF Linked, m
    <3>3. u[k][i] = ch[k][i] /\ u[k][i + 1] = ch[k][i + 1]
      BY <1>3, <2>5
    <3> QED BY <1>3, <2>5, <3>1, <3>2, <3>3
  <2> QED BY <1>3, <2>2, <2>3, <2>4, <2>5
<1>11. Apart(u)
  <2> SUFFICES ASSUME NEW g \in Heads, NEW h \in Heads,
                      NEW i \in 1..Len(u[g]), NEW j \in 1..Len(u[h]), u[g][i] = u[h][j]
               PROVE  g = h /\ i = j
    BY DEF Apart
  <2>1. Apart(ch)
    BY DEF Sound
  <2>2. \/ g = k /\ i = m + 1 /\ u[g][i] = n
        \/ i \in 1..Len(ch[g]) /\ u[g][i] = ch[g][i]
    BY <1>4
  <2>3. \/ h = k /\ j = m + 1 /\ u[h][j] = n
        \/ j \in 1..Len(ch[h]) /\ u[h][j] = ch[h][j]
    BY <1>4
  <2>4. CASE g = k /\ i = m + 1 /\ u[g][i] = n
    BY <2>3, <2>4
  <2>5. CASE h = k /\ j = m + 1 /\ u[h][j] = n
    BY <2>2, <2>5
  <2>6. CASE /\ i \in 1..Len(ch[g]) /\ u[g][i] = ch[g][i]
             /\ j \in 1..Len(ch[h]) /\ u[h][j] = ch[h][j]
    <3>1. ch[g][i] = ch[h][j]
      BY <2>6
    <3> QED BY ONLY g \in Heads, h \in Heads, <2>1, <2>6, <3>1 DEF Apart
  <2> QED BY <2>2, <2>3, <2>4, <2>5, <2>6
<1>12. ASSUME NEW h \in Heads, NEW d
       PROVE  In(u, h, d) <=> In(ch, h, d) \/ (h = k /\ d = n)
  <2>1. In(u, h, d) => In(ch, h, d) \/ (h = k /\ d = n)
    BY <1>4 DEF In
  <2>2. In(ch, h, d) => In(u, h, d)
    BY <1>5 DEF In
  <2>3. In(u, k, n)
    BY <1>3 DEF In
  <2> QED BY <2>1, <2>2, <2>3
<1>13. Rooted(u)
  <2>1. 1 \in 1..Len(ch[0]) /\ ch[0][1] = Root
    BY <1>1, <1>2 DEF Rooted, Sound
  <2>2. 1 \in 1..Len(u[0]) /\ u[0][1] = Root
    BY <1>1, <1>5, <2>1
  <2> QED BY <2>2 DEF Rooted
<1>14. ~Slotted(s, ch, n)
  BY DEF Slotted, In
<1>15. ASSUME NEW h \in Heads PROVE DirHead(t, u, h) <=> DirHead(s, ch, h)
  <2>1. CASE h = 0
    BY <2>1 DEF DirHead
  <2>2. CASE h # 0
    <3>1. In(ch, 0, h) => Slotted(s, ch, h)
      BY <1>1 DEF Slotted, DirHead
    <3> QED BY <1>1, <1>12, <1>14, <2>2, <3>1 DEF DirHead
  <2> QED BY <2>1, <2>2
<1>16. ASSUME NEW d \in Clusters PROVE Slotted(t, u, d) <=> Slotted(s, ch, d) \/ d = n
  BY <1>12, <1>15 DEF Slotted
<1>17. ASSUME NEW d \in Clusters PROVE Listed(t, u, d) <=> Listed(s, ch, d)
  BY <1>14, <1>16 DEF Listed, Used
<1>18. Headed(t, u)
  <2> SUFFICES ASSUME NEW c \in Clusters
               PROVE  IF Listed(t, u, c) /\ t.ent[c].first # 0
                      THEN Len(u[c]) > 0 /\ u[c][1] = t.ent[c].first ELSE u[c] = <<>>
    BY DEF Headed
  <2>1. Listed(s, ch, c) => t.ent[c] = s.ent[c]
    BY DEF Listed
  <2>2. IF Listed(s, ch, c) /\ s.ent[c].first # 0
        THEN Len(ch[c]) > 0 /\ ch[c][1] = s.ent[c].first ELSE ch[c] = <<>>
    BY DEF Headed, Sound
  <2>3. CASE c = k
    BY <1>3, <1>6, <1>17, <2>1, <2>2, <2>3 DEF m
  <2>4. CASE c # k
    BY <1>1, <1>2, <1>17, <2>1, <2>2, <2>4
  <2> QED BY <2>3, <2>4
<1>19. Sized(t, u)
  <2> SUFFICES ASSUME NEW d \in Clusters, Listed(t, u, d)
               PROVE  /\ t.ent[d].size <= Len(u[d])
                      /\ t.ent[d].kind = "dir" => In(u, 0, d) /\ t.ent[d].first # 0
    BY DEF Sized
  <2>1. Listed(s, ch, d) /\ t.ent[d] = s.ent[d] /\ s.ent[d].size \in Nat
    BY <1>17 DEF Listed, States, Records, Fat32Assumption
  <2>2. Len(u[d]) \in Nat /\ Len(ch[d]) \in Nat
    BY <1>1, <1>2
  <2>3. Len(u[d]) >= Len(ch[d])
    <3>1. CASE d = k
      <4>1. Len(u[k]) = Len(ch[k]) + 1
        BY <1>3 DEF m
      <4> QED BY <2>2, <3>1, <4>1
    <3>2. CASE d # k
      <4>1. u[d] = ch[d]
        BY <1>1, <1>2, <3>2
      <4> QED BY <2>2, <4>1
    <3> QED BY <3>1, <3>2
  <2>4. /\ s.ent[d].size <= Len(ch[d])
        /\ (s.ent[d].kind = "dir" => In(ch, 0, d) /\ s.ent[d].first # 0)
    BY <2>1 DEF Sized, Sound
  <2>5. s.ent[d].size <= Len(u[d])
    BY ONLY <2>1, <2>2, <2>3, <2>4
  <2>6. s.ent[d].kind = "dir" => In(u, 0, d)
    BY <1>1, <1>12, <2>4
  <2> QED BY <2>1, <2>4, <2>5, <2>6
<1>20. FreeLast(t, u)
  <2> SUFFICES ASSUME NEW h \in Heads, DirHead(t, u, h), NEW i \in 1..(Len(u[h]) - 1)
               PROVE  t.ent[u[h][i]].kind # "free"
    BY DEF FreeLast
  <2>1. DirHead(s, ch, h) /\ ch[h] \in Seq(Clusters) /\ FreeLast(s, ch)
    BY <1>2, <1>15 DEF Sound
  <2>2. i \in 1..Len(ch[h]) /\ u[h][i] = ch[h][i]
    <3>1. CASE h = k
      <4>1. i \in 1..m
        BY <1>3, <3>1
      <4> QED BY <1>3, <3>1, <4>1 DEF m
    <3>2. CASE h # k
      BY <1>2, <2>1, <3>2
    <3> QED BY <3>1, <3>2
  <2>3. ch[h][i] \in Clusters /\ Slotted(s, ch, ch[h][i])
    BY <2>1, <2>2 DEF Slotted, In
  <2>4. s.ent[ch[h][i]].kind # "free"
    <3>1. CASE h = k /\ i = m
      BY <3>1 DEF m
    <3>2. CASE h # k \/ i # m
      <4>1. i \in 1..(Len(ch[h]) - 1)
        BY <1>2, <1>3, <2>1, <2>2, <3>2 DEF m
      <4> QED BY <2>1, <4>1 DEF FreeLast
    <3> QED BY <3>1, <3>2
  <2> QED BY <2>2, <2>3, <2>4
<1> QED BY <1>2, <1>10, <1>11, <1>13, <1>16, <1>18, <1>19, <1>20 DEF Sound

-----------------------------------------------------------------------------
(* The writes w lead from a device in the state s to one in the state t if  *)
(* it is safe whenever power may fail on the way.                           *)
Safe(s) == \E ch \in Chains : Sound(s, ch)
Stored(s, w) ==
    IF w.to = "fat" /\ w.copy = 0
    THEN [fat |-> [s.fat EXCEPT ![w.at] = w.val], ent |-> s.ent]
    ELSE IF w.to = "ent" THEN [fat |-> s.fat, ent |-> [s.ent EXCEPT ![w.at] = w.val]]
    ELSE s
Path(st, s, w, t) ==
    /\ st[0] = s /\ st[Len(w)] = t
    /\ \A i \in 1..Len(w) :
          st[i] = Stored(st[i - 1], w[i]) /\ (w[i].op \in CrashIn => Safe(st[i - 1]))
Leads(s, w, t) == \E st \in [0..Len(w) -> States] : Path(st, s, w, t)

(* A write keeps the device in its type. *)
LEMMA StoredTyped ==
    ASSUME NEW s \in States, NEW w \in Writes
    PROVE  Stored(s, w) \in States
<1>1. CASE w \in FatWrites
  BY <1>1 DEF FatWrites, Stored, States
<1>2. CASE w \in EntWrites
  BY <1>2 DEF EntWrites, Stored, States
<1>3. CASE w \in InfoWrites
  BY <1>3 DEF InfoWrites, Stored, States
<1> QED BY <1>1, <1>2, <1>3 DEF Writes

(* No writes lead nowhere. *)
LEMMA LeadsNone ==
    ASSUME NEW s \in States, NEW t
    PROVE  Leads(s, <<>>, t) <=> t = s
<1>1. Len(<<>>) = 0
  OBVIOUS
<1>2. Leads(s, <<>>, t) => t = s
  BY <1>1 DEF Leads, Path
<1>3. Path([i \in 0..0 |-> s], s, <<>>, s)
  BY <1>1 DEF Path
<1>4. [i \in 0..0 |-> s] \in [0..Len(<<>>) -> States]
  BY <1>1
<1> QED BY <1>2, <1>3, <1>4 DEF Leads

(* One write leads to the state with it stored. *)
LEMMA LeadsOne ==
    ASSUME NEW s \in States, NEW w \in Writes, w.op \in CrashIn => Safe(s)
    PROVE  Leads(s, << w >>, Stored(s, w))
<1> DEFINE st == [i \in 0..1 |-> IF i = 0 THEN s ELSE Stored(s, w)]
<1>1. Len(<< w >>) = 1 /\ << w >>[1] = w
  OBVIOUS
<1>2. st \in [0..1 -> States]
  BY StoredTyped
<1>3. Path(st, s, << w >>, Stored(s, w))
  BY <1>1 DEF Path
<1> QED BY <1>1, <1>2, <1>3 DEF Leads

(* Writes that follow each other lead on. *)
LEMMA LeadsConcat ==
    ASSUME NEW s, NEW t, NEW u, NEW w \in Seq(Writes), NEW v \in Seq(Writes),
           Leads(s, w, t), Leads(t, v, u)
    PROVE  Leads(s, w \o v, u)
<1> DEFINE m == Len(w)
           n == Len(v)
<1>1. PICK f \in [0..m -> States] : Path(f, s, w, t)
  BY DEF Leads
<1>2. PICK g \in [0..n -> States] : Path(g, t, v, u)
  BY DEF Leads
<1> DEFINE st == [i \in 0..(m + n) |-> IF i <= m THEN f[i] ELSE g[i - m]]
<1>3. m \in Nat /\ n \in Nat /\ Len(w \o v) = m + n
  OBVIOUS
<1>4. st \in [0..(m + n) -> States]
  BY <1>3
<1>5. \A i \in 0..m : st[i] = f[i]
  BY <1>3
<1>6. \A i \in 0..n : st[m + i] = g[i]
  <2> SUFFICES ASSUME NEW i \in 0..n PROVE st[m + i] = g[i]
    OBVIOUS
  <2>1. CASE i = 0
    <3>1. f[m] = t /\ g[0] = t
      BY <1>1, <1>2 DEF Path
    <3> QED BY <1>3, <2>1, <3>1
  <2>2. CASE i > 0
    BY <1>3, <2>2
  <2> QED BY <2>1, <2>2
<1> HIDE DEF st
<1>7. ASSUME NEW i \in 1..(m + n)
      PROVE  /\ st[i] = Stored(st[i - 1], (w \o v)[i])
             /\ (w \o v)[i].op \in CrashIn => Safe(st[i - 1])
  <2>1. CASE i <= m
    <3>1. i \in 1..m /\ i - 1 \in 0..m /\ i \in 0..m /\ (w \o v)[i] = w[i]
      BY <1>3, <2>1
    <3>2. st[i] = f[i] /\ st[i - 1] = f[i - 1]
      BY <1>5, <3>1
    <3> QED BY <1>1, <3>1, <3>2 DEF Path
  <2>2. CASE i > m
    <3> DEFINE j == i - m
    <3>1. j \in 1..n /\ j - 1 \in 0..n /\ j \in 0..n /\ (w \o v)[i] = v[j]
      BY <1>3, <2>2
    <3>2. i = m + j /\ i - 1 = m + (j - 1)
      BY <1>3
    <3>3. st[i] = g[j] /\ st[i - 1] = g[j - 1]
      BY <1>6, <3>1, <3>2
    <3> HIDE DEF j
    <3> QED BY <1>2, <3>1, <3>3 DEF Path
  <2> QED BY <1>3, <2>1, <2>2
<1>8. st[0] = s /\ st[m + n] = u
  BY <1>1, <1>2, <1>3, <1>5, <1>6 DEF Path
<1>9. Path(st, s, w \o v, u)
  BY <1>3, <1>7, <1>8 DEF Path
<1> QED BY <1>3, <1>4, <1>9 DEF Leads

(* The same, where the states need not be typed to cite it. *)
LEMMA LeadsOn ==
    ASSUME NEW s, NEW t, NEW u, NEW w, NEW v, w \in Seq(Writes), v \in Seq(Writes),
           Leads(s, w, t), Leads(t, v, u)
    PROVE  w \o v \in Seq(Writes) /\ Leads(s, w \o v, u)
BY LeadsConcat

(* What is left of the writes leads on from the first one stored. *)
LEMMA LeadsStep ==
    ASSUME NEW s, NEW t, NEW w \in Seq(Writes), w # <<>>, Leads(s, w, t)
    PROVE  /\ Leads(Stored(s, Head(w)), Tail(w), t)
           /\ Head(w).op \in CrashIn => Safe(s)
<1> DEFINE n == Len(w)
<1>1. PICK f \in [0..n -> States] : Path(f, s, w, t)
  BY DEF Leads
<1> DEFINE st == [i \in 0..(n - 1) |-> f[i + 1]]
<1>2. n \in Nat /\ n > 0 /\ Len(Tail(w)) = n - 1 /\ Head(w) = w[1]
  OBVIOUS
<1>3. st \in [0..(n - 1) -> States]
  BY <1>2
<1>4. 1 \in 1..n /\ f[1] = Stored(s, w[1]) /\ (w[1].op \in CrashIn => Safe(s))
  BY <1>1, <1>2 DEF Path
<1>5. ASSUME NEW i \in 1..(n - 1)
      PROVE  /\ st[i] = Stored(st[i - 1], Tail(w)[i])
             /\ Tail(w)[i].op \in CrashIn => Safe(st[i - 1])
  <2>1. /\ Tail(w)[i] = w[i + 1] /\ i + 1 \in 1..n /\ st[i] = f[i + 1]
        /\ st[i - 1] = f[(i + 1) - 1]
    BY <1>2
  <2> QED BY <1>1, <2>1 DEF Path
<1>6. st[0] = Stored(s, Head(w)) /\ st[n - 1] = t
  BY <1>1, <1>2, <1>4 DEF Path
<1> HIDE DEF st
<1>7. Path(st, Stored(s, Head(w)), Tail(w), t)
  BY <1>2, <1>5, <1>6 DEF Path
<1> QED BY <1>2, <1>3, <1>4, <1>7 DEF Leads

(* The sectors of the FAT, of the entries and of a chain that is freed. *)
WithFat(s, c, v) == [fat |-> [s.fat EXCEPT ![c] = v], ent |-> s.ent]
WithEnt(s, c, e) == [fat |-> s.fat, ent |-> [s.ent EXCEPT ![c] = e]]
Zeroed(s, X, m) ==
    [fat |-> [c \in Clusters |-> IF \E n \in 1..m : X[n] = c THEN 0 ELSE s.fat[c]],
     ent |-> s.ent]

(* One copy of the FAT is written or both, and the first comes first. *)
LEMMA CopiesWritten ==
    ASSUME Fat32Assumption
    PROVE  Copies \in {1, 2} /\ Least(ActiveFats) = 0
<1>1. \A S : 0 \in S /\ (\A d \in S : d = 0 \/ d = 1) => Least(S) = 0
  <2> SUFFICES ASSUME NEW S, 0 \in S, \A d \in S : d = 0 \/ d = 1 PROVE Least(S) = 0
    OBVIOUS
  <2>1. \A c \in S : (\A d \in S : c <= d) <=> c = 0
    OBVIOUS
  <2> QED BY <2>1 DEF Least
<1>2. Cardinality({0}) = 1
  BY FS_Singleton
<1>3. Cardinality({0, 1}) = 2
  <2>1. IsFiniteSet({0}) /\ 1 \notin {0} /\ {0} \cup {1} = {0, 1}
    BY FS_Singleton
  <2> QED BY <1>2, <2>1, FS_AddElement
<1> QED BY <1>1, <1>2, <1>3 DEF Fat32Assumption, Copies

(* fat_set leads to the link changed, whichever copies it writes; a power   *)
(* failure finds the state before or after it.                              *)
LEMMA FatSetLeads ==
    ASSUME Fat32Assumption, NEW s \in States, NEW op \in Ops, NEW c \in Clusters,
           NEW v \in Links,
           op \in CrashIn => Safe(s) /\ Safe(WithFat(s, c, v))
    PROVE  /\ fat_set(op, c, v) \in Seq(Writes)
           /\ WithFat(s, c, v) \in States
           /\ Leads(s, fat_set(op, c, v), WithFat(s, c, v))
<1> DEFINE W(i) == [op |-> op, to |-> "fat", copy |-> i, at |-> c, val |-> v]
           t == WithFat(s, c, v)
<1>1. W(0) \in Writes /\ W(1) \in Writes
  BY DEF Writes, FatWrites
<1>2. Stored(s, W(0)) = t /\ Stored(t, W(1)) = t
  BY DEF Stored, WithFat
<1>3. t \in States
  BY DEF WithFat, States
<1>4. Leads(s, << W(0) >>, t)
  BY <1>1, <1>2, LeadsOne
<1>5. Leads(t, << W(1) >>, t)
  BY <1>1, <1>2, <1>3, LeadsOne
<1>6. CASE Copies = 1
  <2>1. fat_set(op, c, v) = << W(0) >>
    BY <1>6, CopiesWritten DEF fat_set
  <2> QED BY <1>1, <1>3, <1>4, <2>1
<1>7. CASE Copies = 2
  <2>1. fat_set(op, c, v) = << W(0) >> \o << W(1) >>
    BY <1>7, CopiesWritten DEF fat_set
  <2>2. << W(0) >> \in Seq(Writes) /\ << W(1) >> \in Seq(Writes)
    BY <1>1
  <2> HIDE DEF W, t
  <2>3. Leads(s, << W(0) >> \o << W(1) >>, t)
    BY <1>4, <1>5, <2>2, LeadsConcat
  <2> QED BY <1>3, <2>1, <2>2, <2>3 DEF t
<1> QED BY <1>6, <1>7, CopiesWritten

(* The write of an entry leads to the entry changed. *)
LEMMA EntryLeads ==
    ASSUME NEW s \in States, NEW op \in Ops, NEW c \in Clusters, NEW e \in Records,
           op \in CrashIn => Safe(s)
    PROVE  /\ SetEntry(op, c, e) \in Seq(Writes)
           /\ WithEnt(s, c, e) \in States
           /\ Leads(s, SetEntry(op, c, e), WithEnt(s, c, e))
<1> DEFINE w == [op |-> op, to |-> "ent", at |-> c, val |-> e]
<1>1. w \in Writes
  BY DEF Writes, EntWrites
<1>2. Stored(s, w) = WithEnt(s, c, e) /\ w.op = op
  BY DEF Stored, WithEnt
<1>3. WithEnt(s, c, e) \in States
  BY DEF WithEnt, States
<1>4. SetEntry(op, c, e) = << w >>
  BY DEF SetEntry
<1> HIDE DEF w
<1>5. Leads(s, << w >>, Stored(s, w))
  BY <1>1, <1>2, LeadsOne
<1> QED BY <1>1, <1>2, <1>3, <1>4, <1>5

(* A function on 1..n is a sequence. *)
LEMMA ListTyped ==
    ASSUME NEW S, NEW n \in Nat, NEW f \in [1..n -> S]
    PROVE  f \in Seq(S) /\ Len(f) = n
OBVIOUS

(* fat_free_chain leads to a chain of free clusters, and a power failure    *)
(* finds the first m of them freed.                                         *)
LEMMA FreeLeads ==
    ASSUME Fat32Assumption, NEW s \in States, NEW op \in Ops, NEW start,
           NEW X \in Seq(Clusters), X = Chain(start),
           op \in CrashIn => \A m \in 0..Len(X) : Safe(Zeroed(s, X, m))
    PROVE  /\ fat_free_chain(op, start) \in Seq(Writes)
           /\ Zeroed(s, X, Len(X)) \in States
           /\ Leads(s, fat_free_chain(op, start), Zeroed(s, X, Len(X)))
<1> DEFINE W(i, c) == [op |-> op, to |-> "fat", copy |-> i, at |-> c, val |-> 0]
           n == Len(X)
           w == fat_free_chain(op, start)
<1>1. n \in Nat /\ \A m \in 1..n : X[m] \in Clusters
  OBVIOUS
<1>2. \A m \in 0..n : Zeroed(s, X, m) \in States
  BY DEF Zeroed, States, Links
<1>3. Zeroed(s, X, 0) = s
  BY DEF Zeroed, States
<1>4. ASSUME NEW m \in 1..n
      PROVE  /\ W(0, X[m]) \in Writes /\ W(1, X[m]) \in Writes
             /\ Stored(Zeroed(s, X, m - 1), W(0, X[m])) = Zeroed(s, X, m)
             /\ Stored(Zeroed(s, X, m), W(1, X[m])) = Zeroed(s, X, m)
  <2>1. W(0, X[m]) \in Writes /\ W(1, X[m]) \in Writes
    BY <1>1 DEF Writes, FatWrites, Links
  <2>2. Stored(Zeroed(s, X, m), W(1, X[m])) = Zeroed(s, X, m)
    BY DEF Stored
  <2>3. \A c \in Clusters : (\E k \in 1..m : X[k] = c) <=>
            (\E k \in 1..(m - 1) : X[k] = c) \/ c = X[m]
    BY <1>1
  <2>4. Zeroed(s, X, m).fat = [Zeroed(s, X, m - 1).fat EXCEPT ![X[m]] = 0]
    BY <1>1, <2>3 DEF Zeroed
  <2>5. Stored(Zeroed(s, X, m - 1), W(0, X[m]))
        = [fat |-> [Zeroed(s, X, m - 1).fat EXCEPT ![X[m]] = 0], ent |-> s.ent]
    BY DEF Stored, Zeroed
  <2>6. Zeroed(s, X, m) = [fat |-> Zeroed(s, X, m).fat, ent |-> s.ent]
    BY DEF Zeroed
  <2> QED BY <2>1, <2>2, <2>4, <2>5, <2>6
<1> HIDE DEF w
<1>5. CASE Copies = 1
  <2> DEFINE st == [i \in 0..n |-> Zeroed(s, X, i)]
  <2>1. w = [i \in 1..n |-> W(0, X[i])]
    <3>1. w =
              [i \in 1..(1 * n) |->
                  fat_set(op, X[((i - 1) \div 1) + 1], 0)[((i - 1) % 1) + 1]]
      BY <1>5 DEF w, fat_free_chain
    <3>2. \A i \in 1..n : ((i - 1) \div 1) + 1 = i /\ ((i - 1) % 1) + 1 = 1
      BY <1>1
    <3>3. \A c : fat_set(op, c, 0) = << W(0, c) >>
      BY <1>5, CopiesWritten DEF fat_set
    <3> QED BY <1>1, <3>1, <3>2, <3>3
  <2>2. Len(w) = n /\ w \in Seq(Writes) /\ \A i \in 1..n : w[i] = W(0, X[i])
    <3>1. \A i \in 1..n : W(0, X[i]) \in Writes
      BY <1>4
    <3> HIDE DEF W
    <3>2. w \in [1..n -> Writes] /\ \A i \in 1..n : w[i] = W(0, X[i])
      BY <2>1, <3>1
    <3> QED BY <1>1, <3>2, ListTyped
  <2>3. Path(st, s, w, Zeroed(s, X, n))
    <3>1. ASSUME NEW i \in 1..n
          PROVE  /\ st[i] = Stored(st[i - 1], w[i])
                 /\ (w[i].op \in CrashIn => Safe(st[i - 1]))
      <4>1. /\ st[i] = Zeroed(s, X, i) /\ st[i - 1] = Zeroed(s, X, i - 1)
            /\ w[i] = W(0, X[i])
        BY <1>1, <2>2
      <4>2. w[i].op = op /\ i - 1 \in 0..n
        BY <1>1, <4>1
      <4> QED BY <1>4, <4>1, <4>2
    <3> QED BY <1>1, <1>3, <2>2, <3>1 DEF Path
  <2>4. st \in [0..Len(w) -> States]
    BY <1>2, <2>2
  <2> QED BY <1>1, <1>2, <2>2, <2>3, <2>4 DEF Leads, w
<1>6. CASE Copies = 2
  <2> DEFINE st == [i \in 0..(2 * n) |-> Zeroed(s, X, (i + 1) \div 2)]
  <2>1. w = [i \in 1..(2 * n) |-> W((i - 1) % 2, X[((i - 1) \div 2) + 1])]
    <3>1. w =
              [i \in 1..(2 * n) |->
                  fat_set(op, X[((i - 1) \div 2) + 1], 0)[((i - 1) % 2) + 1]]
      BY <1>6 DEF w, fat_free_chain
    <3>2. \A i \in 1..(2 * n) : (i - 1) % 2 \in {0, 1}
      BY <1>1
    <3>3. \A c : fat_set(op, c, 0)[1] = W(0, c) /\ fat_set(op, c, 0)[2] = W(1, c)
      BY <1>6, CopiesWritten DEF fat_set
    <3> QED BY <3>1, <3>2, <3>3
  <2>2. ASSUME NEW i \in 1..(2 * n)
        PROVE  /\ ((i - 1) \div 2) + 1 \in 1..n
               /\ \/ (i - 1) % 2 = 0 /\ (i + 1) \div 2 = ((i - 1) \div 2) + 1
                       /\ ((i - 1) + 1) \div 2 = (i + 1) \div 2 - 1
                  \/ (i - 1) % 2 = 1 /\ (i + 1) \div 2 = ((i - 1) \div 2) + 1
                       /\ ((i - 1) + 1) \div 2 = (i + 1) \div 2
    BY <1>1
  <2>3. Len(w) = 2 * n /\ w \in Seq(Writes)
    <3>1. \A i \in 1..(2 * n) : W((i - 1) % 2, X[((i - 1) \div 2) + 1]) \in Writes
      BY <1>4, <2>2
    <3> HIDE DEF W
    <3>2. w \in [1..(2 * n) -> Writes]
      BY <2>1, <3>1
    <3> QED BY <1>1, <3>2, ListTyped
  <2>4. \A i \in 0..(2 * n) : (i + 1) \div 2 \in 0..n
    BY <1>1
  <2>5. st \in [0..Len(w) -> States]
    BY <1>2, <2>3, <2>4
  <2>6. Path(st, s, w, Zeroed(s, X, n))
    <3>1. ASSUME NEW i \in 1..(2 * n)
          PROVE  /\ st[i] = Stored(st[i - 1], w[i])
                 /\ (w[i].op \in CrashIn => Safe(st[i - 1]))
      <4> DEFINE m == ((i - 1) \div 2) + 1
      <4>1. /\ st[i] = Zeroed(s, X, (i + 1) \div 2)
            /\ st[i - 1] = Zeroed(s, X, ((i - 1) + 1) \div 2)
            /\ w[i] = W((i - 1) % 2, X[m])
        BY <1>1, <2>1
      <4>2. ((i - 1) + 1) \div 2 \in 0..n
        BY <1>1
      <4>3. w[i].op \in CrashIn => Safe(st[i - 1])
        BY <4>1, <4>2
      <4>4. m \in 1..n
        BY <2>2
      <4> HIDE DEF m, st
      <4>5. CASE (i - 1) % 2 = 0
        <5>1. /\ st[i] = Zeroed(s, X, m) /\ st[i - 1] = Zeroed(s, X, m - 1)
              /\ w[i] = W(0, X[m])
          BY <2>2, <4>1, <4>5 DEF m
        <5> QED BY <1>4, <4>3, <4>4, <5>1
      <4>6. CASE (i - 1) % 2 = 1
        <5>1. /\ st[i] = Zeroed(s, X, m) /\ st[i - 1] = Zeroed(s, X, m)
              /\ w[i] = W(1, X[m])
          BY <2>2, <4>1, <4>6 DEF m
        <5> QED BY <1>4, <4>3, <4>4, <5>1
      <4> QED BY <2>2, <4>5, <4>6
    <3>2. st[0] = s /\ st[2 * n] = Zeroed(s, X, n)
      <4>1. (0 + 1) \div 2 = 0 /\ (2 * n + 1) \div 2 = n
        BY <1>1
      <4>2. 0 \in 0..(2 * n) /\ 2 * n \in 0..(2 * n)
        BY <1>1
      <4>3. st[0] = Zeroed(s, X, 0) /\ st[2 * n] = Zeroed(s, X, n)
        BY <4>1, <4>2
      <4> HIDE DEF st
      <4> QED BY <1>3, <4>3
    <3> QED BY <2>3, <3>1, <3>2 DEF Path
  <2> QED BY <1>1, <1>2, <2>3, <2>5, <2>6 DEF Leads, w
<1> QED BY <1>5, <1>6, CopiesWritten

-----------------------------------------------------------------------------
(* What the calls read, in a sound state, are the chains.  A set of natural *)
(* numbers has a least element, which stands in for induction: over how far *)
(* ChainFrom goes, and over how much of a chain is left.                    *)
LEMMA LeastNatural ==
    ASSUME NEW S \in SUBSET Nat, S # {}
    PROVE  \E k \in S : \A j \in S : k <= j
<1> DEFINE R == {p \in Nat \X Nat : p[1] < p[2]}
<1>1. IsWellFoundedOn(R, Nat)
  BY NatLessThanWellFounded DEF OpToRel
<1>2. PICK x \in S : \A y \in S : <<y, x>> \notin R
  BY <1>1, WFMin
<1>3. ASSUME NEW y \in S PROVE x <= y
  <2>1. x \in Nat /\ y \in Nat
    OBVIOUS
  <2>2. ~ (y < x)
    BY <1>2, <2>1
  <2> QED BY <2>1, <2>2
<1> QED BY <1>3

(* Least is the least. *)
LEMMA LeastChosen ==
    ASSUME NEW S \in SUBSET Nat, S # {}
    PROVE  Least(S) \in S /\ \A j \in S : Least(S) <= j
BY LeastNatural DEF Least

(* ChainFrom is defined by its equation. *)
LEMMA ChainFromIs ==
    ASSUME Fat32Assumption
    PROVE  ChainFrom = [n \in 0..Top |->
               [c \in Links |-> IF n = 0 \/ c \notin Clusters THEN <<>>
                                ELSE <<c>> \o ChainFrom[n - 1][fat_get(c)]]]
<1> DEFINE Next1(g, n) == [c \in Links |-> IF n = 0 \/ c \notin Clusters THEN <<>>
                                       ELSE <<c>> \o g[n - 1][fat_get(c)]]
           Fits(g, m) == g = [n \in 0..m |-> Next1(g, n)]
           Bad == {m \in Nat : ~\E g : Fits(g, m)}
<1>1. Bad = {}
  <2> SUFFICES ASSUME Bad # {} PROVE FALSE
    OBVIOUS
  <2>1. PICK m \in Bad : \A j \in Bad : m <= j
    BY LeastNatural
  <2>2. m \in Nat /\ ~\E g : Fits(g, m)
    OBVIOUS
  <2>3. CASE m = 0
    <3> DEFINE g == [n \in 0..0 |-> [c \in Links |-> <<>>]]
    <3>1. Fits(g, 0)
      <4>1. \A n \in 0..0 : n = 0
        OBVIOUS
      <4> QED BY <4>1
    <3> QED BY <2>2, <2>3, <3>1
  <2>4. CASE m # 0
    <3>1. m - 1 \in Nat /\ m - 1 \notin Bad
      <4> HIDE DEF Bad
      <4> QED BY <2>1, <2>2, <2>4
    <3>2. PICK f : Fits(f, m - 1)
      BY <3>1
    <3> DEFINE g == [n \in 0..m |-> IF n < m THEN f[n] ELSE Next1(f, m)]
    <3>3. ASSUME NEW n \in 0..m PROVE g[n] = Next1(g, n)
      <4>1. \A k \in 0..(m - 1) : g[k] = f[k]
        BY <2>2, <2>4
      <4>2. n = 0 \/ g[n - 1] = f[n - 1]
        BY <2>2, <2>4, <4>1
      <4>3. g[n] = Next1(f, n)
        <5>1. CASE n = m
          BY <5>1
        <5>2. CASE n # m
          <6>1. n \in 0..(m - 1)
            BY <2>2, <5>2
          <6> HIDE DEF Next1
          <6>2. f = [k \in 0..(m - 1) |-> Next1(f, k)]
            BY <3>2
          <6>3. f[n] = Next1(f, n)
            BY <6>1, <6>2, Zenon
          <6> QED BY <4>1, <6>1, <6>3
        <5> QED BY <5>1, <5>2
      <4> HIDE DEF g
      <4> QED BY <4>2, <4>3
    <3>4. Fits(g, m)
      <4> HIDE DEF Next1
      <4>1. g = [n \in 0..m |-> g[n]]
        OBVIOUS
      <4> HIDE DEF g
      <4> QED BY <3>3, <4>1
    <3> QED BY <2>2, <3>4
  <2> QED BY <2>3, <2>4
<1>2. \E g : Fits(g, Top)
  <2>1. Top \in Nat
    BY DEF Fat32Assumption
  <2> HIDE DEF Fits
  <2> QED BY <1>1, <2>1
<1>3. ChainFrom = CHOOSE g : Fits(g, Top)
  BY DEF ChainFrom
<1> HIDE DEF Fits
<1>4. Fits(ChainFrom, Top)
  BY <1>2, <1>3, Zenon
<1> QED BY <1>4 DEF Fits

(* A chain of n clusters is the first one and a chain of n - 1. *)
LEMMA ChainFromStep ==
    ASSUME Fat32Assumption, NEW n \in 0..Top, NEW c \in Links
    PROVE  ChainFrom[n][c] = IF n = 0 \/ c \notin Clusters THEN <<>>
                             ELSE <<c>> \o ChainFrom[n - 1][fat_get(c)]
<1> DEFINE F(m) == [d \in Links |-> IF m = 0 \/ d \notin Clusters THEN <<>>
                                    ELSE <<d>> \o ChainFrom[m - 1][fat_get(d)]]
<1>1. ChainFrom = [m \in 0..Top |-> F(m)]
  BY ChainFromIs
<1> HIDE DEF F
<1>2. ChainFrom[n] = F(n)
  BY <1>1, Zenon
<1> QED BY <1>2 DEF F

(* A chain without a repetition has no more clusters than there are. *)
LEMMA ChainShort ==
    ASSUME Fat32Assumption, NEW X \in Seq(Clusters),
           \A i, j \in 1..Len(X) : X[i] = X[j] => i = j
    PROVE  /\ Len(X) \in 0..Top
           /\ Cardinality({X[i] : i \in 1..Len(X)}) = Len(X)
           /\ IsFiniteSet({X[i] : i \in 1..Len(X)})
<1> DEFINE n == Len(X)
           D == {X[i] : i \in 1..n}
           f == [i \in 1..n |-> X[i]]
<1>1. n \in Nat /\ IsFiniteSet(1..n) /\ Cardinality(1..n) = n
  BY FS_Interval
<1>2. IsFiniteSet(Clusters) /\ Cardinality(Clusters) = Top - 1
  BY FS_Interval DEF Clusters, Root, Fat32Assumption
<1>3. n <= Top - 1
  <2> SUFFICES ASSUME n > Top - 1 PROVE FALSE
    BY <1>1 DEF Fat32Assumption
  <2>1. f \in [1..n -> Clusters]
    OBVIOUS
  <2>2. \E i, j \in 1..n : i # j /\ f[i] = f[j]
    BY <1>1, <1>2, <2>1, FS_PigeonHole
  <2> QED BY <2>2
<1>4. f \in Bijection(1..n, D)
  BY DEF Bijection, Injection, Surjection, IsInjective
<1>5. IsFiniteSet(D) /\ Cardinality(D) = n
  BY <1>1, <1>4, FS_Bijection DEF ExistsBijection
<1>6. n \in 0..Top
  BY <1>1, <1>3 DEF Fat32Assumption
<1> QED BY <1>5, <1>6

(* A rest of a sequence begins with its element. *)
LEMMA RestStep ==
    ASSUME NEW S, NEW X \in Seq(S), NEW p \in 1..Len(X)
    PROVE  << X[p] >> \o SubSeq(X, p + 1, Len(X)) = SubSeq(X, p, Len(X))
<1> DEFINE A == << X[p] >> \o SubSeq(X, p + 1, Len(X))
           B == SubSeq(X, p, Len(X))
<1>1. Len(X) \in Nat /\ p \in Nat /\ p <= Len(X) /\ \A i \in 1..Len(X) : X[i] \in S
  OBVIOUS
<1>2. SubSeq(X, p + 1, Len(X)) \in Seq(S) /\ Len(SubSeq(X, p + 1, Len(X))) = Len(X) - p
  <2>1. CASE p = Len(X)
    BY <1>1, <2>1
  <2>2. CASE p < Len(X)
    BY <1>1, <2>2
  <2> QED BY <1>1, <2>1, <2>2
<1>3. A \in Seq(S) /\ B \in Seq(S) /\ Len(A) = Len(X) - p + 1 /\ Len(B) = Len(X) - p + 1
  BY <1>1, <1>2
<1>4. ASSUME NEW i \in 1..(Len(X) - p + 1) PROVE A[i] = B[i]
  <2>1. B[i] = X[p + i - 1]
    BY <1>1
  <2>2. CASE i = 1
    BY <1>1, <1>2, <2>1, <2>2
  <2>3. CASE i > 1
    <3>1. i - 1 \in 1..(Len(X) - p) /\ A[i] = SubSeq(X, p + 1, Len(X))[i - 1]
      BY <1>1, <1>2, <2>3
    <3>2. SubSeq(X, p + 1, Len(X))[i - 1] = X[p + 1 + (i - 1) - 1]
      BY <1>1, <3>1
    <3> QED BY <1>1, <2>1, <3>1, <3>2
  <2> QED BY <1>1, <2>2, <2>3
<1> HIDE DEF A, B
<1> QED BY <1>3, <1>4 DEF A, B

(* A chain that is linked as X, up to a mark of its end, is read as X. *)
LEMMA ChainIs ==
    ASSUME Fat32Assumption, NEW X \in Seq(Clusters), Len(X) \in 1..Top,
           \A i \in 1..Len(X) : fat_get(X[i]) = IF i = Len(X) THEN EOC ELSE X[i + 1]
    PROVE  Chain(X[1]) = X
<1> DEFINE N == Len(X)
           Rest(p) == SubSeq(X, p, N)
           Follows(m) == \A n \in m..Top : ChainFrom[n][X[N - m + 1]] = Rest(N - m + 1)
           Bad == {m \in 1..N : ~Follows(m)}
<1>1. N \in Nat /\ Top \in Nat /\ N <= Top /\ \A i \in 1..N : X[i] \in Clusters
  BY DEF Fat32Assumption
<1>2. Bad = {}
  <2> SUFFICES ASSUME Bad # {} PROVE FALSE
    OBVIOUS
  <2>1. Bad \in SUBSET Nat
    OBVIOUS
  <2>2. PICK m \in Bad : \A j \in Bad : m <= j
    BY <2>1, LeastNatural
  <2>3. m \in 1..N /\ ~Follows(m)
    OBVIOUS
  <2>4. PICK n \in m..Top : ChainFrom[n][X[N - m + 1]] # Rest(N - m + 1)
    BY <2>3
  <2> DEFINE p == N - m + 1
  <2>5. p \in 1..N /\ n \in 0..Top /\ n # 0 /\ X[p] \in Links /\ X[p] \in Clusters
    BY <1>1, <2>3, <2>4 DEF Links
  <2>6. ChainFrom[n][X[p]] = <<X[p]>> \o ChainFrom[n - 1][fat_get(X[p])]
    BY <2>5, ChainFromStep
  <2>7. CASE m = 1
    <3>1. p = N /\ fat_get(X[p]) = EOC
      BY <1>1, <2>5, <2>7
    <3>2. n - 1 \in 0..Top /\ EOC \in Links /\ EOC \notin Clusters
      BY <1>1, <2>5, Constants DEF Links
    <3>3. ChainFrom[n - 1][EOC] = <<>>
      BY <3>2, ChainFromStep
    <3>4. <<X[p]>> \o <<>> = Rest(p)
      <4>1. SubSeq(X, N, N) = <<X[N]>>
        <5> DEFINE Z == SubSeq(X, N, N)
        <5>1. Z \in Seq(Clusters) /\ Len(Z) = 1 /\ Z[1] = X[N]
          BY <1>1
        <5> HIDE DEF Z
        <5>2. Z = <<X[N]>>
          BY <5>1
        <5> QED BY <5>2 DEF Z
      <4>2. <<X[p]>> \o <<>> = <<X[p]>>
        OBVIOUS
      <4>3. Rest(p) = SubSeq(X, N, N)
        BY <3>1
      <4> HIDE DEF Rest
      <4> QED BY <3>1, <4>1, <4>2, <4>3
    <3> QED BY <2>4, <2>6, <3>1, <3>3, <3>4
  <2>8. CASE m # 1
    <3>1. m - 1 \in 1..N /\ m - 1 \notin Bad
      <4> HIDE DEF Bad
      <4> QED BY <2>2, <2>3, <2>8, <1>1
    <3>2. n - 1 \in (m - 1)..Top
      BY <1>1, <2>3, <2>4
    <3>3. N - (m - 1) + 1 = p + 1
      BY <1>1, <2>3
    <3>4. ChainFrom[n - 1][X[p + 1]] = Rest(p + 1)
      BY <3>1, <3>2, <3>3
    <3>5. fat_get(X[p]) = X[p + 1] /\ p + 1 \in 1..N
      <4>1. p # N /\ p + 1 \in 1..N
        <5>1. m \in 2..N
          BY <2>3, <2>8
        <5> HIDE DEF N, Bad
        <5> QED BY <1>1, <5>1
      <4> HIDE DEF p
      <4> QED BY <2>5, <4>1
    <3> HIDE DEF p
    <3>6. <<X[p]>> \o Rest(p + 1) = Rest(p)
      BY <2>5, RestStep
    <3> QED BY <2>4, <2>6, <3>4, <3>5, <3>6 DEF p
  <2> QED BY <2>7, <2>8
<1>3. Follows(N)
  <2>1. N \in 1..N
    BY <1>1
  <2>2. N \notin Bad
    <3> HIDE DEF Bad
    <3> QED BY <1>2
  <2> HIDE DEF Follows
  <2> QED BY <2>1, <2>2
<1>4. Top \in N..Top /\ N - N + 1 = 1
  BY <1>1
<1>5. ChainFrom[Top][X[1]] = SubSeq(X, 1, N)
  BY <1>3, <1>4
<1>6. SubSeq(X, 1, N) = X
  BY <1>1
<1> QED BY <1>5, <1>6 DEF Chain

(* In a sound state the code reads the chains ch. *)
LEMMA Reads ==
    ASSUME Fat32Assumption, fat \in [{0, 1} -> [Clusters -> Links]],
           ent \in [Clusters -> Records],
           NEW ch \in Chains, Sound(Current, ch)
    PROVE  /\ Chain(0) = <<>> /\ Chain(Root) = ch[0]
           /\ \A c \in Clusters : Listed(Current, ch, c) => Chain(ent[c].first) = ch[c]
           /\ Live = {c \in Clusters : Listed(Current, ch, c)}
           /\ \A d \in Dirs : \E k \in Heads :
                  DirHead(Current, ch, k) /\ Chain(d) = ch[k]
           /\ \A c \in Clusters : Listed(Current, ch, c) =>
                 Entries(ent[c].first) = {d \in Clusters : In(ch, c, d) /\ Used(ent[d])}
<1>1. /\ 0 \notin Clusters /\ 0 \in Heads /\ 0 \in Links /\ Root \in Clusters
      /\ \A d \in Clusters : d \in Heads /\ d \in Links
      /\ \A h \in Heads : h = 0 \/ h \in Clusters
  BY Constants DEF Heads, Links
<1>2. Current.fat = fat[0] /\ Current.ent = ent
  BY DEF Current
<1>3. Chain(0) = <<>>
  <2>1. Top \in 0..Top
    BY DEF Fat32Assumption
  <2> QED BY <1>1, <2>1, ChainFromStep DEF Chain
<1>4. ASSUME NEW h \in Heads, ch[h] # <<>> PROVE Chain(ch[h][1]) = ch[h]
  <2>1. ch[h] \in Seq(Clusters)
    BY DEF Chains
  <2>2. \A i, j \in 1..Len(ch[h]) : ch[h][i] = ch[h][j] => i = j
    BY DEF Sound, Apart
  <2>3. Len(ch[h]) \in 0..Top
    BY <2>1, <2>2, ChainShort
  <2>4. Len(ch[h]) \in 1..Top
    BY <1>4, <2>1, <2>3
  <2>5. \A i \in 1..Len(ch[h]) :
           fat_get(ch[h][i]) = IF i = Len(ch[h]) THEN EOC ELSE ch[h][i + 1]
    BY <1>2 DEF Sound, Linked, fat_get
  <2> QED BY <2>1, <2>4, <2>5, ChainIs
<1>5. Chain(Root) = ch[0]
  <2>1. ch[0] # <<>> /\ ch[0][1] = Root
    BY DEF Sound, Rooted
  <2> QED BY <1>1, <1>4, <2>1
<1>6. ASSUME NEW c \in Clusters, Listed(Current, ch, c)
      PROVE  Chain(ent[c].first) = ch[c]
  <2>1. CASE ent[c].first = 0
    <3>1. ch[c] = <<>>
      BY <1>2, <2>1 DEF Sound, Headed
    <3> QED BY <1>3, <2>1, <3>1
  <2>2. CASE ent[c].first # 0
    <3>1. ch[c] # <<>> /\ ch[c][1] = ent[c].first
      BY <1>2, <1>6, <2>2 DEF Sound, Headed
    <3> QED BY <1>1, <1>4, <3>1
  <2> QED BY <2>1, <2>2
<1>7. ASSUME NEW k \in Heads, NEW d, Chain(d) = ch[k]
      PROVE  Entries(d) = {c \in Clusters : In(ch, k, c) /\ Used(ent[c])}
  <2>1. ch[k] \in Seq(Clusters)
    BY DEF Chains
  <2>2. \A c : c \in Range(ch[k]) <=> c \in Clusters /\ In(ch, k, c)
    BY <2>1 DEF Range, In
  <2> QED BY <1>7, <2>2 DEF Entries
<1>8. \A c \in Clusters : In(ch, 0, c) => Slotted(Current, ch, c)
  BY <1>1 DEF Slotted, DirHead
<1>9. Dirs =
          {Root} \cup {ent[c].first :
                           c \in {e \in Clusters : In(ch, 0, e) /\ ent[e].kind = "dir"}}
  BY <1>1, <1>5, <1>7 DEF Dirs, Used
<1>10. ASSUME NEW c \in Clusters, In(ch, 0, c), ent[c].kind = "dir"
       PROVE  DirHead(Current, ch, c) /\ Chain(ent[c].first) = ch[c]
  <2>1. Listed(Current, ch, c)
    BY <1>2, <1>8, <1>10 DEF Listed, Used
  <2> QED BY <1>2, <1>6, <1>10, <2>1 DEF DirHead
<1>11. \A d \in Dirs : \E k \in Heads : DirHead(Current, ch, k) /\ Chain(d) = ch[k]
  <2>1. DirHead(Current, ch, 0)
    BY DEF DirHead
  <2> QED BY <1>1, <1>5, <1>9, <1>10, <2>1
<1>12. \A k \in Heads : DirHead(Current, ch, k) => \E d \in Dirs : Chain(d) = ch[k]
  BY <1>1, <1>2, <1>5, <1>9, <1>10 DEF DirHead
<1>13. Live = {c \in Clusters : Listed(Current, ch, c)}
  <2>1. ASSUME NEW c \in Live PROVE c \in Clusters /\ Listed(Current, ch, c)
    <3>1. PICK d \in Dirs : c \in Entries(d)
      BY DEF Live
    <3>2. PICK k \in Heads : DirHead(Current, ch, k) /\ Chain(d) = ch[k]
      BY <1>11
    <3> QED BY <1>2, <1>7, <3>1, <3>2 DEF Listed, Slotted
  <2>2. ASSUME NEW c \in Clusters, Listed(Current, ch, c) PROVE c \in Live
    <3>1. PICK k \in Heads : DirHead(Current, ch, k) /\ In(ch, k, c)
      BY <2>2 DEF Listed, Slotted
    <3>2. PICK d \in Dirs : Chain(d) = ch[k]
      BY <1>12, <3>1
    <3>3. Used(ent[c])
      BY <1>2, <2>2 DEF Listed
    <3> QED BY <1>7, <3>1, <3>2, <3>3 DEF Live
  <2> QED BY <2>1, <2>2
<1>14. ASSUME NEW c \in Clusters, Listed(Current, ch, c)
       PROVE  Entries(ent[c].first) = {d \in Clusters : In(ch, c, d) /\ Used(ent[d])}
  BY <1>1, <1>6, <1>7, <1>14
<1> QED BY <1>3, <1>5, <1>6, <1>11, <1>13, <1>14

-----------------------------------------------------------------------------
(* The inductive invariant: the writes to come lead to a state that is      *)
(* sound and agrees with what is kept in memory, and until then power only  *)
(* fails in sound states.                                                   *)
OpenFiles == [slot : Clusters, first : Heads, size : 0..MaxSize]
Infos == [count : 0..Unknown, next : Root..EOC, dirty : BOOLEAN]
Types ==
    /\ fat \in [{0, 1} -> [Clusters -> Links]] /\ ent \in [Clusters -> Records]
    /\ fsinfo \in Counts /\ info \in Infos
    /\ handle \in [Handles -> {NULL} \cup OpenFiles]
    /\ writes \in Seq(Writes) /\ damaged \in BOOLEAN

IInv ==
    /\ Types
    /\ \E t \in States, ch \in Chains :
          Leads(Current, writes, t) /\ Settled(t, ch, handle, info.count, damaged)

(* What a call finds, and what it has to leave. *)
AtRest(ch) ==
    /\ Types /\ ch \in Chains /\ Settled(Current, ch, handle, info.count, damaged)
Done(w, hd, inf, dam) ==
    /\ w \in Seq(Writes) /\ hd \in [Handles -> {NULL} \cup OpenFiles]
    /\ inf \in Infos /\ dam \in BOOLEAN
    /\ \E t \in States, u \in Chains :
           Leads(Current, w, t) /\ Settled(t, u, hd, inf.count, dam)

FreeOf(s) == {c \in Clusters : s.fat[c] = 0}
Owned1(ch, c) == \E h \in Heads : In(ch, h, c)

(* The device is in its type. *)
LEMMA CurrentTyped ==
    ASSUME Types
    PROVE  Current \in States /\ Current.fat = fat[0] /\ Current.ent = ent
BY DEF Types, Current, States

(* What is in a chain is allocated. *)
LEMMA OwnedTaken ==
    ASSUME Fat32Assumption, NEW s \in States, NEW ch \in Chains, Sound(s, ch),
           NEW h \in Heads, NEW c, In(ch, h, c)
    PROVE  c \in Clusters /\ s.fat[c] # 0
<1>1. PICK i \in 1..Len(ch[h]) : ch[h][i] = c
  BY DEF In
<1>2. ch[h] \in Seq(Clusters)
  BY DEF Chains
<1>3. s.fat[c] = IF i = Len(ch[h]) THEN EOC ELSE ch[h][i + 1]
  BY <1>1 DEF Sound, Linked
<1>4. i # Len(ch[h]) => ch[h][i + 1] \in Clusters
  BY <1>2
<1> QED BY <1>1, <1>2, <1>3, <1>4, Constants

(* What the search for a free cluster returns is free. *)
LEMMA SearchFinds ==
    ASSUME Fat32Assumption, Types, NEW T, Search(T) # 0
    PROVE  Search(T) \in Clusters \ T /\ fat[0][Search(T)] = 0
<1> DEFINE Fit == {c \in Clusters \ T : Empty(c)}
           Ahead == {c \in Fit : c >= info.next}
<1>1. Fit \in SUBSET Nat /\ Ahead \in SUBSET Nat
  BY Constants
<1>2. Search(T) \in Fit
  BY <1>1, LeastChosen DEF Search
<1> QED BY <1>2 DEF Empty, fat_get

(* The free clusters can be counted. *)
LEMMA FreeFinite ==
    ASSUME Fat32Assumption, NEW s \in States
    PROVE  IsFiniteSet(FreeOf(s)) /\ Cardinality(FreeOf(s)) \in Nat
<1>1. IsFiniteSet(Clusters)
  BY FS_Interval DEF Clusters, Root, Fat32Assumption
<1>2. FreeOf(s) \in SUBSET Clusters
  BY DEF FreeOf
<1> QED BY <1>1, <1>2, FS_Subset, FS_CardinalityType

(* The root directory has a cluster, so that the count stays below 0xffffffff. *)
LEMMA FreeBelow ==
    ASSUME Fat32Assumption, NEW s \in States, NEW ch \in Chains, Sound(s, ch)
    PROVE  Cardinality(FreeOf(s)) < Unknown
<1>1. In(ch, 0, Root)
  BY DEF Sound, Rooted, In
<1>2. Root \notin FreeOf(s)
  BY <1>1, OwnedTaken, Constants DEF FreeOf
<1>3. FreeOf(s) \in SUBSET ((Root + 1)..Top)
  BY <1>2, Constants DEF FreeOf, Clusters, Root, Fat32Assumption
<1>4. IsFiniteSet((Root + 1)..Top) /\ Cardinality((Root + 1)..Top) = Top - Root
  BY FS_Interval DEF Root, Fat32Assumption
<1> QED BY <1>3, <1>4, FS_Subset, FreeFinite DEF Fat32Assumption, Root

(* The count goes down by the clusters allocated, unless it is unknown. *)
LEMMA CountDown ==
    ASSUME Fat32Assumption, Types, NEW cs \in Seq(Clusters), CountAllocated(cs)
    PROVE  /\ info' \in Infos
           /\ Len(cs) <= info.count /\ info.count < Unknown =>
                  info'.count = info.count - Len(cs)
<1>1. Len(cs) \in Nat /\ info \in Infos /\ info.count \in Nat /\ info.count <= Unknown
      /\ Unknown \in Nat
  BY DEF Types, Infos, Fat32Assumption
<1>2. CASE Len(cs) = 0
  BY <1>1, <1>2 DEF CountAllocated
<1>3. CASE Len(cs) # 0
  <2>1. Last(cs) \in Clusters
    BY <1>1, <1>3 DEF Last
  <2>2. Last(cs) + 1 \in Root..EOC
    BY <2>1 DEF Clusters, EOC, Root, Fat32Assumption
  <2>3. info' =
            [count |-> IF info.count \in Len(cs)..(Unknown - 1)
                       THEN info.count - Len(cs) ELSE Unknown,
                 next |-> Last(cs) + 1, dirty |-> TRUE]
    BY <1>3 DEF CountAllocated
  <2> QED BY <1>1, <1>3, <2>2, <2>3 DEF Infos
<1> QED BY <1>2, <1>3

(* The count goes up by the clusters freed, unless it is unknown. *)
LEMMA CountUp ==
    ASSUME Fat32Assumption, Types, NEW cs \in Seq(Clusters), CountFreed(cs)
    PROVE  /\ info' \in Infos
           /\ info.count + Len(cs) < Unknown => info'.count = info.count + Len(cs)
<1>1. Len(cs) \in Nat /\ info \in Infos /\ info.count \in Nat /\ info.count <= Unknown
      /\ Unknown \in Nat /\ info.next \in Root..EOC
  BY DEF Types, Infos, Fat32Assumption
<1>2. CASE Len(cs) = 0
  BY <1>1, <1>2 DEF CountFreed
<1>3. CASE Len(cs) # 0
  <2> DEFINE lowest == {info.next} \cup Range(cs)
  <2>1. Range(cs) \in SUBSET Clusters
    BY DEF Range
  <2>2. Clusters \in SUBSET (Root..EOC) /\ (Root..EOC) \in SUBSET Nat
    BY DEF Clusters, EOC, Root, Fat32Assumption
  <2>3. lowest \in SUBSET Nat /\ lowest # {} /\ lowest \in SUBSET (Root..EOC)
    BY <1>1, <2>1, <2>2
  <2> HIDE DEF lowest
  <2>4. Least(lowest) \in Root..EOC
    BY <2>3, LeastChosen
  <2>5. info' = [count |-> IF info.count + Len(cs) < Unknown THEN info.count + Len(cs)
                           ELSE Unknown,
                 next |-> Least(lowest), dirty |-> TRUE]
    BY <1>3 DEF CountFreed, lowest
  <2> QED BY <1>1, <1>3, <2>4, <2>5 DEF Infos
<1> QED BY <1>2, <1>3

(* Open files that a step leaves alone, and one that it changes. *)
LEMMA AgreesKept ==
    ASSUME NEW s, NEW t, NEW ch, NEW u, NEW hd, Agrees(s, ch, hd),
           \A h \in Handles : hd[h] # NULL =>
               LET d == hd[h].slot
               IN  Listed(t, u, d) /\ t.ent[d] = s.ent[d] /\ u[d] = ch[d]
    PROVE  Agrees(t, u, hd)
BY DEF Agrees

Kept(s, ch, t, u, c) ==
    \A d \in Clusters \ {c} :
        Listed(s, ch, d) /\ s.ent[d].kind = "file" =>
            Listed(t, u, d) /\ t.ent[d] = s.ent[d] /\ u[d] = ch[d]
OpenAs(t, u, c, g) ==
    g = NULL \/
      /\ g.slot = c /\ Listed(t, u, c) /\ t.ent[c].kind = "file"
      /\ g.first = t.ent[c].first /\ g.size <= Len(u[c])
OpenBy(hd, h, c) == \A k \in Handles : hd[k] # NULL /\ hd[k].slot = c => k = h
Reopened(hd, hg, h, g) == hg[h] = g /\ \A k \in Handles \ {h} : hg[k] = hd[k]

(* A change of one open file and its chain leaves the others. *)
LEMMA AgreesFile ==
    ASSUME NEW s, NEW t, NEW ch, NEW u, NEW hd, NEW h \in Handles, NEW g,
           NEW c \in Clusters,
           NEW hg, Agrees(s, ch, hd), OpenBy(hd, h, c), Kept(s, ch, t, u, c),
           OpenAs(t, u, c, g),
           Reopened(hd, hg, h, g)
    PROVE  Agrees(t, u, hg)
<1>1. hg[h] = g /\ \A k \in Handles \ {h} : hg[k] = hd[k]
  BY DEF Reopened
<1>2. ASSUME NEW k \in Handles, hg[k] # NULL
      PROVE  /\ hg[k].slot \in Clusters /\ Listed(t, u, hg[k].slot)
             /\ t.ent[hg[k].slot].kind = "file" /\ hg[k].first = t.ent[hg[k].slot].first
             /\ hg[k].size <= Len(u[hg[k].slot])
             /\ hg[k].slot = c => k = h
  <2>1. CASE k = h
    BY <1>1, <1>2, <2>1 DEF OpenAs
  <2>2. CASE k # h
    <3>1. hg[k] = hd[k] /\ hd[k] # NULL /\ hd[k].slot # c
      BY <1>1, <1>2, <2>2 DEF OpenBy
    <3>2. /\ hd[k].slot \in Clusters /\ Listed(s, ch, hd[k].slot)
          /\ s.ent[hd[k].slot].kind = "file" /\ hd[k].first = s.ent[hd[k].slot].first
          /\ hd[k].size <= Len(ch[hd[k].slot])
      BY <3>1 DEF Agrees
    <3> QED BY <3>1, <3>2 DEF Kept
  <2> QED BY <2>1, <2>2
<1>3. ASSUME NEW j \in Handles, NEW k \in Handles, hg[j] # NULL, hg[k] # NULL,
             hg[j].slot = hg[k].slot
      PROVE  j = k
  <2>1. CASE j = h \/ k = h
    <3>1. g # NULL => g.slot = c
      BY DEF OpenAs
    <3> QED BY <1>1, <1>2, <1>3, <2>1, <3>1
  <2>2. CASE j # h /\ k # h
    BY <1>1, <1>3, <2>2 DEF Agrees
  <2> QED BY <2>1, <2>2
<1> QED BY <1>2, <1>3 DEF Agrees

(* The count of the free clusters, when the clusters cs are taken or freed. *)
LEMMA Allocates ==
    ASSUME Fat32Assumption, NEW ch, AtRest(ch), NEW cs \in Seq(Clusters),
           CountAllocated(cs),
           \A i, j \in 1..Len(cs) : cs[i] = cs[j] => i = j,
           \A i \in 1..Len(cs) : fat[0][cs[i]] = 0,
           NEW t \in States, NEW u \in Chains,
           \A c \in Clusters : t.fat[c] = 0 <=>
               fat[0][c] = 0 /\ \A i \in 1..Len(cs) : cs[i] # c,
           \A c \in Clusters : Owned1(ch, c) \/ (\E i \in 1..Len(cs) : cs[i] = c) =>
               Owned1(u, c)
    PROVE  info' \in Infos /\ (~damaged => Counted(t, u, info'.count))
<1> DEFINE R == {cs[i] : i \in 1..Len(cs)}
<1>1. /\ Types /\ Current \in States /\ Current.fat = fat[0] /\ ch \in Chains
      /\ Sound(Current, ch)
  BY CurrentTyped DEF AtRest, Settled
<1>2. info' \in Infos
  BY <1>1, CountDown
<1>3. Len(cs) \in Nat /\ Cardinality(R) = Len(cs)
  BY ChainShort
<1>4. R \in SUBSET FreeOf(Current) /\ FreeOf(t) = FreeOf(Current) \ R
  BY <1>1 DEF FreeOf
<1>5. FreeOf(Current) \cap R = R
  BY <1>4
<1>6. /\ IsFiniteSet(FreeOf(Current)) /\ Cardinality(FreeOf(Current)) \in Nat
      /\ Cardinality(FreeOf(t)) \in Nat
      /\ Cardinality(FreeOf(Current)) < Unknown
  BY <1>1, FreeFinite, FreeBelow
<1>7. Cardinality(FreeOf(t)) = Cardinality(FreeOf(Current)) - Len(cs)
  <2>1. Cardinality(FreeOf(Current) \ R)
        = Cardinality(FreeOf(Current)) - Cardinality(FreeOf(Current) \cap R)
    BY <1>6, FS_Difference
  <2> HIDE DEF R
  <2> QED BY <1>3, <1>4, <1>5, <1>6, <2>1
<1> HIDE DEF R
<1>8. ASSUME ~damaged PROVE Counted(t, u, info'.count)
  <2>1. Counted(Current, ch, info.count)
    BY <1>8 DEF AtRest, Settled
  <2>2. info.count = Cardinality(FreeOf(Current))
    BY <2>1 DEF Counted, FreeOf
  <2>3. Len(cs) <= info.count /\ info.count < Unknown
    BY <1>3, <1>6, <1>7, <2>2
  <2>4. info'.count = info.count - Len(cs)
    BY <1>1, <2>3, CountDown
  <2>5. info'.count = Cardinality(FreeOf(t))
    BY <1>7, <2>2, <2>4
  <2>6. \A c \in Clusters : t.fat[c] # 0 => \E h \in Heads : In(u, h, c)
    BY <1>1, <2>1 DEF Counted, Owned1
  <2> QED BY <2>5, <2>6 DEF Counted, FreeOf
<1> QED BY <1>2, <1>8

(* Clusters that are freed once each are counted. *)
LEMMA Frees ==
    ASSUME Fat32Assumption, NEW ch, AtRest(ch), NEW cs \in Seq(Clusters),
           CountFreed(cs),
           \A i, j \in 1..Len(cs) : cs[i] = cs[j] => i = j,
           \A i \in 1..Len(cs) : fat[0][cs[i]] # 0,
           NEW t \in States, NEW u \in Chains, Sound(t, u),
           \A c \in Clusters : t.fat[c] = 0 <=>
               fat[0][c] = 0 \/ \E i \in 1..Len(cs) : cs[i] = c,
           \A c \in Clusters : Owned1(ch, c) /\ (\A i \in 1..Len(cs) : cs[i] # c) =>
               Owned1(u, c)
    PROVE  ~damaged => Counted(t, u, info'.count)
<1> DEFINE R == {cs[i] : i \in 1..Len(cs)}
<1>1. /\ Types /\ Current \in States /\ Current.fat = fat[0] /\ ch \in Chains
      /\ Sound(Current, ch)
  BY CurrentTyped DEF AtRest, Settled
<1>2. Len(cs) \in Nat /\ Cardinality(R) = Len(cs) /\ IsFiniteSet(R)
  BY ChainShort
<1>3. FreeOf(t) = FreeOf(Current) \cup R /\ FreeOf(Current) \cap R = {}
  BY <1>1 DEF FreeOf
<1>4. /\ IsFiniteSet(FreeOf(Current)) /\ Cardinality(FreeOf(Current)) \in Nat
      /\ Cardinality(FreeOf(t)) < Unknown
  BY <1>1, FreeFinite, FreeBelow
<1>5. Cardinality(FreeOf(t)) = Cardinality(FreeOf(Current)) + Len(cs)
  <2>1. Cardinality(FreeOf(Current) \cap R) = 0
    BY <1>3, FS_EmptySet
  <2>2. Cardinality(FreeOf(Current) \cup R)
        = Cardinality(FreeOf(Current)) + Cardinality(R)
          - Cardinality(FreeOf(Current) \cap R)
    BY <1>2, <1>4, FS_Union
  <2> HIDE DEF R
  <2> QED BY <1>2, <1>3, <1>4, <2>1, <2>2
<1> HIDE DEF R
<1>6. ASSUME ~damaged PROVE Counted(t, u, info'.count)
  <2>1. Counted(Current, ch, info.count)
    BY <1>6 DEF AtRest, Settled
  <2>2. info.count = Cardinality(FreeOf(Current))
    BY <2>1 DEF Counted, FreeOf
  <2>3. info'.count = info.count + Len(cs)
    BY <1>1, <1>4, <1>5, <2>2, CountUp
  <2>4. info'.count = Cardinality(FreeOf(t))
    BY <1>5, <2>2, <2>3
  <2>5. \A c \in Clusters : t.fat[c] # 0 => \E h \in Heads : In(u, h, c)
    BY <1>1, <2>1 DEF Counted, Owned1
  <2> QED BY <2>4, <2>5 DEF Counted, FreeOf
<1> QED BY <1>6

-----------------------------------------------------------------------------
(* What the calls do to the device, each from a sound state to another.     *)

(* A file's entry, with the chain that it has. *)
LEMMA FileUpdated ==
    ASSUME Fat32Assumption, NEW s \in States, NEW ch \in Chains, Sound(s, ch),
           NEW c \in Clusters, Listed(s, ch, c), s.ent[c].kind = "file",
           NEW e \in Records, e.kind = "file", e.first = s.ent[c].first,
           e.size <= Len(ch[c])
    PROVE  LET t == WithEnt(s, c, e)
           IN  /\ t \in States /\ Sound(t, ch)
               /\ \A d \in Clusters : Slotted(t, ch, d) <=> Slotted(s, ch, d)
<1> DEFINE t == WithEnt(s, c, e)
<1>1. c \in Heads /\ ch[c] \in Seq(Clusters)
  BY Constants DEF Chains
<1>2. /\ t \in States /\ t.fat = s.fat /\ t.ent[c] = e
      /\ \A d \in Clusters \ {c} : t.ent[d] = s.ent[d]
  BY DEF WithEnt, States
<1> HIDE DEF t
<1>3. Linked(s, ch) /\ Apart(ch) /\ Headed(s, ch)
  BY DEF Sound
<1>4. \A i \in 1..Len(ch[c]) :
          t.fat[ch[c][i]] = IF i = Len(ch[c]) THEN EOC ELSE ch[c][i + 1]
  BY <1>1, <1>2, <1>3 DEF Linked
<1>5. \A i, j \in 1..Len(ch[c]) : ch[c][i] = ch[c][j] => i = j
  BY <1>1, <1>3 DEF Apart
<1>6. \A h \in Heads \ {c} : \A i \in 1..Len(ch[c]) : \A j \in 1..Len(ch[h]) :
          ch[c][i] # ch[h][j]
  BY <1>1, <1>3 DEF Apart
<1>7. IF t.ent[c].first # 0 THEN Len(ch[c]) > 0 /\ ch[c][1] = t.ent[c].first
      ELSE ch[c] = <<>>
  BY <1>2, <1>3 DEF Headed
<1>8. [ch EXCEPT ![c] = ch[c]] = ch
  BY <1>1 DEF Chains
<1>9. LET u == [ch EXCEPT ![c] = ch[c]]
      IN  /\ u \in Chains /\ Sound(t, u)
          /\ \A d \in Clusters : Slotted(t, u, d) <=> Slotted(s, ch, d)
  BY <1>1, <1>2, <1>4, <1>5, <1>6, <1>7, FileSet DEF Listed
<1> QED BY <1>2, <1>8, <1>9 DEF t

(* A file is extended by a cluster that was free. *)
LongerBy(s, t, ch, c, n, u) ==
    /\ Sound(t, u) /\ u[c] = Append(ch[c], n)
    /\ \A h \in Heads \ {c} : u[h] = ch[h]
    /\ \A d \in Clusters : Slotted(t, u, d) <=> Slotted(s, ch, d)
    /\ \A x \in Clusters : Owned1(ch, x) \/ x = n => Owned1(u, x)
    /\ \A x \in Clusters : t.fat[x] = 0 <=> s.fat[x] = 0 /\ x # n
LEMMA Extended ==
    ASSUME Fat32Assumption, NEW s \in States, NEW t \in States, NEW ch \in Chains,
           Sound(s, ch),
           NEW c \in Clusters, Listed(s, ch, c), s.ent[c].kind = "file",
           NEW n \in Clusters, s.fat[n] = 0, t.fat[n] = EOC,
           ch[c] # <<>> => t.fat[ch[c][Len(ch[c])]] = n,
           \A x \in Clusters :
               x = n \/ (ch[c] # <<>> /\ x = ch[c][Len(ch[c])]) \/ t.fat[x] = s.fat[x],
           \A d \in Clusters \ {c} : t.ent[d] = s.ent[d],
           t.ent[c].kind = "file", t.ent[c].size <= Len(ch[c]) + 1,
           t.ent[c].first = IF ch[c] = <<>> THEN n ELSE s.ent[c].first
    PROVE  \E u \in Chains : LongerBy(s, t, ch, c, n, u)
<1> SUFFICES \E u \in Chains :
               /\ Sound(t, u) /\ u[c] = Append(ch[c], n)
               /\ \A h \in Heads \ {c} : u[h] = ch[h]
               /\ \A d \in Clusters : Slotted(t, u, d) <=> Slotted(s, ch, d)
               /\ \A x \in Clusters : Owned1(ch, x) \/ x = n => Owned1(u, x)
               /\ \A x \in Clusters : t.fat[x] = 0 <=> s.fat[x] = 0 /\ x # n
  BY DEF LongerBy
<1> DEFINE m == Len(ch[c])
           X == Append(ch[c], n)
           u == [ch EXCEPT ![c] = Append(@, n)]
<1>1. /\ c \in Heads /\ ch[c] \in Seq(Clusters) /\ EOC # 0 /\ 0 \notin Clusters
      /\ \A h \in Heads : ch[h] \in Seq(Clusters)
  BY Constants DEF Chains
<1>2. /\ m \in Nat /\ X \in Seq(Clusters) /\ Len(X) = m + 1 /\ X[m + 1] = n
      /\ \A i \in 1..m : X[i] = ch[c][i]
      /\ (ch[c] = <<>> <=> m = 0)
  BY <1>1
<1>3. Linked(s, ch) /\ Apart(ch) /\ Headed(s, ch)
  BY DEF Sound
<1>4. \A h \in Heads : \A j \in 1..Len(ch[h]) : ch[h][j] # n /\ ch[h][j] \in Clusters
  BY OwnedTaken DEF In
<1>5. m # 0 => m \in 1..m /\ ch[c][m] \in Clusters /\ s.fat[ch[c][m]] = EOC
  BY <1>1, <1>2, <1>3 DEF Linked
<1>6. ASSUME NEW i \in 1..Len(X)
      PROVE  t.fat[X[i]] = IF i = Len(X) THEN EOC ELSE X[i + 1]
  <2>1. CASE i = m + 1
    BY <1>2, <2>1
  <2>2. CASE i = m
    BY <1>2, <2>2
  <2>3. CASE i < m
    <3>1. /\ i \in 1..m /\ i + 1 \in 1..m /\ X[i] = ch[c][i] /\ X[i + 1] = ch[c][i + 1]
          /\ i # m
      BY <1>2, <2>3
    <3>2. X[i] # n /\ X[i] # ch[c][m] /\ X[i] \in Clusters
      BY <1>1, <1>2, <1>3, <1>4, <1>5, <2>3, <3>1 DEF Apart
    <3>3. t.fat[X[i]] = s.fat[X[i]]
      BY <3>2
    <3>4. s.fat[ch[c][i]] = ch[c][i + 1]
      BY <1>1, <1>3, <2>3, <3>1 DEF Linked
    <3> QED BY <1>2, <2>3, <3>1, <3>3, <3>4
  <2> QED BY <1>2, <2>1, <2>2, <2>3
<1>7. \A i, j \in 1..Len(X) : X[i] = X[j] => i = j
  <2>1. \A i \in 1..Len(X) : i = m + 1 \/ (i \in 1..m /\ X[i] = ch[c][i] /\ X[i] # n)
    BY <1>1, <1>2, <1>4
  <2> QED BY <1>1, <1>2, <1>3, <2>1 DEF Apart
<1>8. \A h \in Heads \ {c} : \A i \in 1..Len(X) : \A j \in 1..Len(ch[h]) :
          X[i] # ch[h][j]
  <2>1. \A i \in 1..Len(X) : i = m + 1 \/ (i \in 1..m /\ X[i] = ch[c][i])
    BY <1>1, <1>2
  <2> QED BY <1>1, <1>2, <1>3, <1>4, <2>1 DEF Apart
<1>9. \A h \in Heads \ {c} : \A j \in 1..Len(ch[h]) : t.fat[ch[h][j]] = s.fat[ch[h][j]]
  <2> SUFFICES ASSUME NEW h \in Heads \ {c}, NEW j \in 1..Len(ch[h])
               PROVE  t.fat[ch[h][j]] = s.fat[ch[h][j]]
    OBVIOUS
  <2>1. ch[h][j] \in Clusters /\ ch[h][j] # n
    BY <1>4
  <2>2. ch[c] # <<>> => ch[h][j] # ch[c][m]
    BY <1>1, <1>2, <1>3, <1>5 DEF Apart
  <2> DEFINE x == ch[h][j]
  <2>3. x \in Clusters /\ x # n /\ ~(ch[c] # <<>> /\ x = ch[c][Len(ch[c])])
    BY <2>1, <2>2
  <2> HIDE DEF x
  <2>4. t.fat[x] = s.fat[x]
    BY <2>3
  <2> QED BY <2>4 DEF x
<1>10. IF t.ent[c].first # 0 THEN Len(X) > 0 /\ X[1] = t.ent[c].first ELSE X = <<>>
  <2>1. CASE m = 0
    BY <1>1, <1>2, <2>1
  <2>2. CASE m # 0
    <3>1. ch[c][1] = s.ent[c].first /\ s.ent[c].first # 0
      BY <1>2, <1>3, <2>2 DEF Headed
    <3> QED BY <1>2, <2>2, <3>1
  <2> QED BY <2>1, <2>2
<1>11. /\ u \in Chains /\ Sound(t, u)
       /\ \A d \in Clusters : Slotted(t, u, d) <=> Slotted(s, ch, d)
  <2>1. t.ent[c].size <= Len(X)
    BY <1>2
  <2>2. u = [ch EXCEPT ![c] = X]
    OBVIOUS
  <2>3. Slotted(s, ch, c) /\ s.ent[c].kind # "dir"
    BY DEF Listed
  <2>4. \A i \in 1..Len(X) : t.fat[X[i]] = IF i = Len(X) THEN EOC ELSE X[i + 1]
    BY <1>6
  <2>5. X \in Seq(Clusters)
    BY <1>2
  <2> HIDE DEF X, m, u
  <2>6. \A d \in Clusters \ {c} : Slotted(s, ch, d) => t.ent[d] = s.ent[d]
    OBVIOUS
  <2>7. LET v == [ch EXCEPT ![c] = X]
        IN  /\ v \in Chains /\ Sound(t, v)
            /\ \A d \in Clusters : Slotted(t, v, d) <=> Slotted(s, ch, d)
    BY ONLY Fat32Assumption, s \in States, t \in States, ch \in Chains, Sound(s, ch),
       c \in Clusters, t.ent[c].kind = "file", <1>7, <1>8, <1>9, <1>10, <2>1, <2>3, <2>4,
       <2>5, <2>6, FileSet
  <2> QED BY <2>2, <2>7
<1>12. u[c] = X /\ \A h \in Heads \ {c} : u[h] = ch[h]
  BY <1>1 DEF Chains
<1>13. ASSUME NEW x \in Clusters, Owned1(ch, x) \/ x = n PROVE Owned1(u, x)
  <2> HIDE DEF u
  <2>1. CASE x = n
    <3>1. m + 1 \in 1..Len(u[c]) /\ u[c][m + 1] = n
      BY <1>2, <1>12
    <3> QED BY <1>1, <2>1, <3>1 DEF Owned1, In
  <2>2. CASE Owned1(ch, x)
    <3>1. PICK h \in Heads : In(ch, h, x)
      BY <2>2 DEF Owned1
    <3>2. PICK i \in 1..Len(ch[h]) : ch[h][i] = x
      BY <3>1 DEF In
    <3>3. CASE h = c
      <4>1. i \in 1..m /\ ch[c][i] = x
        BY <3>2, <3>3
      <4>2. i \in 1..Len(X) /\ X[i] = x
        BY ONLY <1>2, <4>1
      <4> QED BY <1>12, <3>3, <4>2 DEF Owned1, In
    <3>4. CASE h # c
      <4>1. u[h] = ch[h]
        BY <1>12, <3>4
      <4> QED BY <3>2, <4>1 DEF Owned1, In
    <3> QED BY <3>3, <3>4
  <2> QED BY <1>13, <2>1, <2>2
<1>14. ASSUME NEW x \in Clusters PROVE t.fat[x] = 0 <=> s.fat[x] = 0 /\ x # n
  <2>1. m # 0 => s.fat[ch[c][m]] # 0 /\ t.fat[ch[c][m]] # 0
    BY <1>1, <1>2, <1>5
  <2> QED BY <1>1, <1>2, <2>1
<1> HIDE DEF u
<1> QED BY <1>11, <1>12, <1>13, <1>14

(* The data of a file are written. *)
LEMMA DataWritten ==
    ASSUME Fat32Assumption, NEW s \in States, NEW ch \in Chains, Sound(s, ch),
           NEW c \in Clusters, s.ent[c].kind = "file", NEW x \in Clusters, In(ch, c, x),
           NEW e \in Records
    PROVE  LET t == WithEnt(s, x, e)
           IN  /\ t \in States /\ Sound(t, ch)
               /\ \A d \in Clusters : Slotted(t, ch, d) <=> Slotted(s, ch, d)
               /\ \A d \in Clusters : Slotted(s, ch, d) => t.ent[d] = s.ent[d]
<1> DEFINE t == WithEnt(s, x, e)
<1>1. t \in States /\ t.fat = s.fat /\ \A d \in Clusters \ {x} : t.ent[d] = s.ent[d]
  BY DEF WithEnt, States
<1> HIDE DEF t
<1>2. ~Slotted(s, ch, x)
  <2> SUFFICES ASSUME NEW h \in Heads, DirHead(s, ch, h), In(ch, h, x) PROVE FALSE
    BY DEF Slotted
  <2>1. c \in Heads /\ c # 0
    BY Constants
  <2>2. h = c
    BY <2>1 DEF In, Apart, Sound
  <2> QED BY <2>1, <2>2 DEF DirHead
<1>3. \A d \in Clusters : Slotted(s, ch, d) => t.ent[d] = s.ent[d]
  BY <1>1, <1>2
<1> QED BY <1>1, <1>3, Untouched DEF t

(* A file is cut to its first n clusters. *)
CutTo(s, ch, t, c, n) ==
    /\ n \in Nat /\ n < Len(ch[c])
    /\ \A x \in Clusters :
           t.fat[x] = IF n > 0 /\ x = ch[c][n] THEN EOC
                      ELSE IF \E i \in (n + 1)..Len(ch[c]) : ch[c][i] = x THEN 0
                      ELSE s.fat[x]
    /\ \A d \in Clusters \ {c} : t.ent[d] = s.ent[d]
    /\ t.ent[c].kind = "file" /\ t.ent[c].size <= n
    /\ t.ent[c].first = IF n = 0 THEN 0 ELSE s.ent[c].first
Shortened(s, ch, t, u, c, n) ==
    /\ Sound(t, u) /\ Len(u[c]) = n /\ \A h \in Heads \ {c} : u[h] = ch[h]
    /\ \A d \in Clusters : Slotted(t, u, d) <=> Slotted(s, ch, d)
    /\ \A x \in Clusters :
           Owned1(ch, x) /\ (\A i \in (n + 1)..Len(ch[c]) : ch[c][i] # x) =>
               Owned1(u, x)
    /\ \A x \in Clusters :
           t.fat[x] = 0 <=> s.fat[x] = 0 \/ \E i \in (n + 1)..Len(ch[c]) : ch[c][i] = x

(* A file's chain is cut after n clusters. *)
LEMMA Cut ==
    ASSUME Fat32Assumption, NEW s \in States, NEW t \in States, NEW ch \in Chains,
           Sound(s, ch),
           NEW c \in Clusters, Listed(s, ch, c), s.ent[c].kind = "file",
           NEW n, CutTo(s, ch, t, c, n)
    PROVE  \E u \in Chains : Shortened(s, ch, t, u, c, n)
<1> DEFINE m == Len(ch[c])
           X == SubSeq(ch[c], 1, n)
           u == [ch EXCEPT ![c] = SubSeq(@, 1, n)]
<1>1. /\ c \in Heads /\ ch[c] \in Seq(Clusters) /\ EOC # 0 /\ 0 \notin Clusters
      /\ \A h \in Heads : ch[h] \in Seq(Clusters)
  BY Constants DEF Chains
<1>2. /\ n \in Nat /\ n < m
      /\ \A x \in Clusters :
           t.fat[x] = IF n > 0 /\ x = ch[c][n] THEN EOC
                      ELSE IF \E i \in (n + 1)..m : ch[c][i] = x THEN 0 ELSE s.fat[x]
      /\ \A d \in Clusters \ {c} : t.ent[d] = s.ent[d]
      /\ t.ent[c].kind = "file" /\ t.ent[c].size <= n
      /\ t.ent[c].first = IF n = 0 THEN 0 ELSE s.ent[c].first
  BY DEF CutTo
<1>3. /\ m \in Nat /\ X \in Seq(Clusters) /\ Len(X) = n
      /\ \A i \in 1..n : X[i] = ch[c][i] /\ i \in 1..m
      /\ \A i \in 1..m : ch[c][i] \in Clusters
  BY <1>2, <1>1
<1>4. Linked(s, ch) /\ Apart(ch) /\ Headed(s, ch)
  BY DEF Sound
<1>5. \A h \in Heads : \A j \in 1..Len(ch[h]) :
          ch[h][j] \in Clusters /\ s.fat[ch[h][j]] # 0
  BY OwnedTaken DEF In
<1>6. \A i, j \in 1..m : ch[c][i] = ch[c][j] => i = j
  BY <1>1, <1>4 DEF Apart
<1> HIDE DEF m, X
<1>7. ASSUME NEW i \in 1..Len(X)
      PROVE  t.fat[X[i]] = IF i = Len(X) THEN EOC ELSE X[i + 1]
  <2>1. CASE i = n
    BY <1>2, <1>3, <2>1
  <2>2. CASE i # n
    <3>1. i \in 1..n /\ i < n /\ i \in 1..m /\ n \in 1..m /\ i + 1 \in 1..n /\ i # m
      BY <1>2, <1>3, <2>2
    <3>2. X[i] = ch[c][i] /\ X[i] # ch[c][n] /\ X[i] \in Clusters
      BY <1>2, <1>3, <1>6, <2>2, <3>1
    <3>3. ~\E j \in (n + 1)..m : ch[c][j] = X[i]
      BY <1>2, <1>3, <1>6, <3>1, <3>2
    <3>4. t.fat[X[i]] = s.fat[X[i]]
      BY <1>2, <3>2, <3>3 DEF m
    <3>5. s.fat[ch[c][i]] = ch[c][i + 1]
      BY <1>1, <1>4, <3>1 DEF Linked, m
    <3> QED BY <1>2, <1>3, <2>2, <3>1, <3>2, <3>4, <3>5
  <2> QED BY <2>1, <2>2
<1>8. \A i, j \in 1..Len(X) : X[i] = X[j] => i = j
  BY <1>2, <1>3, <1>6
<1>9. \A h \in Heads \ {c} : \A i \in 1..m : \A j \in 1..Len(ch[h]) :
          ch[c][i] # ch[h][j]
  BY <1>1, <1>4 DEF Apart, m
<1>10. \A h \in Heads \ {c} : \A j \in 1..Len(ch[h]) : t.fat[ch[h][j]] = s.fat[ch[h][j]]
  <2> SUFFICES ASSUME NEW h \in Heads \ {c}, NEW j \in 1..Len(ch[h])
               PROVE  t.fat[ch[h][j]] = s.fat[ch[h][j]]
    OBVIOUS
  <2>1. ch[h][j] \in Clusters
    BY <1>5
  <2>2. ~(n > 0 /\ ch[h][j] = ch[c][n]) /\ ~\E i \in (n + 1)..m : ch[c][i] = ch[h][j]
    BY <1>2, <1>3, <1>9
  <2> QED BY <1>2, <2>1, <2>2 DEF m
<1>11. IF t.ent[c].first # 0 THEN Len(X) > 0 /\ X[1] = t.ent[c].first ELSE X = <<>>
  <2>1. CASE n = 0
    BY <1>2, <1>3, <2>1
  <2>2. CASE n # 0
    <3>1. ch[c][1] = s.ent[c].first /\ s.ent[c].first # 0
      BY <1>2, <1>3, <1>4, <2>2 DEF Headed, m
    <3> QED BY <1>2, <1>3, <2>2, <3>1
  <2> QED BY <2>1, <2>2
<1>12. /\ u \in Chains /\ Sound(t, u)
       /\ \A d \in Clusters : Slotted(t, u, d) <=> Slotted(s, ch, d)
  <2>1. t.ent[c].size <= Len(X)
    BY <1>2, <1>3
  <2>2. u = [ch EXCEPT ![c] = X]
    BY DEF X
  <2>3. \A h \in Heads \ {c} : \A i \in 1..Len(X) : \A j \in 1..Len(ch[h]) :
            X[i] # ch[h][j]
    BY <1>2, <1>3, <1>9
  <2> HIDE DEF u
  <2> QED BY <1>2, <1>3, <1>7, <1>8, <1>10, <1>11, <2>1, <2>2, <2>3, FileSet DEF Listed
<1>13. u[c] = X /\ \A h \in Heads \ {c} : u[h] = ch[h]
  BY <1>1 DEF Chains, X
<1> HIDE DEF u
<1>14. ASSUME NEW x \in Clusters, Owned1(ch, x), \A i \in (n + 1)..m : ch[c][i] # x
       PROVE  Owned1(u, x)
  <2>1. PICK h \in Heads : In(ch, h, x)
    BY <1>14 DEF Owned1
  <2>2. PICK i \in 1..Len(ch[h]) : ch[h][i] = x
    BY <2>1 DEF In
  <2>3. CASE h = c
    <3>1. i \in 1..n
      BY <1>2, <1>3, <1>14, <2>2, <2>3 DEF m
    <3>2. i \in 1..Len(u[c]) /\ u[c][i] = x
      BY <1>2, <1>3, <1>13, <2>2, <2>3, <3>1
    <3> QED BY <1>1, <3>2 DEF Owned1, In
  <2>4. CASE h # c
    BY <1>13, <2>1, <2>4 DEF Owned1, In
  <2> QED BY <2>3, <2>4
<1>15. ASSUME NEW x \in Clusters
       PROVE  t.fat[x] = 0 <=> s.fat[x] = 0 \/ \E i \in (n + 1)..m : ch[c][i] = x
  <2>1. n > 0 => s.fat[ch[c][n]] # 0 /\ ~\E i \in (n + 1)..m : ch[c][i] = ch[c][n]
    BY <1>2, <1>1, <1>3, <1>5, <1>6 DEF m
  <2> QED BY <1>2, <1>1, <2>1 DEF m
<1> QED BY <1>2, <1>3, <1>12, <1>13, <1>14, <1>15 DEF m, Shortened

(* A directory has a free slot, or grows by one: no power failure comes     *)
(* then, and the directory k is read as the call finds it.                  *)
Roomy(s, u, k, c, cs, t, v) ==
    /\ Sound(t, v) /\ c \in Clusters /\ DirHead(t, v, k) /\ In(v, k, c)
    /\ t.ent[c].kind \in {"free", "deleted"}
    /\ Slotted(s, u, c) => s.ent[c].kind \in {"free", "deleted"}
    /\ \A x \in Clusters : Slotted(t, v, x) <=> Slotted(s, u, x) \/ x = c
    /\ \A x \in Clusters \ {c} : t.ent[x] = s.ent[x]
    /\ \A h \in Heads \ {k} : v[h] = u[h]
    /\ \A x : In(v, k, x) <=> In(u, k, x) \/ \E i \in 1..Len(cs) : cs[i] = x
    /\ cs \in Seq(Clusters) /\ \A i, j \in 1..Len(cs) : cs[i] = cs[j] => i = j
    /\ \A i \in 1..Len(cs) : s.fat[cs[i]] = 0
    /\ Range(cs) = {cs[i] : i \in 1..Len(cs)}
    /\ \A x \in Clusters : t.fat[x] = 0 <=>
           s.fat[x] = 0 /\ \A i \in 1..Len(cs) : cs[i] # x
    /\ \A x \in Clusters : ~Owned1(u, x) /\ s.fat[x] # 0 => t.fat[x] = s.fat[x]

(* A directory is given room for an entry: a slot of its own or a new       *)
(* cluster.                                                                 *)
LEMMA Roomed ==
    ASSUME Fat32Assumption, Types, NEW s \in States, NEW u \in Chains, Sound(s, u),
           s.fat = fat[0],
           NEW gone, NEW k \in Heads, NEW d, DirHead(s, u, k), Chain(d) = u[k],
           Room(d, gone),
           \A x \in Clusters :
               IF x \in gone THEN s.ent[x] = Deleted ELSE s.ent[x] = ent[x]
    PROVE  \E t \in States, v \in Chains :
               /\ Grow(d, gone) \in Seq(Writes) /\ Leads(s, Grow(d, gone), t)
               /\ Roomy(s, u, k, Slot(d, gone), Taken(d, gone), t, v)
<1> DEFINE c == Slot(d, gone)
           cs == Taken(d, gone)
<1> HIDE DEF c, cs
<1>1. /\ u[k] \in Seq(Clusters) /\ Len(u[k]) \in Nat /\ EOC # 0 /\ EOC \in Links
      /\ \A h \in Heads : h = 0 \/ h \in Clusters
      /\ 0 \notin Clusters /\ 0 \in Heads /\ \A x \in Clusters : x \in Links
  BY Constants DEF Chains, Heads, Links
<1>2. FreeSlots(d, gone) =
          {i \in 1..Len(u[k]) : s.ent[u[k][i]].kind \in {"free", "deleted"}}
  <2>1. \A x \in Clusters :
           s.ent[x].kind \in {"free", "deleted"} <=>
               ent[x].kind \in {"free", "deleted"} \/ x \in gone
    BY DEF Deleted, NoEntry
  <2>2. DOMAIN Chain(d) = 1..Len(u[k]) /\ \A i \in 1..Len(u[k]) : u[k][i] \in Clusters
    BY <1>1
  <2> QED BY <2>1, <2>2 DEF FreeSlots
<1>3. CASE ~Grows(d, gone)
  <2>1. FreeSlots(d, gone) # {} /\ FreeSlots(d, gone) \in SUBSET Nat
    BY <1>2, <1>3 DEF Grows
  <2>2. Least(FreeSlots(d, gone)) \in FreeSlots(d, gone)
    BY <2>1, LeastChosen
  <2>3. c = u[k][Least(FreeSlots(d, gone))] /\ cs = <<>> /\ Grow(d, gone) = <<>>
    BY <1>3 DEF Slot, Taken, Grow, c, cs
  <2>4. In(u, k, c) /\ c \in Clusters /\ s.ent[c].kind \in {"free", "deleted"}
    <3> DEFINE i == Least(FreeSlots(d, gone))
    <3>1. i \in FreeSlots(d, gone) /\ c = u[k][i]
      BY <2>2, <2>3
    <3> HIDE DEF i
    <3>2. i \in 1..Len(u[k]) /\ s.ent[u[k][i]].kind \in {"free", "deleted"}
      BY ONLY <1>2, <3>1
    <3>3. u[k][i] \in Clusters
      BY <1>1, <3>2
    <3> QED BY <3>1, <3>2, <3>3 DEF In
  <2>5. Slotted(s, u, c)
    BY <2>4 DEF Slotted
  <2>6. /\ <<>> \in Seq(Writes) /\ Leads(s, <<>>, s) /\ <<>> \in Seq(Clusters)
        /\ Len(<<>>) = 0
        /\ Range(<<>>) = {<<>>[i] : i \in 1..0}
    BY LeadsNone DEF Range
  <2>7. Roomy(s, u, k, c, cs, s, u)
    BY <2>3, <2>4, <2>5, <2>6 DEF Roomy
  <2> QED BY <2>3, <2>6, <2>7 DEF c, cs
<1>4. CASE Grows(d, gone)
  <2> DEFINE last == u[k][Len(u[k])]
             s1 == WithFat(s, c, EOC)
             s2 == WithFat(s1, last, c)
             t == WithEnt(s2, c, Free)
  <2>1. c = Search({}) /\ c # 0 /\ cs = << c >>
    BY <1>4 DEF Slot, Taken, Room, c, cs
  <2>2. c \in Clusters /\ fat[0][c] = 0
    BY <2>1, SearchFinds
  <2>3. \A h \in Heads : \A j \in 1..Len(u[h]) : u[h][j] # c
    BY <2>2, OwnedTaken DEF In
  <2>4. Len(u[k]) # 0
    <3>1. CASE k = 0
      BY <3>1 DEF Sound, Rooted
    <3>2. CASE k # 0
      <4>1. k \in Clusters /\ In(u, 0, k) /\ s.ent[k].kind = "dir"
        BY <1>1, <3>2 DEF DirHead
      <4>2. Listed(s, u, k)
        BY <1>1, <4>1 DEF Listed, Slotted, DirHead, Used
      <4> QED BY <4>1, <4>2 DEF Sound, Headed, Sized
    <3> QED BY <3>1, <3>2
  <2>5. /\ last \in Clusters /\ Last(Chain(d)) = last /\ last # c
        /\ Len(u[k]) \in 1..Len(u[k])
    BY <1>1, <2>3, <2>4 DEF Last
  <2>6. s.ent[last].kind # "free" /\ In(u, k, last)
    <3>1. Len(u[k]) \notin FreeSlots(d, gone)
      BY <1>4 DEF Grows
    <3> QED BY <1>2, <2>5, <3>1 DEF In
  <2>7. "grow" \in Ops /\ "grow" \notin CrashIn
    BY DEF Ops, Fat32Assumption
  <2>8. fat_set("grow", c, EOC) \in Seq(Writes) /\ s1 \in States
        /\ Leads(s, fat_set("grow", c, EOC), s1)
    BY <1>1, <2>2, <2>7, FatSetLeads
  <2>9. fat_set("grow", last, c) \in Seq(Writes) /\ s2 \in States
        /\ Leads(s1, fat_set("grow", last, c), s2)
    <3> HIDE DEF s1, last
    <3> QED BY <1>1, <2>2, <2>5, <2>7, <2>8, FatSetLeads DEF s1
  <2>10. Free \in Records
    BY Constants DEF Records, Free, NoEntry, Kinds, Used, Heads, Fat32Assumption
  <2>11. SetEntry("grow", c, Free) \in Seq(Writes) /\ t \in States
         /\ Leads(s2, SetEntry("grow", c, Free), t)
    <3> HIDE DEF s2
    <3> QED BY <2>2, <2>7, <2>9, <2>10, EntryLeads DEF s2
  <2>12. Grow(d, gone) = fat_set("grow", c, EOC) \o fat_set("grow", last, c)
             \o SetEntry("grow", c, Free)
    BY <1>4, <2>5 DEF Grow, c
  <2>13. Grow(d, gone) \in Seq(Writes) /\ Leads(s, Grow(d, gone), t)
    <3> DEFINE A == fat_set("grow", c, EOC)
               B == fat_set("grow", last, c)
               E == SetEntry("grow", c, Free)
    <3>1. A \in Seq(Writes) /\ B \in Seq(Writes) /\ E \in Seq(Writes)
          /\ Leads(s, A, s1) /\ Leads(s1, B, s2) /\ Leads(s2, E, t)
      BY <2>8, <2>9, <2>11
    <3> HIDE DEF A, B, E, s1, s2, t
    <3>2. A \o B \in Seq(Writes) /\ Leads(s, A \o B, s2)
      BY <3>1, LeadsOn
    <3>3. (A \o B) \o E \in Seq(Writes) /\ Leads(s, (A \o B) \o E, t)
      BY <3>1, <3>2, LeadsOn
    <3> QED BY <2>12, <3>3 DEF A, B, E
  <2>14. /\ t.fat = [[s.fat EXCEPT ![c] = EOC] EXCEPT ![last] = c]
         /\ t.ent = [s.ent EXCEPT ![c] = Free]
    BY DEF WithFat, WithEnt
  <2>15. /\ t.fat[c] = EOC /\ t.fat[last] = c /\ t.ent[c] = Free
         /\ \A x \in Clusters : x # c /\ x # last => t.fat[x] = s.fat[x]
         /\ \A x \in Clusters : x # c => t.ent[x] = s.ent[x]
    BY <2>2, <2>5, <2>14 DEF States
  <2> HIDE DEF t, s1, s2
  <2>16. \A h \in Heads : \A j \in 1..Len(u[h]) : u[h][j] \in Clusters
    BY DEF Chains
  <2>17. ~Slotted(s, u, c)
    BY <2>3 DEF Slotted, In
  <2>18. t.ent[c].kind = "free"
    BY <2>15 DEF Free, NoEntry
  <2>19. PICK v \in Chains :
            /\ Sound(t, v) /\ v[k] = Append(u[k], c)
            /\ \A h \in Heads \ {k} : v[h] = u[h]
            /\ \A x \in Clusters : Slotted(t, v, x) <=> Slotted(s, u, x) \/ x = c
    <3>1. \A h \in Heads : \A j \in 1..Len(u[h]) :
             u[h][j] # c /\ (u[h][j] # last => t.fat[u[h][j]] = s.fat[u[h][j]])
      BY <2>3, <2>15, <2>16
    <3>2. \A x \in Clusters : Slotted(s, u, x) => t.ent[x] = s.ent[x]
      BY <2>15, <2>17
    <3>3. t \in States /\ c \in Clusters /\ s.ent[last].kind # "free"
          /\ t.fat[c] = EOC /\ t.fat[last] = c /\ last = u[k][Len(u[k])]
      BY <2>2, <2>6, <2>11, <2>15
    <3> HIDE DEF last, c
    <3>4. LinkedOn(s, t, u, k, c, last)
      BY <2>18, <3>1, <3>2, <3>3 DEF LinkedOn
    <3>5. \E v \in Chains : GrownBy(s, t, u, k, c, v)
      BY ONLY Fat32Assumption, s \in States, u \in Chains, Sound(s, u), k \in Heads,
         <3>3, <3>4, DirGrown
    <3> QED BY <3>5 DEF GrownBy
  <2> HIDE DEF last
  <2>20. \A x : In(v, k, x) <=> In(u, k, x) \/ x = c
    <3>1. /\ Len(v[k]) = Len(u[k]) + 1 /\ v[k][Len(u[k]) + 1] = c
          /\ \A i \in 1..Len(u[k]) : v[k][i] = u[k][i]
      <4> DEFINE X == u[k]
      <4>1. X \in Seq(Clusters) /\ v[k] = Append(X, c) /\ c \in Clusters
        BY <1>1, <2>2, <2>19
      <4> HIDE DEF X, c
      <4>2. /\ Len(Append(X, c)) = Len(X) + 1 /\ Append(X, c)[Len(X) + 1] = c
            /\ \A i \in 1..Len(X) : Append(X, c)[i] = X[i]
        BY ONLY <4>1
      <4> QED BY <4>1, <4>2 DEF X
    <3> DEFINE n == Len(u[k])
    <3>2. n \in Nat
      BY <1>1
    <3> HIDE DEF n
    <3>3. ASSUME NEW x, NEW i \in 1..(n + 1), v[k][i] = x PROVE In(u, k, x) \/ x = c
      <4>1. i = n + 1 \/ i \in 1..n
        BY <3>2
      <4> QED BY <3>1, <3>3, <4>1 DEF In, n
    <3>4. ASSUME NEW x, NEW i \in 1..n, u[k][i] = x PROVE i \in 1..(n + 1) /\ v[k][i] = x
      BY <3>1, <3>2, <3>4 DEF n
    <3>5. n + 1 \in 1..(n + 1) /\ v[k][n + 1] = c /\ Len(v[k]) = n + 1
      BY <3>1, <3>2 DEF n
    <3> QED BY <3>3, <3>4, <3>5 DEF In, n
  <2>21. DirHead(t, v, k)
    <3>1. CASE k = 0
      BY <3>1 DEF DirHead
    <3>2. CASE k # 0
      <4>1. k \in Clusters /\ In(u, 0, k) /\ s.ent[k].kind = "dir"
        BY <1>1, <3>2 DEF DirHead
      <4>2. Slotted(s, u, k)
        BY <1>1, <4>1 DEF Slotted, DirHead
      <4>3. t.ent[k] = s.ent[k]
        BY <2>15, <2>17, <4>1, <4>2
      <4>4. In(v, 0, k)
        BY <1>1, <2>19, <3>2, <4>1 DEF In
      <4> QED BY <4>1, <4>3, <4>4 DEF DirHead
    <3> QED BY <3>1, <3>2
  <2>22. s.fat[last] # 0
    BY <2>6, OwnedTaken
  <2>23. \A x \in Clusters : t.fat[x] = 0 <=> s.fat[x] = 0 /\ x # c
    BY <1>1, <2>2, <2>15, <2>22
  <2>24. \A x \in Clusters : ~Owned1(u, x) /\ s.fat[x] # 0 => t.fat[x] = s.fat[x]
    BY <2>2, <2>6, <2>15 DEF Owned1
  <2>25. /\ Len(cs) = 1 /\ cs[1] = c /\ cs \in Seq(Clusters)
         /\ Range(cs) = {cs[i] : i \in 1..Len(cs)}
    BY <2>1, <2>2 DEF Range
  <2>26. Roomy(s, u, k, c, cs, t, v)
    BY <2>2, <2>15, <2>17, <2>18, <2>19, <2>20, <2>21, <2>23, <2>24, <2>25 DEF Roomy
  <2> QED BY <2>11, <2>13, <2>26 DEF c, cs
<1> QED BY <1>3, <1>4

(* A file with the chain X, which is no entry's, is put in the slot. *)
Loose(s, u, e, X) ==
    /\ X \in Seq(Clusters) /\ \A i, j \in 1..Len(X) : X[i] = X[j] => i = j
    /\ \A i \in 1..Len(X) : s.fat[X[i]] = IF i = Len(X) THEN EOC ELSE X[i + 1]
    /\ \A i \in 1..Len(X) : ~Owned1(u, X[i])
    /\ e \in Records /\ e.kind = "file" /\ e.size <= Len(X)
    /\ IF e.first # 0 THEN Len(X) > 0 /\ X[1] = e.first ELSE X = <<>>
Placed(s, u, c, e, cs, X, t, w) ==
    /\ Sound(t, w) /\ Listed(t, w, c) /\ t.ent[c] = e /\ w[c] = X
    /\ Kept(s, u, t, w, c)
    /\ \A x \in Clusters :
           (\/ Owned1(u, x) \/ (\E i \in 1..Len(cs) : cs[i] = x)
            \/ (\E i \in 1..Len(X) : X[i] = x)) =>
               Owned1(w, x)
    /\ \A x \in Clusters : t.fat[x] = 0 <=>
           s.fat[x] = 0 /\ \A i \in 1..Len(cs) : cs[i] # x
    /\ ~Listed(s, u, c)

(* An entry is put where there is room for it. *)
LEMMA FilePlaced ==
    ASSUME Fat32Assumption, NEW s \in States, NEW u \in Chains, Sound(s, u),
           NEW k \in Heads, NEW c, NEW cs, NEW t \in States, NEW v \in Chains,
           DirHead(s, u, k),
           Roomy(s, u, k, c, cs, t, v), NEW e, NEW X, Loose(s, u, e, X)
    PROVE  /\ WithEnt(t, c, e) \in States
           /\ \E w \in Chains : Placed(s, u, c, e, cs, X, WithEnt(t, c, e), w)
<1> DEFINE r == WithEnt(t, c, e)
           w == [v EXCEPT ![c] = X]
<1>1. /\ X \in Seq(Clusters) /\ \A i, j \in 1..Len(X) : X[i] = X[j] => i = j
      /\ \A i \in 1..Len(X) : s.fat[X[i]] = IF i = Len(X) THEN EOC ELSE X[i + 1]
      /\ \A i \in 1..Len(X) : ~Owned1(u, X[i])
      /\ e \in Records /\ e.kind = "file" /\ e.size <= Len(X)
      /\ IF e.first # 0 THEN Len(X) > 0 /\ X[1] = e.first ELSE X = <<>>
  BY DEF Loose
<1>2. /\ c \in Clusters /\ Sound(t, v) /\ DirHead(t, v, k) /\ In(v, k, c)
      /\ t.ent[c].kind \in {"free", "deleted"}
      /\ \A x \in Clusters : Slotted(t, v, x) <=> Slotted(s, u, x) \/ x = c
      /\ \A x \in Clusters \ {c} : t.ent[x] = s.ent[x]
      /\ \A h \in Heads \ {k} : v[h] = u[h]
      /\ Slotted(s, u, c) => s.ent[c].kind \in {"free", "deleted"}
      /\ \A x \in Clusters : t.fat[x] = 0 <=>
             s.fat[x] = 0 /\ \A i \in 1..Len(cs) : cs[i] # x
  BY DEF Roomy
<1>3. /\ c \in Heads /\ Slotted(t, v, c) /\ v[c] = <<>> /\ EOC # 0 /\ 0 \notin Clusters
      /\ \A x \in Clusters : x \in Heads
  BY <1>2, Constants DEF Sound, Headed, Listed, Used
<1>4. /\ r \in States /\ r.fat = t.fat /\ r.ent[c] = e
      /\ \A d \in Clusters \ {c} : r.ent[d] = t.ent[d]
  BY <1>2, <1>1 DEF WithEnt, States
<1> HIDE DEF r
<1>5. \A i \in 1..Len(X) :
          X[i] \in Clusters /\ s.fat[X[i]] # 0 /\ t.fat[X[i]] = s.fat[X[i]]
  <2>1. \A i \in 1..Len(X) : X[i] \in Clusters /\ s.fat[X[i]] # 0
    BY <1>3, <1>1
  <2>2. \A x \in Clusters : ~Owned1(u, x) /\ s.fat[x] # 0 => t.fat[x] = s.fat[x]
    BY DEF Roomy
  <2> QED BY <1>1, <2>1, <2>2
<1>6. \A h \in Heads : \A i \in 1..Len(X) : ~In(v, h, X[i])
  <2>1. \A x : In(v, k, x) <=> In(u, k, x) \/ \E i \in 1..Len(cs) : cs[i] = x
    BY DEF Roomy
  <2>2. \A i \in 1..Len(cs) : s.fat[cs[i]] = 0
    BY DEF Roomy
  <2>3. \A h \in Heads : \A i \in 1..Len(X) : ~In(u, h, X[i])
    BY <1>1 DEF Owned1
  <2>4. \A i \in 1..Len(X) : ~In(v, k, X[i])
    BY <1>5, <2>1, <2>2, <2>3
  <2>5. \A h \in Heads \ {k} : \A i \in 1..Len(X) : ~In(v, h, X[i])
    BY <1>2, <2>3 DEF In
  <2> QED BY <2>4, <2>5
<1>7. /\ w \in Chains /\ Sound(r, w)
      /\ \A d \in Clusters : Slotted(r, w, d) <=> Slotted(t, v, d)
  <2>1. \A i \in 1..Len(X) : r.fat[X[i]] = IF i = Len(X) THEN EOC ELSE X[i + 1]
    BY <1>4, <1>5, <1>1
  <2>2. /\ r.ent[c].kind = "file" /\ r.ent[c].size <= Len(X)
        /\ IF r.ent[c].first # 0 THEN Len(X) > 0 /\ X[1] = r.ent[c].first ELSE X = <<>>
    BY <1>4, <1>1
  <2>3. \A h \in Heads \ {c} : \A i \in 1..Len(X) : \A j \in 1..Len(v[h]) :
            X[i] # v[h][j]
    BY <1>6 DEF In
  <2>4. e.kind = "file" /\ s \in States /\ t.ent[c].kind # "dir" /\ Slotted(t, v, c)
    BY <1>1, <1>2, <1>3
  <2>5. /\ \A h \in Heads \ {c} : \A j \in 1..Len(v[h]) : r.fat[v[h][j]] = t.fat[v[h][j]]
        /\ \A d \in Clusters \ {c} : Slotted(t, v, d) => r.ent[d] = t.ent[d]
    BY <1>4
  <2>6. /\ X \in Seq(Clusters) /\ \A i, j \in 1..Len(X) : X[i] = X[j] => i = j
        /\ c \in Clusters /\ Sound(t, v) /\ r \in States
    BY <1>1, <1>2, <1>4
  <2> QED BY ONLY Fat32Assumption, t \in States, v \in Chains, <2>1, <2>2, <2>3, <2>4,
             <2>5, <2>6, FileSet
<1>8. w[c] = X /\ \A h \in Heads \ {c} : w[h] = v[h]
  BY <1>3, <1>1 DEF Chains
<1> HIDE DEF w
<1>9. ASSUME NEW x \in Clusters,
             \/ Owned1(u, x) \/ (\E i \in 1..Len(cs) : cs[i] = x)
             \/ (\E i \in 1..Len(X) : X[i] = x)
      PROVE  Owned1(w, x)
  <2>1. \A j \in Heads \ {k} : In(u, j, x) => In(v, j, x)
    BY <1>2 DEF In
  <2>2. In(u, k, x) \/ (\E i \in 1..Len(cs) : cs[i] = x) => In(v, k, x)
    BY DEF Roomy
  <2>3. \A j \in Heads : In(v, j, x) => In(w, j, x)
    BY <1>3, <1>8 DEF In
  <2>4. (\E i \in 1..Len(X) : X[i] = x) => In(w, c, x)
    BY <1>8 DEF In
  <2> QED BY <1>3, <1>9, <2>1, <2>2, <2>3, <2>4 DEF Owned1
<1>10. ASSUME NEW x \in Clusters \ {c}, Listed(s, u, x), s.ent[x].kind = "file"
       PROVE  Listed(r, w, x) /\ r.ent[x] = s.ent[x] /\ w[x] = u[x]
  <2>1. x # k
    BY <1>3, <1>10 DEF DirHead
  <2> QED BY <1>2, <1>3, <1>4, <1>7, <1>8, <1>10, <2>1 DEF Listed
<1>11. Listed(r, w, c) /\ ~Listed(s, u, c)
  BY <1>2, <1>3, <1>4, <1>7, <1>1 DEF Listed, Used
<1>12. Placed(s, u, c, e, cs, X, r, w)
  BY <1>2, <1>4, <1>7, <1>8, <1>9, <1>10, <1>11 DEF Placed, Kept
<1> QED BY <1>4, <1>7, <1>12 DEF r

(* create leaves writes that lead to a settled state. *)
LEMMA CreateDone ==
    ASSUME Fat32Assumption, NEW ch, AtRest(ch), NEW h \in Handles, NEW d \in Clusters,
           NEW name \in Names, create(h, d, name)
    PROVE  Done(writes', handle', info', damaged')
<1> DEFINE c == Slot(d, {})
           cs == Taken(d, {})
           e == Entry("file", name, 0, 0)
           g == [slot |-> c, first |-> 0, size |-> 0]
           X == <<>>
<1>1. /\ Types /\ Current \in States /\ Current.fat = fat[0] /\ Current.ent = ent
      /\ ch \in Chains
      /\ Sound(Current, ch) /\ Agrees(Current, ch, handle)
      /\ fat \in [{0, 1} -> [Clusters -> Links]] /\ ent \in [Clusters -> Records]
      /\ handle \in [Handles -> {NULL} \cup OpenFiles] /\ damaged \in BOOLEAN
  BY CurrentTyped DEF AtRest, Settled, Types
<1>2. /\ writes' = Grow(d, {}) \o SetEntry("create", c, e)
      /\ handle' = [handle EXCEPT ![h] = g]
      /\ CountAllocated(cs) /\ damaged' = damaged /\ d \in Dirs /\ Room(d, {})
      /\ handle[h] = NULL
  BY DEF create
<1>3. PICK k \in Heads : DirHead(Current, ch, k) /\ Chain(d) = ch[k]
  BY <1>1, <1>2, Reads
<1>4. \A x \in Clusters :
          IF x \in {} THEN Current.ent[x] = Deleted ELSE Current.ent[x] = ent[x]
  BY <1>1
<1>5. PICK t \in States, v \in Chains :
           /\ Grow(d, {}) \in Seq(Writes) /\ Leads(Current, Grow(d, {}), t)
           /\ Roomy(Current, ch, k, Slot(d, {}), Taken(d, {}), t, v)
  <2> HIDE DEF c, cs
  <2> QED BY <1>1, <1>2, <1>3, <1>4, Roomed
<1> HIDE DEF c, cs
<1>6. Roomy(Current, ch, k, c, cs, t, v) /\ Sound(t, v) /\ c \in Clusters
  BY <1>5 DEF c, cs, Roomy
<1>7. /\ e \in Records /\ e.kind = "file" /\ e.size = 0 /\ e.first = 0
      /\ "create" \in Ops
      /\ X \in Seq(Clusters) /\ Len(X) = 0 /\ X = <<>>
  BY Constants DEF Entry, Records, Kinds, Used, Heads, Ops, Fat32Assumption
<1> DEFINE u == WithEnt(t, c, e)
<1> HIDE DEF e, X
<1>8. PICK w \in Chains : Placed(Current, ch, c, e, cs, X, u, w)
  <2>1. Loose(Current, ch, e, X)
    BY <1>7 DEF Loose
  <2> QED BY <1>1, <1>3, <1>6, <1>7, <2>1, FilePlaced
<1>9. /\ SetEntry("create", c, e) \in Seq(Writes) /\ u \in States
      /\ Leads(t, SetEntry("create", c, e), u)
  BY <1>6, <1>7, EntryLeads DEF Safe
<1> HIDE DEF u
<1>10. writes' \in Seq(Writes) /\ Leads(Current, writes', u)
  BY <1>2, <1>5, <1>9, LeadsOn
<1>11. info' \in Infos /\ (~damaged => Counted(u, w, info'.count))
  <2>1. /\ cs \in Seq(Clusters) /\ \A i, j \in 1..Len(cs) : cs[i] = cs[j] => i = j
        /\ \A i \in 1..Len(cs) : fat[0][cs[i]] = 0
    BY <1>1, <1>6 DEF Roomy
  <2>2. /\ \A x \in Clusters : u.fat[x] = 0 <=>
               fat[0][x] = 0 /\ \A i \in 1..Len(cs) : cs[i] # x
        /\ \A x \in Clusters : Owned1(ch, x) \/ (\E i \in 1..Len(cs) : cs[i] = x) =>
               Owned1(w, x)
    BY <1>1, <1>8 DEF Placed
  <2> QED BY <1>2, <1>9, <2>1, <2>2, Allocates
<1>12. /\ handle' \in [Handles -> {NULL} \cup OpenFiles]
       /\ g.slot = c /\ g.first = 0 /\ g.size = 0
  BY <1>1, <1>2, <1>6, Constants DEF OpenFiles, Fat32Assumption
<1>13. Agrees(u, w, handle')
  <2>1. Kept(Current, ch, u, w, c)
    BY <1>8 DEF Placed
  <2>2. OpenBy(handle, h, c)
    BY <1>1, <1>8 DEF Agrees, Placed, OpenBy
  <2>3. OpenAs(u, w, c, g)
    BY <1>7, <1>8, <1>12 DEF Placed, OpenAs
  <2> HIDE DEF g
  <2>4. Reopened(handle, handle', h, g)
    BY <1>1, <1>2 DEF Reopened
  <2> QED BY <1>1, <1>6, <2>1, <2>2, <2>3, <2>4, AgreesFile
<1>14. Sound(u, w)
  BY <1>8 DEF Placed
<1> QED BY <1>1, <1>2, <1>9, <1>10, <1>11, <1>12, <1>13, <1>14 DEF Done, Settled

(* What holds between calls. *)
LEMMA Resting ==
    ASSUME Fat32Assumption, NEW ch, AtRest(ch)
    PROVE  /\ Types /\ Current \in States /\ Current.fat = fat[0] /\ Current.ent = ent
           /\ ch \in Chains /\ \A h \in Heads : ch[h] \in Seq(Clusters)
           /\ Sound(Current, ch) /\ Agrees(Current, ch, handle)
           /\ ~damaged => Counted(Current, ch, info.count)
           /\ fat \in [{0, 1} -> [Clusters -> Links]] /\ ent \in [Clusters -> Records]
           /\ handle \in [Handles -> {NULL} \cup OpenFiles] /\ damaged \in BOOLEAN
           /\ info \in Infos /\ writes \in Seq(Writes)
BY CurrentTyped DEF AtRest, Settled, Types, Chains

(* The search for a free cluster between calls. *)
LEMMA FreeFound ==
    ASSUME Fat32Assumption, NEW ch, AtRest(ch), NEW n, n = Search({}), n # 0
    PROVE  n \in Clusters /\ fat[0][n] = 0
<1>1. Types
  BY DEF AtRest
<1> QED BY <1>1, SearchFinds

(* What holds of an open file between calls. *)
OpenedAs(ch, h, f) ==
    /\ f \in OpenFiles /\ f.slot \in Clusters /\ f.slot \in Heads
    /\ Listed(Current, ch, f.slot) /\ ent[f.slot].kind = "file"
    /\ f.first = ent[f.slot].first /\ f.first \in Heads
    /\ f.size \in 0..MaxSize /\ f.size <= Len(ch[f.slot])
    /\ Chain(f.first) = ch[f.slot] /\ ch[f.slot] \in Seq(Clusters)
    /\ f.first = 0 <=> ch[f.slot] = <<>>
    /\ OpenBy(handle, h, f.slot)
LEMMA OpenFile ==
    ASSUME Fat32Assumption, NEW ch, AtRest(ch), NEW h \in Handles, handle[h] # NULL
    PROVE  OpenedAs(ch, h, handle[h])
<1> DEFINE f == handle[h]
<1>1. /\ f \in OpenFiles /\ f.slot \in Clusters
      /\ Listed(Current, ch, f.slot) /\ ent[f.slot].kind = "file"
      /\ f.first = ent[f.slot].first /\ f.size <= Len(ch[f.slot])
      /\ OpenBy(handle, h, f.slot)
  BY Resting DEF Agrees, OpenBy
<1> HIDE DEF f
<1>2. f.slot \in Heads /\ f.first \in Heads /\ f.size \in 0..MaxSize
  BY <1>1, Constants DEF OpenFiles
<1>3. Chain(f.first) = ch[f.slot]
  BY <1>1, Resting, Reads
<1>4. f.first = 0 <=> ch[f.slot] = <<>>
  BY <1>1, Resting DEF Sound, Headed
<1>5. ch[f.slot] \in Seq(Clusters)
  BY <1>2, Resting
<1>6. OpenedAs(ch, h, f)
  BY <1>1, <1>2, <1>3, <1>4, <1>5 DEF OpenedAs
<1> QED BY <1>6 DEF f

(* The entry that update_dirent writes. *)
Renewed(f) == [ent[f.slot] EXCEPT !.first = f.first, !.size = f.size]

(* The entry that update_dirent writes for a file. *)
LEMMA RenewedIs ==
    ASSUME Fat32Assumption, Types, NEW f, f.slot \in Clusters, f.first \in Heads,
           f.size \in 0..MaxSize, ent[f.slot].kind = "file", NEW op
    PROVE  /\ Renewed(f) \in Records /\ Renewed(f).kind = "file"
           /\ Renewed(f).first = f.first /\ Renewed(f).size = f.size
           /\ update_dirent(op, f) = SetEntry(op, f.slot, Renewed(f))
<1>1. ent[f.slot] \in Records
  BY DEF Types
<1> QED BY <1>1 DEF Renewed, Records, Used, update_dirent

(* open leaves writes that lead to a settled state. *)
LEMMA OpenDone ==
    ASSUME Fat32Assumption, NEW ch, AtRest(ch), NEW h \in Handles, NEW c \in Clusters,
           open(h, c)
    PROVE  Done(writes', handle', info', damaged')
<1> DEFINE g == [slot |-> c, first |-> ent[c].first, size |-> ent[c].size]
<1>1. /\ handle[h] = NULL /\ c \in Live /\ ent[c].kind = "file" /\ ~IsOpen(c)
      /\ writes = <<>>
      /\ writes' = writes /\ info' = info /\ damaged' = damaged
      /\ handle' = [handle EXCEPT ![h] = g]
  BY DEF open, Called
<1>2. Listed(Current, ch, c)
  BY <1>1, Resting, Reads
<1>3. /\ ent[c] \in Records /\ ent[c].first \in Heads /\ ent[c].size \in 0..MaxSize
      /\ ent[c].size <= Len(ch[c])
  BY <1>2, Resting DEF Sound, Sized, Records
<1>4. g \in OpenFiles /\ handle' \in [Handles -> {NULL} \cup OpenFiles]
  BY <1>1, <1>3, Resting DEF OpenFiles
<1>5. Kept(Current, ch, Current, ch, c) /\ OpenAs(Current, ch, c, g)
  BY <1>1, <1>2, <1>3, Resting DEF Kept, OpenAs
<1>6. OpenBy(handle, h, c)
  BY <1>1 DEF IsOpen, OpenBy
<1> HIDE DEF g
<1>7. Reopened(handle, handle', h, g)
  BY <1>1, Resting DEF Reopened
<1>8. Agrees(Current, ch, handle')
  BY <1>5, <1>6, <1>7, Resting, AgreesFile
<1>9. Leads(Current, <<>>, Current) /\ <<>> \in Seq(Writes)
  BY Resting, LeadsNone
<1> QED BY <1>1, <1>4, <1>8, <1>9, Resting DEF Done, Settled

(* A call that only writes a file's entry, with a size within its chain. *)
LEMMA DirentDone ==
    ASSUME Fat32Assumption, NEW ch, AtRest(ch), NEW h \in Handles, handle[h] # NULL,
           NEW op \in Ops, NEW g, g.slot = handle[h].slot, g.first = handle[h].first,
           g.size \in 0..MaxSize, g.size <= Len(ch[g.slot]),
           writes' = update_dirent(op, g),
           handle' \in [Handles -> {NULL} \cup OpenFiles],
           NEW j, j = g \/ j = NULL, Reopened(handle, handle', h, j),
           info' = info, damaged' = damaged
    PROVE  Done(writes', handle', info', damaged')
<1> DEFINE c == g.slot
           e == Renewed(g)
           t == WithEnt(Current, c, e)
<1>1. /\ c \in Clusters /\ Listed(Current, ch, c) /\ ent[c].kind = "file"
      /\ g.first = ent[c].first /\ g.first \in Heads /\ OpenBy(handle, h, c)
  <2>1. OpenedAs(ch, h, handle[h])
    BY OpenFile
  <2> QED BY <2>1 DEF OpenedAs
<1>2. /\ e \in Records /\ e.kind = "file" /\ e.first = g.first /\ e.size = g.size
      /\ writes' = SetEntry(op, c, e)
  BY <1>1, Resting, RenewedIs
<1> HIDE DEF e
<1>3. /\ t \in States /\ Sound(t, ch)
      /\ \A d \in Clusters : Slotted(t, ch, d) <=> Slotted(Current, ch, d)
  BY <1>1, <1>2, Resting, FileUpdated
<1>4. writes' \in Seq(Writes) /\ Leads(Current, writes', t)
  BY <1>1, <1>2, Resting, EntryLeads DEF Safe
<1>5. t.fat = fat[0] /\ t.ent[c] = e /\ \A d \in Clusters \ {c} : t.ent[d] = ent[d]
  BY <1>1, Resting DEF WithEnt
<1> HIDE DEF t
<1>6. Kept(Current, ch, t, ch, c)
  BY <1>3, <1>5, Resting DEF Kept, Listed
<1>7. OpenAs(t, ch, c, j)
  BY <1>1, <1>2, <1>3, <1>5 DEF OpenAs, Listed, Used
<1>8. Agrees(t, ch, handle')
  BY <1>1, <1>6, <1>7, Resting, AgreesFile
<1>9. ~damaged => Counted(t, ch, info.count)
  BY <1>5, Resting DEF Counted
<1> QED BY <1>3, <1>4, <1>8, <1>9, Resting DEF Done, Settled

(* sync of a file leaves writes that lead to a settled state. *)
LEMMA SyncFileDone ==
    ASSUME Fat32Assumption, NEW ch, AtRest(ch), NEW h \in Handles, sync_file(h)
    PROVE  Done(writes', handle', info', damaged')
<1>1. /\ handle[h] # NULL /\ writes' = update_dirent("sync", handle[h])
      /\ handle' = handle /\ info' = info /\ damaged' = damaged
  BY DEF sync_file
<1>2. "sync" \in Ops /\ Reopened(handle, handle', h, handle[h])
  BY <1>1 DEF Ops, Reopened
<1>3. handle[h].size \in 0..MaxSize /\ handle[h].size <= Len(ch[handle[h].slot])
  BY <1>1, OpenFile DEF OpenedAs
<1> QED BY <1>1, <1>2, <1>3, Resting, DirentDone

(* sync leaves writes that lead to a settled state. *)
LEMMA SyncDone ==
    ASSUME Fat32Assumption, NEW ch, AtRest(ch), sync
    PROVE  Done(writes', handle', info', damaged')
<1> DEFINE w ==
        [op |-> "fsinfo", to |-> "info",
         val |-> [count |-> info.count, next |-> info.next]]
<1>1. /\ writes' = << w >> /\ info' = [info EXCEPT !.dirty = FALSE]
      /\ handle' = handle /\ damaged' = damaged
  BY DEF sync
<1>2. /\ w \in Writes /\ Stored(Current, w) = Current /\ info' \in Infos
      /\ info'.count = info.count
  BY <1>1, Resting DEF Writes, InfoWrites, Ops, Counts, Infos, Stored
<1> HIDE DEF w
<1>3. Leads(Current, << w >>, Current) /\ << w >> \in Seq(Writes)
  <2>1. Leads(Current, << w >>, Stored(Current, w))
    BY <1>2, Resting, LeadsOne DEF Safe
  <2> QED BY <1>2, <2>1
<1> QED BY <1>1, <1>2, <1>3, Resting DEF Done, Settled

(* A file takes a free cluster. *)
Lengthened(s, ch, t, u, c, n) ==
    /\ Sound(t, u) /\ u[c] = Append(ch[c], n) /\ \A h \in Heads \ {c} : u[h] = ch[h]
    /\ \A d \in Clusters : Slotted(t, u, d) <=> Slotted(s, ch, d)
    /\ \A x \in Clusters : Owned1(ch, x) \/ x = n => Owned1(u, x)
    /\ \A x \in Clusters : t.fat[x] = 0 <=> s.fat[x] = 0 /\ x # n
    /\ \A d \in Clusters \ {c} : t.ent[d] = s.ent[d]
    /\ t.ent[c].kind = "file" /\ In(u, c, n)

(* A file's chain gets a cluster at its end, or its first one. *)
LEMMA ExtendLeads ==
    ASSUME Fat32Assumption, NEW ch, AtRest(ch), NEW c \in Clusters,
           Listed(Current, ch, c),
           ent[c].kind = "file", NEW n \in Clusters, fat[0][n] = 0, NEW op \in Ops,
           NEW e \in Records, e.kind = "file", e.size <= Len(ch[c]) + 1,
           e.first = IF ch[c] = <<>> THEN n ELSE ent[c].first
    PROVE  \E s \in States, t \in States, u \in Chains :
               /\ fat_set(op, n, EOC) \in Seq(Writes)
               /\ Leads(Current, fat_set(op, n, EOC), s)
               /\ Lengthened(Current, ch, t, u, c, n)
               /\ ch[c] = <<>> => /\ SetEntry(op, c, e) \in Seq(Writes)
                                  /\ Leads(s, SetEntry(op, c, e), t) /\ t.ent[c] = e
               /\ ch[c] # <<>> => /\ fat_set(op, Last(ch[c]), n) \in Seq(Writes)
                                  /\ Leads(s, fat_set(op, Last(ch[c]), n), t)
                                  /\ Leads(t, fat_set(op, n, EOC), t)
                                  /\ t.ent[c] = ent[c]
<1> DEFINE last == ch[c][Len(ch[c])]
           s == WithFat(Current, n, EOC)
           t == IF ch[c] = <<>> THEN WithEnt(s, c, e) ELSE WithFat(s, last, n)
<1>1. /\ Sound(Current, ch) /\ Current \in States /\ ch[c] \in Seq(Clusters)
      /\ ch \in Chains
      /\ Current.fat = fat[0] /\ Current.ent = ent /\ c \in Heads /\ EOC # 0
      /\ EOC \in Links /\ n \in Links /\ Safe(Current)
      /\ Len(ch[c]) \in Nat /\ (ch[c] = <<>> <=> Len(ch[c]) = 0)
  BY Constants, Resting DEF Links, Safe
<1>2. \A h \in Heads : \A j \in 1..Len(ch[h]) : ch[h][j] # n
  BY <1>1, OwnedTaken DEF In
<1>3. ch[c] # <<>> => last \in Clusters /\ Last(ch[c]) = last /\ last # n
  <2>1. ch[c] # <<>> => Len(ch[c]) \in 1..Len(ch[c])
    BY <1>1
  <2> QED BY <1>1, <1>2, <2>1 DEF Last
<1>4. s.fat = [fat[0] EXCEPT ![n] = EOC] /\ s.ent = ent /\ s \in States
  BY <1>1 DEF WithFat, States
<1>5. Sound(s, ch)
  <2>1. \A h \in Heads : \A j \in 1..Len(ch[h]) :
            s.fat[ch[h][j]] = Current.fat[ch[h][j]]
    BY <1>1, <1>2, <1>4 DEF States
  <2> HIDE DEF s
  <2> QED BY <1>1, <1>4, <2>1, Untouched
<1>6. fat_set(op, n, EOC) \in Seq(Writes) /\ Leads(Current, fat_set(op, n, EOC), s)
  BY <1>1, <1>5, FatSetLeads DEF Safe
<1> HIDE DEF s, last
<1>7. ASSUME ch[c] = <<>>
      PROVE  /\ t \in States /\ t.fat = s.fat /\ t.ent[c] = e
             /\ \A d \in Clusters \ {c} : t.ent[d] = ent[d]
             /\ SetEntry(op, c, e) \in Seq(Writes) /\ Leads(s, SetEntry(op, c, e), t)
  <2>1. t = WithEnt(s, c, e)
    BY <1>7
  <2> HIDE DEF t
  <2>2. t.fat = s.fat /\ t.ent = [ent EXCEPT ![c] = e]
    BY <1>4, <2>1 DEF WithEnt
  <2> QED BY <1>1, <1>4, <1>5, <2>1, <2>2, EntryLeads DEF Safe, States
<1>8. ASSUME ch[c] # <<>>
      PROVE  /\ t = WithFat(s, last, n) /\ t \in States
             /\ t.fat = [s.fat EXCEPT ![last] = n]
             /\ t.ent = ent
  BY <1>1, <1>3, <1>4, <1>8 DEF WithFat, States
<1> HIDE DEF t
<1>9. t \in States
  BY <1>7, <1>8
<1>10. /\ t.fat[n] = EOC /\ (ch[c] # <<>> => t.fat[last] = n)
       /\ \A x \in Clusters :
              x = n \/ (ch[c] # <<>> /\ x = last) \/ t.fat[x] = fat[0][x]
  BY <1>1, <1>3, <1>4, <1>7, <1>8 DEF States
<1>11. /\ \A d \in Clusters \ {c} : t.ent[d] = ent[d]
       /\ t.ent[c].kind = "file" /\ t.ent[c].size <= Len(ch[c]) + 1
       /\ t.ent[c].first = IF ch[c] = <<>> THEN n ELSE ent[c].first
  <2>1. CASE ch[c] = <<>>
    BY <1>7, <2>1
  <2>2. CASE ch[c] # <<>>
    <3>1. ent[c].size <= Len(ch[c]) /\ ent[c].size \in Nat
      BY <1>1 DEF Sound, Sized, States, Records, Fat32Assumption
    <3> QED BY <1>1, <1>8, <2>2, <3>1
  <2> QED BY <2>1, <2>2
<1>12. PICK u \in Chains : Lengthened(Current, ch, t, u, c, n)
  <2>1. \E u \in Chains : LongerBy(Current, t, ch, c, n, u)
    <3>1. /\ Current.fat[n] = 0 /\ t.fat[n] = EOC /\ Current.ent[c].kind = "file"
          /\ ch[c] # <<>> => t.fat[ch[c][Len(ch[c])]] = n
          /\ \A x \in Clusters : \/ x = n \/ (ch[c] # <<>> /\ x = ch[c][Len(ch[c])])
                                 \/ t.fat[x] = Current.fat[x]
      BY <1>1, <1>10 DEF last
    <3>2. /\ \A d \in Clusters \ {c} : t.ent[d] = Current.ent[d]
          /\ t.ent[c].kind = "file" /\ t.ent[c].size <= Len(ch[c]) + 1
          /\ t.ent[c].first = IF ch[c] = <<>> THEN n ELSE Current.ent[c].first
      BY <1>1, <1>11
    <3>3. Current \in States /\ ch \in Chains /\ Sound(Current, ch)
      BY <1>1
    <3> QED BY ONLY Fat32Assumption, <3>3, <1>9, c \in Clusters, n \in Clusters,
               Listed(Current, ch, c), <3>1, <3>2, Extended
  <2>2. PICK u \in Chains : LongerBy(Current, t, ch, c, n, u)
    BY <2>1
  <2>3. u[c] = Append(ch[c], n)
    BY <2>2 DEF LongerBy
  <2>4. In(u, c, n)
    BY <1>1, <2>3 DEF In
  <2>5. (\A d \in Clusters \ {c} : t.ent[d] = Current.ent[d]) /\ t.ent[c].kind = "file"
    BY <1>1, <1>11
  <2> QED BY <2>2, <2>4, <2>5 DEF Lengthened, LongerBy
<1>13. ASSUME ch[c] # <<>>
       PROVE  /\ fat_set(op, last, n) \in Seq(Writes)
              /\ Leads(s, fat_set(op, last, n), t)
              /\ Leads(t, fat_set(op, n, EOC), t)
  <2>1. Safe(t)
    BY <1>12 DEF Safe, Lengthened
  <2>2. fat_set(op, last, n) \in Seq(Writes) /\ Leads(s, fat_set(op, last, n), t)
    BY <1>1, <1>3, <1>4, <1>5, <1>8, <1>13, <2>1, FatSetLeads DEF Safe
  <2>3. WithFat(t, n, EOC) = t
    <3>1. [t.fat EXCEPT ![n] = EOC] = t.fat
      BY <1>9, <1>10 DEF States
    <3> QED BY <1>9, <3>1 DEF WithFat, States
  <2>4. Leads(t, fat_set(op, n, EOC), t)
    BY <1>1, <1>9, <2>1, <2>3, FatSetLeads
  <2> QED BY <2>2, <2>4
<1> QED BY <1>1, <1>3, <1>4, <1>6, <1>7, <1>8, <1>9, <1>12, <1>13

(* A cluster that a file gets is counted. *)
LEMMA TakenOne ==
    ASSUME Fat32Assumption, NEW ch, AtRest(ch), NEW n \in Clusters, fat[0][n] = 0,
           CountAllocated(<< n >>), NEW t \in States, NEW u \in Chains, NEW c,
           Lengthened(Current, ch, t, u, c, n)
    PROVE  info' \in Infos /\ (~damaged => Counted(t, u, info'.count))
<1> DEFINE cs == << n >>
<1>1. cs \in Seq(Clusters) /\ Len(cs) = 1 /\ cs[1] = n /\ CountAllocated(cs)
  OBVIOUS
<1> HIDE DEF cs
<1>2. /\ \A i, j \in 1..Len(cs) : cs[i] = cs[j] => i = j
      /\ \A i \in 1..Len(cs) : fat[0][cs[i]] = 0
  BY <1>1
<1>3. /\ \A x \in Clusters : t.fat[x] = 0 <=>
             fat[0][x] = 0 /\ \A i \in 1..Len(cs) : cs[i] # x
      /\ \A x \in Clusters : Owned1(ch, x) \/ (\E i \in 1..Len(cs) : cs[i] = x) =>
             Owned1(u, x)
  <2>1. \A x : (\E i \in 1..Len(cs) : cs[i] = x) <=> x = n
    BY ONLY <1>1
  <2>2. /\ \A x \in Clusters : Owned1(ch, x) \/ x = n => Owned1(u, x)
        /\ \A x \in Clusters : t.fat[x] = 0 <=> fat[0][x] = 0 /\ x # n
    BY Resting DEF Lengthened
  <2> QED BY ONLY <2>1, <2>2
<1> QED BY <1>1, <1>2, <1>3, Allocates

(* write leaves writes that lead to a settled state. *)
LEMMA WriteDone ==
    ASSUME Fat32Assumption, NEW ch, AtRest(ch), NEW h \in Handles, NEW p \in 0..MaxSize,
           write(h, p)
    PROVE  Done(writes', handle', info', damaged')
<1> DEFINE f == handle[h]
           c == f.slot
           old == p < Len(ch[c])
           n == IF old THEN ch[c][p + 1] ELSE Search({})
           g == [f EXCEPT !.first = IF f.first = 0 THEN n ELSE f.first]
           j == [g EXCEPT !.size = IF p = f.size THEN p + 1 ELSE @]
           link == IF old THEN <<>>
                   ELSE fat_set("write", n, EOC)
                        \o (IF f.first = 0 THEN update_dirent("write", g)
                            ELSE fat_set("write", Last(ch[c]), n))
<1>1. /\ handle[h] # NULL /\ p \in 0..f.size /\ p < MaxSize /\ Chain(f.first) = ch[c]
  <2>1. handle[h] # NULL /\ p \in 0..f.size /\ p < MaxSize
    BY DEF write
  <2>2. OpenedAs(ch, h, f)
    BY <2>1, OpenFile
  <2> QED BY <2>1, <2>2 DEF OpenedAs
<1>2. /\ f \in OpenFiles /\ c \in Clusters /\ c \in Heads
      /\ Listed(Current, ch, c) /\ ent[c].kind = "file"
      /\ f.first = ent[c].first /\ f.first \in Heads
      /\ f.size \in 0..MaxSize /\ f.size <= Len(ch[c])
      /\ ch[c] \in Seq(Clusters) /\ (f.first = 0 <=> ch[c] = <<>>)
      /\ OpenBy(handle, h, c)
  <2>1. OpenedAs(ch, h, f)
    BY <1>1, OpenFile
  <2> QED BY <2>1 DEF OpenedAs
<1>3. /\ n # 0 /\ writes' = link \o SetEntry("write", n, Data)
      /\ handle' = [handle EXCEPT ![h] = j]
      /\ CountAllocated(IF old THEN <<>> ELSE << n >>) /\ damaged' = damaged
  BY <1>1 DEF write
<1>4. n \in Clusters /\ (~old => fat[0][n] = 0 /\ p = f.size /\ f.size = Len(ch[c]))
  <2>1. CASE old
    BY <1>1, <1>2, <2>1
  <2>2. CASE ~old
    <3>1. n = Search({}) /\ n # 0
      BY <1>3, <2>2
    <3> HIDE DEF n
    <3>2. n \in Clusters /\ fat[0][n] = 0
      BY <3>1, FreeFound
    <3> HIDE DEF f
    <3>3. p = f.size /\ f.size = Len(ch[c])
      BY <1>1, <1>2, <2>2
    <3> QED BY <3>2, <3>3
  <2> QED BY <2>1, <2>2
<1> HIDE DEF n
<1>5. /\ g.slot = c /\ g.size = f.size /\ g.first = IF ch[c] = <<>> THEN n ELSE f.first
      /\ j.slot = c /\ j.first = g.first
      /\ j.size = IF p = f.size THEN p + 1 ELSE f.size
      /\ g.first \in Heads /\ g \in OpenFiles /\ j \in OpenFiles
  <2> HIDE DEF f
  <2>1. /\ g.slot = c /\ g.size = f.size
        /\ g.first = IF ch[c] = <<>> THEN n ELSE f.first
        /\ g.first \in Heads /\ g \in OpenFiles
    BY <1>2, <1>4, Constants DEF OpenFiles
  <2> HIDE DEF g
  <2>2. /\ j.slot = c /\ j.first = g.first
        /\ j.size = IF p = f.size THEN p + 1 ELSE f.size
        /\ j \in OpenFiles
    BY <1>1, <1>2, <2>1 DEF OpenFiles, Fat32Assumption
  <2> QED BY <2>1, <2>2
<1>6. handle' \in [Handles -> {NULL} \cup OpenFiles] /\ Reopened(handle, handle', h, j)
  BY <1>3, <1>5, Resting DEF Reopened
<1> HIDE DEF f, g, j
<1>7. Data \in Records /\ "write" \in Ops
  BY Constants DEF Data, NoEntry, Records, Kinds, Used, Heads, Ops, Fat32Assumption
<1>8. \E s \in States, u \in Chains :
         /\ link \in Seq(Writes) /\ Leads(Current, link, s) /\ Sound(s, u)
         /\ In(u, c, n) /\ s.ent[c].kind = "file" /\ Listed(s, u, c)
         /\ s.ent[c].first = g.first
         /\ j.size <= Len(u[c]) /\ Kept(Current, ch, s, u, c)
         /\ info' \in Infos /\ (~damaged => Counted(s, u, info'.count))
  <2>1. CASE old
    <3>1. link = <<>> /\ Leads(Current, <<>>, Current) /\ <<>> \in Seq(Writes)
      BY <2>1, Resting, LeadsNone
    <3>2. In(ch, c, n) /\ j.size <= Len(ch[c]) /\ g.first = ent[c].first
      BY <1>1, <1>2, <1>5, <2>1 DEF In, n
    <3>3. info' = info
      BY <1>3, <2>1 DEF CountAllocated
    <3>4. Kept(Current, ch, Current, ch, c)
      BY DEF Kept
    <3> QED BY <1>2, <3>1, <3>2, <3>3, <3>4, Resting
  <2>2. CASE ~old
    <3> DEFINE e == Renewed(g)
               A == fat_set("write", n, EOC)
    <3>1. /\ e \in Records /\ e.kind = "file" /\ e.first = g.first /\ e.size = g.size
          /\ update_dirent("write", g) = SetEntry("write", c, e)
      BY <1>2, <1>5, Resting, RenewedIs
    <3>2. /\ fat[0][n] = 0 /\ p = f.size /\ f.size = Len(ch[c])
          /\ e.size <= Len(ch[c]) + 1
          /\ e.first = IF ch[c] = <<>> THEN n ELSE ent[c].first
      BY <1>2, <1>4, <1>5, <2>2, <3>1
    <3> HIDE DEF e
    <3>3. PICK s \in States, t \in States, u \in Chains :
               /\ A \in Seq(Writes) /\ Leads(Current, A, s)
               /\ Lengthened(Current, ch, t, u, c, n)
               /\ ch[c] = <<>> => /\ SetEntry("write", c, e) \in Seq(Writes)
                                  /\ Leads(s, SetEntry("write", c, e), t)
                                  /\ t.ent[c] = e
               /\ ch[c] # <<>> => /\ fat_set("write", Last(ch[c]), n) \in Seq(Writes)
                                  /\ Leads(s, fat_set("write", Last(ch[c]), n), t)
                                  /\ t.ent[c] = ent[c]
      BY <1>2, <1>4, <1>7, <3>1, <3>2, ExtendLeads
    <3>4. link \in Seq(Writes) /\ Leads(Current, link, t)
      <4> HIDE DEF A
      <4>1. CASE ch[c] = <<>>
        <5>1. link = A \o SetEntry("write", c, e)
          BY <1>2, <2>2, <3>1, <4>1 DEF A
        <5> QED BY <3>3, <4>1, <5>1, LeadsOn
      <4>2. CASE ch[c] # <<>>
        <5>1. link = A \o fat_set("write", Last(ch[c]), n)
          BY <1>2, <2>2, <4>2 DEF A
        <5> QED BY <3>3, <4>2, <5>1, LeadsOn
      <4> QED BY <4>1, <4>2
    <3>5. /\ Sound(t, u) /\ In(u, c, n) /\ t.ent[c].kind = "file"
          /\ u[c] = Append(ch[c], n)
          /\ \A x \in Heads \ {c} : u[x] = ch[x]
          /\ \A d \in Clusters : Slotted(t, u, d) <=> Slotted(Current, ch, d)
          /\ \A d \in Clusters \ {c} : t.ent[d] = Current.ent[d]
      BY <3>3 DEF Lengthened
    <3>6. Listed(t, u, c) /\ t.ent[c].first = g.first
      BY <1>2, <1>5, <3>1, <3>3, <3>5 DEF Listed, Used
    <3>7. Len(u[c]) = Len(ch[c]) + 1 /\ j.size <= Len(u[c])
      BY <1>2, <1>5, <3>2, <3>5
    <3>8. Kept(Current, ch, t, u, c)
      BY <3>5, Constants DEF Kept, Listed
    <3>9. info' \in Infos /\ (~damaged => Counted(t, u, info'.count))
      BY <1>3, <1>4, <2>2, <3>3, TakenOne
    <3> QED BY <3>4, <3>5, <3>6, <3>7, <3>8, <3>9
  <2> QED BY <2>1, <2>2
<1> HIDE DEF link
<1>9. PICK s \in States, u \in Chains :
         /\ link \in Seq(Writes) /\ Leads(Current, link, s) /\ Sound(s, u)
         /\ In(u, c, n) /\ s.ent[c].kind = "file" /\ Listed(s, u, c)
         /\ s.ent[c].first = g.first
         /\ j.size <= Len(u[c]) /\ Kept(Current, ch, s, u, c)
         /\ info' \in Infos /\ (~damaged => Counted(s, u, info'.count))
  BY <1>8
<1> DEFINE t == WithEnt(s, n, Data)
<1>10. /\ t \in States /\ Sound(t, u)
       /\ \A d \in Clusters : Slotted(t, u, d) <=> Slotted(s, u, d)
       /\ \A d \in Clusters : Slotted(s, u, d) => t.ent[d] = s.ent[d]
  BY <1>2, <1>4, <1>7, <1>9, DataWritten
<1>11. /\ SetEntry("write", n, Data) \in Seq(Writes)
       /\ Leads(s, SetEntry("write", n, Data), t)
  BY <1>4, <1>7, <1>9, EntryLeads DEF Safe
<1>12. t.fat = s.fat
  BY DEF WithEnt
<1> HIDE DEF t
<1>13. writes' \in Seq(Writes) /\ Leads(Current, writes', t)
  BY <1>3, <1>9, <1>11, LeadsOn
<1>14. Kept(Current, ch, t, u, c)
  BY <1>9, <1>10 DEF Kept, Listed
<1>15. OpenAs(t, u, c, j)
  BY <1>2, <1>5, <1>9, <1>10 DEF OpenAs, Listed, Used
<1>16. Agrees(t, u, handle')
  BY <1>2, <1>6, <1>14, <1>15, Resting, AgreesFile
<1>17. ~damaged => Counted(t, u, info'.count)
  BY <1>9, <1>12 DEF Counted
<1> QED BY <1>3, <1>6, <1>9, <1>10, <1>13, <1>16, <1>17, Resting DEF Done, Settled

(* A truncate that makes a file larger does so too. *)
LEMMA GrowDone ==
    ASSUME Fat32Assumption, NEW ch, AtRest(ch), NEW h \in Handles, grow(h)
    PROVE  Done(writes', handle', info', damaged')
<1> DEFINE f == handle[h]
           c == f.slot
           old == f.size < Len(ch[c])
           n == IF old THEN f.first ELSE Search({})
           g == [f EXCEPT !.size = @ + 1, !.first = IF f.first = 0 THEN n ELSE f.first]
           A == fat_set("extend", n, EOC)
           link == IF old THEN <<>>
                   ELSE A \o (IF f.first = 0 THEN <<>>
                              ELSE fat_set("extend", Last(ch[c]), n)
                                  \o fat_set("extend", n, EOC))
<1>1. handle[h] # NULL /\ f.size < MaxSize /\ Chain(f.first) = ch[c]
  <2>1. handle[h] # NULL /\ f.size < MaxSize
    BY DEF grow
  <2>2. OpenedAs(ch, h, f)
    BY <2>1, OpenFile
  <2> QED BY <2>1, <2>2 DEF OpenedAs
<1>2. /\ f \in OpenFiles /\ c \in Clusters /\ c \in Heads
      /\ Listed(Current, ch, c) /\ ent[c].kind = "file"
      /\ f.first = ent[c].first /\ f.first \in Heads
      /\ f.size \in 0..MaxSize /\ f.size <= Len(ch[c])
      /\ ch[c] \in Seq(Clusters) /\ (f.first = 0 <=> ch[c] = <<>>)
      /\ OpenBy(handle, h, c)
  <2>1. OpenedAs(ch, h, f)
    BY <1>1, OpenFile
  <2> QED BY <2>1 DEF OpenedAs
<1>3. /\ n # 0 /\ writes' = link \o update_dirent("extend", g)
      /\ handle' = [handle EXCEPT ![h] = g]
      /\ CountAllocated(IF old THEN <<>> ELSE << n >>) /\ damaged' = damaged
  BY <1>1 DEF grow
<1>4. ~old => n \in Clusters /\ fat[0][n] = 0 /\ f.size = Len(ch[c])
  <2> SUFFICES ASSUME ~old PROVE n \in Clusters /\ fat[0][n] = 0 /\ f.size = Len(ch[c])
    OBVIOUS
  <2>1. n = Search({}) /\ n # 0
    BY <1>3
  <2> HIDE DEF n
  <2>2. n \in Clusters /\ fat[0][n] = 0
    BY <2>1, FreeFound
  <2> HIDE DEF f
  <2>3. f.size = Len(ch[c])
    BY <1>1, <1>2
  <2> QED BY <2>2, <2>3
<1> HIDE DEF n
<1>5. /\ g.slot = c /\ g.size = f.size + 1 /\ g.size \in 0..MaxSize
      /\ g.first = IF ch[c] = <<>> THEN n ELSE f.first
  <2> HIDE DEF f
  <2> QED BY <1>1, <1>2 DEF OpenFiles, Fat32Assumption
<1>6. (ch[c] = <<>> => ~old /\ n \in Clusters) /\ g.first \in Heads /\ g \in OpenFiles
  <2>1. ch[c] = <<>> => ~old
    BY <1>2
  <2>2. g.first \in Heads
    BY <1>2, <1>4, <1>5, <2>1, Constants
  <2> HIDE DEF f
  <2> QED BY <1>1, <1>2, <1>4, <1>5, <2>1, <2>2 DEF OpenFiles
<1>7. handle' \in [Handles -> {NULL} \cup OpenFiles] /\ Reopened(handle, handle', h, g)
  BY <1>3, <1>6, Resting DEF Reopened
<1>8. "extend" \in Ops
  BY DEF Ops
<1> HIDE DEF f, g
<1>9. CASE old
  <2>1. link = <<>> /\ info' = info /\ g.first = f.first
    BY <1>3, <1>5, <1>6, <1>9 DEF CountAllocated
  <2>2. g.size <= Len(ch[c])
    BY <1>2, <1>5, <1>9
  <2>3. writes' = update_dirent("extend", g)
    <3>1. update_dirent("extend", g) \in Seq(Writes)
      <4>1. /\ Renewed(g) \in Records
            /\ update_dirent("extend", g) = SetEntry("extend", c, Renewed(g))
        BY <1>2, <1>5, <1>6, Resting, RenewedIs
      <4> QED BY <1>2, <1>8, <4>1, Resting, EntryLeads DEF Safe
    <3> QED BY <1>3, <2>1, <3>1
  <2> QED BY <1>1, <1>3, <1>5, <1>7, <1>8, <2>1, <2>2, <2>3, DirentDone DEF f
<1>10. CASE ~old
  <2> DEFINE e == Renewed(g)
             B == fat_set("extend", Last(ch[c]), n)
             E == SetEntry("extend", c, e)
  <2>1. /\ e \in Records /\ e.kind = "file" /\ e.first = g.first /\ e.size = g.size
        /\ update_dirent("extend", g) = E
    BY <1>2, <1>5, <1>6, Resting, RenewedIs
  <2>2. /\ fat[0][n] = 0 /\ n \in Clusters /\ f.size = Len(ch[c])
        /\ e.size = Len(ch[c]) + 1
        /\ e.first = IF ch[c] = <<>> THEN n ELSE ent[c].first
    BY <1>2, <1>4, <1>5, <1>10, <2>1
  <2> HIDE DEF e
  <2>3. PICK s \in States, t \in States, u \in Chains :
             /\ A \in Seq(Writes) /\ Leads(Current, A, s)
             /\ Lengthened(Current, ch, t, u, c, n)
             /\ ch[c] = <<>> => E \in Seq(Writes) /\ Leads(s, E, t) /\ t.ent[c] = e
             /\ ch[c] # <<>> => /\ B \in Seq(Writes) /\ Leads(s, B, t)
                                /\ Leads(t, A, t) /\ t.ent[c] = ent[c]
    BY <1>2, <1>8, <2>1, <2>2, ExtendLeads
  <2>4. /\ Sound(t, u) /\ In(u, c, n) /\ t.ent[c].kind = "file"
        /\ u[c] = Append(ch[c], n)
        /\ \A x \in Heads \ {c} : u[x] = ch[x]
        /\ \A d \in Clusters : Slotted(t, u, d) <=> Slotted(Current, ch, d)
        /\ \A d \in Clusters \ {c} : t.ent[d] = Current.ent[d]
    BY <2>3 DEF Lengthened
  <2>5. Listed(t, u, c) /\ Len(u[c]) = Len(ch[c]) + 1
    BY <1>2, <2>2, <2>4 DEF Listed, Used
  <2>6. info' \in Infos /\ (~damaged => Counted(t, u, info'.count))
    BY <1>3, <1>10, <2>2, <2>3, TakenOne
  <2>7. \E r \in States : /\ writes' \in Seq(Writes) /\ Leads(Current, writes', r)
                          /\ r.fat = t.fat /\ r.ent[c] = e /\ Sound(r, u)
                          /\ \A d \in Clusters : Slotted(r, u, d) <=> Slotted(t, u, d)
                          /\ \A d \in Clusters \ {c} : r.ent[d] = t.ent[d]
    <3>1. CASE ch[c] = <<>>
      <4>1. link = A \o <<>>
        BY <1>2, <1>10, <3>1
      <4> HIDE DEF A, E, link
      <4>2. Leads(s, <<>>, s) /\ <<>> \in Seq(Writes)
        BY LeadsNone
      <4>3. link \in Seq(Writes) /\ Leads(Current, link, s)
        BY <2>3, <4>1, <4>2, LeadsOn
      <4>4. writes' \in Seq(Writes) /\ Leads(Current, writes', t)
        BY <1>3, <2>1, <2>3, <3>1, <4>3, LeadsOn
      <4> QED BY <2>3, <2>4, <3>1, <4>4
    <3>2. CASE ch[c] # <<>>
      <4>1. link = A \o (B \o A)
        BY <1>2, <1>10, <3>2
      <4> DEFINE r == WithEnt(t, c, e)
      <4>2. /\ r \in States /\ Sound(r, u)
            /\ \A d \in Clusters : Slotted(r, u, d) <=> Slotted(t, u, d)
        BY <1>2, <2>1, <2>2, <2>3, <2>4, <2>5, <3>2, FileUpdated
      <4>3. E \in Seq(Writes) /\ Leads(t, E, r)
        BY <1>2, <1>8, <2>1, <2>4, EntryLeads DEF Safe
      <4>4. /\ r.fat = t.fat /\ r.ent[c] = e
            /\ \A d \in Clusters \ {c} : r.ent[d] = t.ent[d]
        BY <1>2 DEF WithEnt, States
      <4> HIDE DEF A, B, E, link, r
      <4>5. B \o A \in Seq(Writes) /\ Leads(s, B \o A, t)
        BY <2>3, <3>2, LeadsOn
      <4>6. link \in Seq(Writes) /\ Leads(Current, link, t)
        BY <2>3, <4>1, <4>5, LeadsOn
      <4>7. writes' \in Seq(Writes) /\ Leads(Current, writes', r)
        BY <1>3, <2>1, <4>3, <4>6, LeadsOn
      <4> QED BY <4>2, <4>4, <4>7
    <3> QED BY <3>1, <3>2
  <2>8. PICK r \in States : /\ writes' \in Seq(Writes) /\ Leads(Current, writes', r)
                            /\ r.fat = t.fat /\ r.ent[c] = e /\ Sound(r, u)
                            /\ \A d \in Clusters : Slotted(r, u, d) <=> Slotted(t, u, d)
                            /\ \A d \in Clusters \ {c} : r.ent[d] = t.ent[d]
    BY <2>7
  <2>9. Kept(Current, ch, r, u, c)
    BY <2>4, <2>8, Constants DEF Kept, Listed
  <2>10. OpenAs(r, u, c, g)
    BY <1>2, <1>5, <2>1, <2>2, <2>4, <2>5, <2>8 DEF OpenAs, Listed, Used
  <2>11. Agrees(r, u, handle')
    BY <1>2, <1>7, <2>9, <2>10, Resting, AgreesFile
  <2>12. ~damaged => Counted(r, u, info'.count)
    BY <2>6, <2>8 DEF Counted
  <2> QED BY <1>3, <1>7, <2>6, <2>8, <2>11, <2>12, Resting DEF Done, Settled
<1> QED BY <1>9, <1>10

(* A chain without its first n clusters. *)
IsTail(Y, n, tail) ==
    /\ Y \in Seq(Clusters) /\ tail \in Seq(Clusters) /\ n \in Nat /\ n < Len(Y)
    /\ Len(tail) = Len(Y) - n /\ \A i \in 1..Len(tail) : tail[i] = Y[n + i]

(* The rest of a chain after n clusters. *)
LEMMA TailIs ==
    ASSUME NEW Y \in Seq(Clusters), NEW n \in Nat, n < Len(Y)
    PROVE  LET tail == SubSeq(Y, n + 1, Len(Y))
           IN  IsTail(Y, n, tail) /\ tail # <<>> /\ Head(tail) = Y[n + 1]
<1> DEFINE tail == SubSeq(Y, n + 1, Len(Y))
<1>1. tail \in Seq(Clusters) /\ Len(tail) = Len(Y) - n
  OBVIOUS
<1>2. \A i \in 1..Len(tail) : tail[i] = Y[n + i]
  <2>1. \A i \in 1..(Len(Y) - n) :
            tail[i] = Y[(n + 1) + i - 1] /\ (n + 1) + i - 1 = n + i
    OBVIOUS
  <2> HIDE DEF tail
  <2> QED BY <1>1, <2>1
<1> HIDE DEF tail
<1>3. tail # <<>> /\ Head(tail) = tail[1]
  BY <1>1
<1>4. Head(tail) = Y[n + 1]
  BY <1>1, <1>2, <1>3
<1> QED BY <1>1, <1>2, <1>3, <1>4 DEF IsTail, tail

TailPlace(Y, n, tail, i) ==
    /\ n + i \in 1..Len(Y) /\ n + i \in (n + 1)..Len(Y) /\ tail[i] = Y[n + i]
    /\ n + i = Len(Y) <=> i = Len(tail)
    /\ i # Len(tail) => i + 1 \in 1..Len(tail) /\ tail[i + 1] = Y[(n + i) + 1]
TailHas(Y, n, tail) ==
    /\ Len(tail) \in Nat /\ Len(tail) > 0 /\ tail[1] = Y[n + 1]
    /\ \A i, j \in 1..Len(tail) : n + i = n + j => i = j
    /\ \A i \in (n + 1)..Len(Y) : i - n \in 1..Len(tail) /\ tail[i - n] = Y[i]

(* Where the clusters of the rest are. *)
LEMMA TailPlaces ==
    ASSUME NEW Y, NEW n, NEW tail, IsTail(Y, n, tail)
    PROVE  TailHas(Y, n, tail) /\ \A i \in 1..Len(tail) : TailPlace(Y, n, tail, i)
<1> DEFINE m == Len(Y)
           k == Len(tail)
<1>1. n \in Nat /\ m \in Nat /\ k \in Nat /\ n < m /\ k = m - n
  BY DEF IsTail
<1>2. \A i \in 1..k : tail[i] = Y[n + i]
  BY DEF IsTail
<1> HIDE DEF m, k
<1>3. /\ k > 0
      /\ \A i \in 1..k :
             /\ n + i \in 1..m /\ n + i \in (n + 1)..m /\ (n + i = m <=> i = k)
                         /\ (i # k => i + 1 \in 1..k /\ n + (i + 1) = (n + i) + 1)
      /\ \A i, j \in 1..k : n + i = n + j => i = j
      /\ \A i \in (n + 1)..m : i - n \in 1..k /\ n + (i - n) = i
  BY <1>1
<1>4. 1 \in 1..k
  BY <1>1, <1>3
<1>5. \A i \in 1..k : i # k => tail[i + 1] = Y[(n + i) + 1]
  BY <1>2, <1>3
<1>6. \A i \in (n + 1)..m : tail[i - n] = Y[i]
  BY <1>2, <1>3
<1> QED BY <1>1, <1>2, <1>3, <1>4, <1>5, <1>6 DEF m, k, TailHas, TailPlace

EndMarked(Y, n, op) == IF n = 0 THEN <<>> ELSE fat_set(op, Y[n], EOC)
CutFor(ch, c, n, op, e, t, u) ==
    /\ (fat_free_chain(op, ch[c][n + 1]) \o EndMarked(ch[c], n, op))
           \o SetEntry(op, c, e) \in Seq(Writes)
    /\ Leads(Current, (fat_free_chain(op, ch[c][n + 1]) \o EndMarked(ch[c], n, op))
                         \o SetEntry(op, c, e), t)
    /\ Sound(t, u) /\ Kept(Current, ch, t, u, c)
    /\ Listed(t, u, c) /\ t.ent[c] = e /\ Len(u[c]) = n
    /\ info' \in Infos /\ (~damaged => Counted(t, u, info'.count))

(* A file's entry is written, its chain ended and the rest freed. *)
LEMMA CutLeads ==
    ASSUME Fat32Assumption, NEW ch, AtRest(ch), NEW c \in Clusters,
           Listed(Current, ch, c),
           ent[c].kind = "file", NEW n, NEW tail, IsTail(ch[c], n, tail),
           NEW op \in Ops \ CrashIn,
           NEW e \in Records, e.kind = "file", e.size <= n,
           e.first = IF n = 0 THEN 0 ELSE ent[c].first, CountFreed(tail)
    PROVE  \E t \in States, u \in Chains : CutFor(ch, c, n, op, e, t, u)
<1> DEFINE Y == ch[c]
           m == Len(Y)
           k == Len(tail)
           s == Zeroed(Current, tail, k)
           r == IF n = 0 THEN s ELSE WithFat(s, Y[n], EOC)
           t == WithEnt(r, c, e)
<1>1. /\ Sound(Current, ch) /\ Current \in States /\ ch \in Chains
      /\ Current.fat = fat[0] /\ Current.ent = ent /\ c \in Heads /\ EOC # 0
      /\ EOC \in Links /\ Types
      /\ fat[0] \in [Clusters -> Links] /\ ent \in [Clusters -> Records]
  BY Constants, Resting DEF Links
<1>2. /\ tail \in Seq(Clusters) /\ Y \in Seq(Clusters)
      /\ \A i \in 1..m : Y[i] \in Clusters
      /\ n \in Nat /\ m \in Nat /\ n < m /\ k = m - n
  BY DEF IsTail
<1>3. /\ \A i, j \in 1..m : Y[i] = Y[j] => i = j
      /\ \A i \in 1..m : fat[0][Y[i]] = IF i = m THEN EOC ELSE Y[i + 1]
      /\ \A i \in 1..m : fat[0][Y[i]] # 0
  <2>1. \A i \in 1..m : In(ch, c, Y[i])
    BY DEF In
  <2>2. \A i \in 1..m : fat[0][Y[i]] # 0
    BY <1>1, <1>2, <2>1, OwnedTaken
  <2> QED BY <1>1, <2>2 DEF Sound, Apart, Linked
<1>4. TailHas(Y, n, tail) /\ \A i \in 1..k : TailPlace(Y, n, tail, i)
  BY TailPlaces
<1>5. /\ k \in Nat /\ k > 0 /\ tail[1] = Y[n + 1]
      /\ \A i, j \in 1..k : n + i = n + j => i = j
      /\ \A i \in (n + 1)..m : i - n \in 1..k /\ tail[i - n] = Y[i]
  BY <1>4 DEF TailHas
<1> HIDE DEF m, k, Y
<1>6. /\ \A i, j \in 1..k : tail[i] = tail[j] => i = j
      /\ \A i \in 1..k : fat[0][tail[i]] = IF i = k THEN EOC ELSE tail[i + 1]
      /\ \A i \in 1..k : fat[0][tail[i]] # 0
  <2>1. ASSUME NEW i \in 1..k, NEW j \in 1..k, tail[i] = tail[j] PROVE i = j
    <3>1. Y[n + i] = Y[n + j] /\ n + i \in 1..m /\ n + j \in 1..m
      BY <1>4, <2>1 DEF TailPlace, m
    <3> QED BY <1>3, <1>5, <3>1
  <2>2. ASSUME NEW i \in 1..k
        PROVE  /\ fat[0][tail[i]] = IF i = k THEN EOC ELSE tail[i + 1]
               /\ fat[0][tail[i]] # 0
    <3>1. TailPlace(Y, n, tail, i)
      BY <1>4
    <3> QED BY <1>3, <3>1 DEF TailPlace, m, k
  <2> QED BY <2>1, <2>2
<1>7. Chain(Y[n + 1]) = tail
  <2>1. \A i, j \in 1..Len(tail) : tail[i] = tail[j] => i = j
    BY <1>6 DEF k
  <2>2. tail \in Seq(Clusters)
    BY <1>2
  <2>3. Len(tail) \in 0..Top
    BY <2>1, <2>2, ChainShort
  <2>4. k \in 1..Top
    BY <1>5, <2>3 DEF k
  <2>5. Chain(tail[1]) = tail
    BY <1>1, <1>2, <1>5, <1>6, <2>4, ChainIs DEF fat_get, k
  <2> QED BY <1>5, <2>5
<1>8. /\ fat_free_chain(op, Y[n + 1]) \in Seq(Writes) /\ s \in States
      /\ Leads(Current, fat_free_chain(op, Y[n + 1]), s)
  BY <1>1, <1>2, <1>7, FreeLeads DEF k
<1>9. /\ s.ent = ent
      /\ \A x \in Clusters :
             s.fat[x] = IF \E i \in 1..k : tail[i] = x THEN 0 ELSE fat[0][x]
  BY <1>1 DEF Zeroed
<1> HIDE DEF s
<1>10. /\ r \in States /\ r.ent = ent
       /\ \A x \in Clusters : r.fat[x] = IF n > 0 /\ x = Y[n] THEN EOC ELSE s.fat[x]
       /\ n # 0 => /\ fat_set(op, Y[n], EOC) \in Seq(Writes)
                   /\ Leads(s, fat_set(op, Y[n], EOC), r)
  <2>1. CASE n = 0
    BY <1>1, <1>8, <1>9, <2>1
  <2>2. CASE n # 0
    <3>1. Y[n] \in Clusters /\ r = WithFat(s, Y[n], EOC)
      BY <1>1, <1>2, <2>2
    <3> HIDE DEF r
    <3>2. /\ fat_set(op, Y[n], EOC) \in Seq(Writes) /\ r \in States
          /\ Leads(s, fat_set(op, Y[n], EOC), r)
      BY <1>1, <1>8, <3>1, FatSetLeads
    <3>3. r.ent = ent /\ r.fat = [s.fat EXCEPT ![Y[n]] = EOC]
      BY <1>9, <3>1 DEF WithFat
    <3>4. s.fat \in [Clusters -> Links]
      BY <1>8 DEF States
    <3>5. \A x \in Clusters : r.fat[x] = IF x = Y[n] THEN EOC ELSE s.fat[x]
      BY <3>3, <3>4
    <3> QED BY <1>2, <2>2, <3>2, <3>3, <3>5
  <2> QED BY <2>1, <2>2
<1> HIDE DEF r
<1>11. /\ SetEntry(op, c, e) \in Seq(Writes) /\ t \in States
       /\ Leads(r, SetEntry(op, c, e), t)
  BY <1>10, EntryLeads
<1>12. /\ t.fat = r.fat /\ t.ent[c] = e /\ \A d \in Clusters \ {c} : t.ent[d] = ent[d]
  BY <1>1, <1>10 DEF WithEnt
<1> HIDE DEF t
<1>13. \A x : (\E i \in (n + 1)..m : Y[i] = x) <=> \E i \in 1..k : tail[i] = x
  <2>1. \A i \in 1..k : n + i \in (n + 1)..m /\ tail[i] = Y[n + i]
    BY <1>4 DEF TailPlace, m
  <2> QED BY <1>5, <2>1
<1>14. \A x \in Clusters :
           t.fat[x] = IF n > 0 /\ x = Y[n] THEN EOC
                      ELSE IF \E i \in (n + 1)..m : Y[i] = x THEN 0 ELSE fat[0][x]
  BY <1>9, <1>10, <1>12, <1>13
<1>15. CutTo(Current, ch, t, c, n)
  BY <1>1, <1>2, <1>12, <1>14 DEF CutTo, m, Y
<1>16. PICK u \in Chains : Shortened(Current, ch, t, u, c, n)
  BY <1>1, <1>11, <1>15, Cut
<1>17. /\ Sound(t, u) /\ Len(u[c]) = n /\ \A h \in Heads \ {c} : u[h] = ch[h]
       /\ \A d \in Clusters : Slotted(t, u, d) <=> Slotted(Current, ch, d)
       /\ \A x \in Clusters :
             Owned1(ch, x) /\ (\A i \in (n + 1)..m : Y[i] # x) => Owned1(u, x)
       /\ \A x \in Clusters :
             t.fat[x] = 0 <=> fat[0][x] = 0 \/ \E i \in (n + 1)..m : Y[i] = x
  BY <1>1, <1>16 DEF Shortened, m, Y
<1>18. Kept(Current, ch, t, u, c) /\ Listed(t, u, c)
  BY <1>1, <1>12, <1>17, Constants DEF Kept, Listed, Used
<1>19. info' \in Infos
  BY <1>1, <1>2, CountUp
<1>20. ~damaged => Counted(t, u, info'.count)
  <2>1. \A x \in Clusters : t.fat[x] = 0 <=>
            fat[0][x] = 0 \/ \E i \in 1..k : tail[i] = x
    BY <1>13, <1>17
  <2>2. \A x \in Clusters : Owned1(ch, x) /\ (\A i \in 1..k : tail[i] # x) =>
            Owned1(u, x)
    BY <1>13, <1>17
  <2>3. /\ \A i, j \in 1..k : tail[i] = tail[j] => i = j
        /\ \A i \in 1..k : fat[0][tail[i]] # 0
        /\ tail \in Seq(Clusters) /\ t \in States /\ u \in Chains /\ Sound(t, u)
    BY <1>2, <1>6, <1>11, <1>17
  <2> QED BY <2>1, <2>2, <2>3, Frees DEF k
<1>21. EndMarked(Y, n, op) \in Seq(Writes) /\ Leads(s, EndMarked(Y, n, op), r)
  <2>1. CASE n = 0
    BY <1>8, <2>1, LeadsNone DEF r, EndMarked
  <2> QED BY <1>10, <2>1 DEF EndMarked
<1> DEFINE F == fat_free_chain(op, Y[n + 1])
           M == EndMarked(Y, n, op)
           E == SetEntry(op, c, e)
<1>22. F \in Seq(Writes) /\ M \in Seq(Writes) /\ E \in Seq(Writes)
       /\ Leads(Current, F, s) /\ Leads(s, M, r) /\ Leads(r, E, t)
  BY <1>8, <1>11, <1>21
<1> HIDE DEF F, M, E
<1>23. F \o M \in Seq(Writes) /\ Leads(Current, F \o M, r)
  BY <1>1, <1>8, <1>10, <1>22, LeadsOn
<1>24. (F \o M) \o E \in Seq(Writes) /\ Leads(Current, (F \o M) \o E, t)
  BY <1>1, <1>10, <1>11, <1>22, <1>23, LeadsOn
<1> QED BY <1>11, <1>12, <1>17, <1>18, <1>19, <1>20, <1>24 DEF Y, F, M, E, CutFor

(* A truncate that makes a file smaller leaves writes that lead to a        *)
(* settled state.                                                           *)
LEMMA ShrinkDone ==
    ASSUME Fat32Assumption, NEW ch, AtRest(ch), NEW h \in Handles, NEW n \in 0..MaxSize,
           shrink(h, n)
    PROVE  Done(writes', handle', info', damaged')
<1> DEFINE f == handle[h]
           c == f.slot
           Y == ch[c]
           tail == SubSeq(Y, n + 1, Len(Y))
           g == [f EXCEPT !.size = n, !.first = IF n = 0 THEN 0 ELSE f.first]
           e == Renewed(g)
           F == fat_free_chain("truncate", Head(tail))
           B == fat_set("truncate", Y[n], EOC)
           E == SetEntry("truncate", c, e)
<1>1. handle[h] # NULL /\ n < f.size /\ Chain(f.first) = Y
  <2>1. handle[h] # NULL /\ n < f.size
    BY DEF shrink
  <2>2. OpenedAs(ch, h, f)
    BY <2>1, OpenFile
  <2> QED BY <2>1, <2>2 DEF OpenedAs
<1>2. /\ f \in OpenFiles /\ c \in Clusters /\ c \in Heads
      /\ Listed(Current, ch, c) /\ ent[c].kind = "file"
      /\ f.first = ent[c].first /\ f.first \in Heads
      /\ f.size \in 0..MaxSize /\ f.size <= Len(Y)
      /\ Y \in Seq(Clusters) /\ OpenBy(handle, h, c)
  <2>1. OpenedAs(ch, h, f)
    BY <1>1, OpenFile
  <2> QED BY <2>1 DEF OpenedAs
<1>3. IsTail(Y, n, tail) /\ tail # <<>> /\ Head(tail) = Y[n + 1]
  <2>1. n \in Nat /\ n < Len(Y)
    <3>1. n \in Nat /\ Len(Y) \in Nat /\ MaxSize \in Nat
      BY <1>2 DEF Fat32Assumption
    <3> HIDE DEF f, Y
    <3> QED BY <1>1, <1>2, <3>1
  <2> HIDE DEF Y
  <2> QED BY <1>2, <2>1, TailIs
<1>4. /\ writes' = F \o (IF n = 0 THEN <<>> ELSE B) \o update_dirent("truncate", g)
      /\ handle' = [handle EXCEPT ![h] = g] /\ CountFreed(tail) /\ damaged' = damaged
  BY <1>1, <1>3 DEF shrink
<1>5. /\ g.slot = c /\ g.size = n /\ g.first = IF n = 0 THEN 0 ELSE f.first
      /\ g \in OpenFiles
  <2> HIDE DEF f
  <2> QED BY <1>1, <1>2, Constants DEF OpenFiles
<1>6. handle' \in [Handles -> {NULL} \cup OpenFiles] /\ Reopened(handle, handle', h, g)
  BY <1>4, <1>5, Resting DEF Reopened
<1> HIDE DEF f, g
<1>7. /\ e \in Records /\ e.kind = "file" /\ e.first = g.first /\ e.size = g.size
      /\ update_dirent("truncate", g) = E
  BY <1>2, <1>5, Resting, RenewedIs DEF OpenFiles
<1>8. "truncate" \in Ops \ CrashIn
  BY DEF Ops, Fat32Assumption
<1> HIDE DEF tail, e
<1>9. e.size <= n /\ e.first = IF n = 0 THEN 0 ELSE ent[c].first
  BY <1>2, <1>5, <1>7
<1>10. \E t \in States, u \in Chains : CutFor(ch, c, n, "truncate", e, t, u)
  BY <1>2, <1>3, <1>4, <1>7, <1>8, <1>9, CutLeads
<1>11. PICK t \in States, u \in Chains : CutFor(ch, c, n, "truncate", e, t, u)
  BY <1>10
<1>12. /\ writes' \in Seq(Writes) /\ Leads(Current, writes', t)
       /\ Sound(t, u) /\ Kept(Current, ch, t, u, c)
       /\ Listed(t, u, c) /\ t.ent[c] = e /\ Len(u[c]) = n
       /\ info' \in Infos /\ (~damaged => Counted(t, u, info'.count))
  <2>1. writes' = (F \o EndMarked(Y, n, "truncate")) \o E
    BY <1>4, <1>7 DEF EndMarked
  <2> QED BY <1>3, <1>11, <2>1 DEF CutFor
<1>13. OpenAs(t, u, c, g)
  BY <1>5, <1>7, <1>12 DEF OpenAs
<1>14. Agrees(t, u, handle')
  BY <1>2, <1>6, <1>12, <1>13, Resting, AgreesFile
<1> QED BY <1>4, <1>6, <1>12, <1>14, Resting DEF Done, Settled

(* close leaves writes that lead to a settled state. *)
LEMMA CloseDone ==
    ASSUME Fat32Assumption, NEW ch, AtRest(ch), NEW h \in Handles, close(h)
    PROVE  Done(writes', handle', info', damaged')
<1> DEFINE f == handle[h]
           c == f.slot
           Y == ch[c]
           drop == f.size = 0 /\ f.first # 0
           g == [f EXCEPT !.first = 0]
           e == Renewed(g)
           F == fat_free_chain("close", f.first)
           E == SetEntry("close", c, e)
<1>1. /\ handle[h] # NULL /\ handle' = [handle EXCEPT ![h] = NULL] /\ damaged' = damaged
      /\ writes' = (IF drop THEN F ELSE <<>>)
                   \o update_dirent(IF drop THEN "close" ELSE "sync",
                                    IF drop THEN g ELSE f)
      /\ CountFreed(IF drop THEN Chain(f.first) ELSE <<>>)
  BY DEF close
<1>2. /\ f \in OpenFiles /\ c \in Clusters /\ c \in Heads
      /\ Listed(Current, ch, c) /\ ent[c].kind = "file"
      /\ f.first = ent[c].first /\ f.first \in Heads /\ Chain(f.first) = Y
      /\ f.size \in 0..MaxSize /\ f.size <= Len(Y)
      /\ Y \in Seq(Clusters) /\ (f.first = 0 <=> Y = <<>>) /\ OpenBy(handle, h, c)
  <2>1. OpenedAs(ch, h, f)
    BY <1>1, OpenFile
  <2> QED BY <2>1 DEF OpenedAs
<1>3. /\ handle' \in [Handles -> {NULL} \cup OpenFiles]
      /\ Reopened(handle, handle', h, NULL)
  BY <1>1, Resting DEF Reopened
<1>4. CASE ~drop
  <2>1. info' = info /\ "sync" \in Ops
    BY <1>1, <1>4 DEF CountFreed, Ops
  <2>2. /\ Renewed(f) \in Records
        /\ update_dirent("sync", f) = SetEntry("sync", c, Renewed(f))
    BY <1>2, Resting, RenewedIs
  <2>3. update_dirent("sync", f) \in Seq(Writes)
    BY <1>2, <2>1, <2>2, Resting, EntryLeads DEF Safe
  <2>4. writes' = update_dirent("sync", f)
    <3>1. writes' = <<>> \o update_dirent("sync", f)
      BY <1>1, <1>4
    <3> HIDE DEF f
    <3> QED BY <2>3, <3>1
  <2> QED BY <1>1, <1>2, <1>3, <2>1, <2>4, DirentDone
<1>5. CASE drop
  <2>1. /\ g.slot = c /\ g.size = 0 /\ g.first = 0 /\ g \in OpenFiles
    <3> HIDE DEF f
    <3> QED BY <1>2, <1>5, Constants DEF OpenFiles
  <2> HIDE DEF f, g
  <2>2. /\ e \in Records /\ e.kind = "file" /\ e.first = 0 /\ e.size = 0
        /\ update_dirent("close", g) = E
    BY <1>2, <2>1, Resting, RenewedIs DEF OpenFiles
  <2>3. "close" \in Ops \ CrashIn
    BY DEF Ops, Fat32Assumption
  <2>4. IsTail(Y, 0, Y) /\ Y[0 + 1] = f.first
    <3>1. Len(Y) > 0 /\ Y[1] = f.first
      BY <1>2, <1>5, Resting DEF Sound, Headed
    <3> HIDE DEF Y
    <3> QED BY <1>2, <3>1 DEF IsTail
  <2>5. CountFreed(Y) /\ writes' = F \o E /\ F \in Seq(Writes)
    <3>1. CountFreed(Y) /\ writes' = F \o E
      BY <1>1, <1>2, <1>5, <2>2
    <3>2. Y = Chain(f.first) /\ "close" \in Ops
      BY <1>2, <2>3
    <3>3. F \in Seq(Writes)
      BY <1>2, <2>3, <3>2, FreeLeads, Resting
    <3> QED BY <3>1, <3>3
  <2> HIDE DEF e
  <2>6. \E t \in States, u \in Chains : CutFor(ch, c, 0, "close", e, t, u)
    <3> DEFINE n == 0
    <3>1. IsTail(Y, n, Y) /\ e.size <= n /\ e.first = IF n = 0 THEN 0 ELSE ent[c].first
      BY <2>2, <2>4
    <3> HIDE DEF n
    <3>2. \E t \in States, u \in Chains : CutFor(ch, c, n, "close", e, t, u)
      BY <1>2, <2>2, <2>3, <2>5, <3>1, CutLeads
    <3> QED BY <3>2 DEF n
  <2>7. PICK t \in States, u \in Chains : CutFor(ch, c, 0, "close", e, t, u)
    BY <2>6
  <2>8. /\ writes' \in Seq(Writes) /\ Leads(Current, writes', t)
        /\ Sound(t, u) /\ Kept(Current, ch, t, u, c)
        /\ info' \in Infos /\ (~damaged => Counted(t, u, info'.count))
    <3>1. F \o EndMarked(Y, 0, "close") = F
      BY <2>5 DEF EndMarked
    <3>2. fat_free_chain("close", ch[c][0 + 1]) = F
      BY <2>4
    <3> HIDE DEF F
    <3> QED BY <2>5, <2>7, <3>1, <3>2 DEF CutFor
  <2>9. OpenAs(t, u, c, NULL)
    BY DEF OpenAs
  <2>10. Agrees(t, u, handle')
    BY <1>2, <1>3, <2>8, <2>9, Resting, AgreesFile
  <2> QED BY <1>1, <1>3, <2>8, <2>10, Resting DEF Done, Settled
<1> QED BY <1>4, <1>5

(* An entry is deleted, with what is in a directory, and m clusters of its  *)
(* chain are free.                                                          *)
Without(s, c, X, m) == Zeroed(WithEnt(s, c, Deleted), X, m)
Inside(s, ch, c, d) == s.ent[c].kind = "dir" /\ In(ch, c, d)
Parted(s, ch, c, t, u) ==
    /\ t \in States /\ Sound(t, u) /\ u[c] = <<>>
    /\ \A h \in Heads \ {c} : ~Inside(s, ch, c, h) => u[h] = ch[h]
    /\ \A d \in Clusters : Slotted(t, u, d) <=>
           Slotted(s, ch, d) /\ ~Inside(s, ch, c, d)

(* What is written for an entry that is deleted. *)
LEMMA DeletedIs ==
    ASSUME Fat32Assumption
    PROVE  Deleted \in Records /\ ~Used(Deleted) /\ Deleted.kind = "deleted"
BY Constants DEF Deleted, NoEntry, Records, Kinds, Used, Heads, Fat32Assumption

(* The state with an entry deleted and m clusters of its chain freed. *)
LEMMA WithoutIs ==
    ASSUME Fat32Assumption, NEW s \in States, NEW c \in Clusters, NEW X, NEW m
    PROVE  /\ Without(s, c, X, m) \in States
           /\ \A x \in Clusters :
                 Without(s, c, X, m).fat[x] =
                     IF \E n \in 1..m : X[n] = x THEN 0 ELSE s.fat[x]
           /\ Without(s, c, X, m).ent[c] = Deleted
           /\ \A d \in Clusters \ {c} : Without(s, c, X, m).ent[d] = s.ent[d]
<1>1. WithEnt(s, c, Deleted) \in States /\ WithEnt(s, c, Deleted).fat = s.fat
      /\ WithEnt(s, c, Deleted).ent = [s.ent EXCEPT ![c] = Deleted]
  BY DeletedIs DEF WithEnt, States
<1>2. /\ Without(s, c, X, m).ent = [s.ent EXCEPT ![c] = Deleted]
      /\ Without(s, c, X, m).fat =
            [x \in Clusters |-> IF \E n \in 1..m : X[n] = x THEN 0 ELSE s.fat[x]]
  BY <1>1 DEF Without, Zeroed
<1>3. Without(s, c, X, m) =
          [fat |-> Without(s, c, X, m).fat, ent |-> Without(s, c, X, m).ent]
  BY DEF Without, Zeroed
<1>4. s.fat \in [Clusters -> Links] /\ s.ent \in [Clusters -> Records] /\ 0 \in Links
      /\ Deleted \in Records
  BY DeletedIs DEF States, Links
<1>5. /\ Without(s, c, X, m).fat \in [Clusters -> Links]
      /\ Without(s, c, X, m).ent \in [Clusters -> Records]
  BY <1>2, <1>4
<1> QED BY <1>2, <1>3, <1>4, <1>5 DEF States

(* That state is sound, however many clusters of the chain are freed. *)
LEMMA Parts ==
    ASSUME Fat32Assumption, NEW s \in States, NEW ch \in Chains, Sound(s, ch),
           NEW c \in Clusters, Listed(s, ch, c), NEW m \in 0..Len(ch[c])
    PROVE  \E u \in Chains : Parted(s, ch, c, Without(s, c, ch[c], m), u)
<1> DEFINE t == Without(s, c, ch[c], m)
           u == [h \in Heads |-> IF h \in Gone(s, ch, c) THEN <<>> ELSE ch[h]]
<1>1. /\ t \in States /\ t.ent[c].kind = "deleted"
      /\ \A x \in Clusters :
             t.fat[x] = IF \E n \in 1..m : ch[c][n] = x THEN 0 ELSE s.fat[x]
      /\ \A d \in Clusters \ {c} : t.ent[d] = s.ent[d]
  BY WithoutIs, DeletedIs
<1> HIDE DEF t
<1>2. c \in Heads /\ 0 \notin Clusters /\ \A h \in Heads : ch[h] \in Seq(Clusters)
  BY Constants DEF Chains
<1>3. \A h \in Heads : h \in Gone(s, ch, c) <=>
          h = c \/ (h \in Clusters /\ Inside(s, ch, c, h))
  BY DEF Gone, Inside
<1>4. ASSUME NEW h \in Heads \ Gone(s, ch, c), NEW j \in 1..Len(ch[h])
      PROVE  t.fat[ch[h][j]] = s.fat[ch[h][j]]
  <2>1. h # c /\ h \in Heads /\ ch[h][j] \in Clusters
    BY <1>2, <1>3
  <2>2. \A n \in 1..m : n \in 1..Len(ch[c])
    BY <1>2
  <2>3. ~\E n \in 1..m : ch[c][n] = ch[h][j]
    BY <1>2, <2>1, <2>2 DEF Sound, Apart
  <2> QED BY <1>1, <2>1, <2>3
<1>5. /\ u \in Chains /\ Sound(t, u)
      /\ \A d \in Clusters :
            Slotted(t, u, d) <=>
                Slotted(s, ch, d) /\ ~(s.ent[c].kind = "dir" /\ In(ch, c, d))
  BY <1>1, <1>4, Removed
<1>6. \A h \in Heads : u[h] = IF h \in Gone(s, ch, c) THEN <<>> ELSE ch[h]
  OBVIOUS
<1> HIDE DEF u
<1>7. \A h \in Heads : Inside(s, ch, c, h) => h \in Clusters
  BY <1>2 DEF Inside, In
<1>8. Parted(s, ch, c, t, u)
  BY <1>1, <1>2, <1>3, <1>5, <1>6, <1>7 DEF Parted, Inside
<1> QED BY <1>5, <1>8 DEF t

(* An entry that is not open is gone, and its clusters are free. *)
Dropped(ch, c, t, dam) ==
    /\ t \in States /\ info' \in Infos
    /\ \E u \in Chains : Settled(t, u, handle, info'.count, dam)

(* An entry that is deleted and its chain freed leaves a settled state. *)
LEMMA Drops ==
    ASSUME Fat32Assumption, NEW ch, AtRest(ch), NEW c \in Clusters,
           Listed(Current, ch, c),
           ~IsOpen(c),
           ent[c].kind = "dir" => \A e \in Entries(ent[c].first) : ~IsOpen(e),
           CountFreed(ch[c]), NEW dam,
           dam = (damaged \/ (ent[c].kind = "dir" /\ Entries(ent[c].first) # {}))
    PROVE  Dropped(ch, c, Without(Current, c, ch[c], Len(ch[c])), dam)
<1> DEFINE X == ch[c]
           t == Without(Current, c, X, Len(X))
<1>1. /\ Types /\ Current \in States /\ Current.fat = fat[0] /\ Current.ent = ent
      /\ ch \in Chains /\ \A h \in Heads : ch[h] \in Seq(Clusters)
      /\ Sound(Current, ch) /\ Agrees(Current, ch, handle)
      /\ c \in Heads /\ 0 \notin Clusters /\ 0 \in Heads
      /\ \A h \in Heads : h = 0 \/ h \in Clusters
  BY Resting, Constants DEF Heads
<1>2. Entries(ent[c].first) = {d \in Clusters : In(ch, c, d) /\ Used(ent[d])}
  BY <1>1, Reads, Resting
<1>3. PICK u \in Chains : Parted(Current, ch, c, t, u)
  <2>1. Len(X) \in 0..Len(ch[c])
    BY <1>1
  <2> QED BY <1>1, <2>1, Parts
<1>4. /\ \A x \in Clusters :
             t.fat[x] = IF \E n \in 1..Len(X) : X[n] = x THEN 0 ELSE fat[0][x]
      /\ \A d \in Clusters \ {c} : t.ent[d] = ent[d]
  BY <1>1, WithoutIs
<1> HIDE DEF t
<1>5. Agrees(t, u, handle)
  <2> SUFFICES ASSUME NEW h \in Handles, handle[h] # NULL
               PROVE  /\ handle[h].slot \in Clusters /\ Listed(t, u, handle[h].slot)
                      /\ t.ent[handle[h].slot].kind = "file"
                      /\ handle[h].first = t.ent[handle[h].slot].first
                      /\ handle[h].size <= Len(u[handle[h].slot])
    BY <1>1 DEF Agrees
  <2> DEFINE d == handle[h].slot
  <2>1. /\ d \in Clusters /\ Listed(Current, ch, d) /\ ent[d].kind = "file"
        /\ handle[h].first = ent[d].first /\ handle[h].size <= Len(ch[d]) /\ IsOpen(d)
    BY <1>1 DEF Agrees, IsOpen
  <2> HIDE DEF d
  <2>2. d # c /\ ~Inside(Current, ch, c, d) /\ d \in Heads
    BY <1>1, <1>2, <2>1, Constants DEF Inside, Used
  <2>3. u[d] = ch[d] /\ Listed(t, u, d) /\ t.ent[d] = ent[d]
    BY <1>1, <1>3, <1>4, <2>1, <2>2 DEF Parted, Listed
  <2> QED BY <2>1, <2>3 DEF d
<1>6. \A i \in 1..Len(X) : fat[0][X[i]] # 0
  <2>1. \A i \in 1..Len(X) : In(ch, c, X[i])
    BY DEF In
  <2> QED BY <1>1, <2>1, OwnedTaken
<1>7. \A i, j \in 1..Len(X) : X[i] = X[j] => i = j
  BY <1>1 DEF Sound, Apart
<1>8. info' \in Infos
  BY <1>1, CountUp
<1>9. ~dam => Counted(t, u, info'.count)
  <2> SUFFICES ASSUME ~dam PROVE Counted(t, u, info'.count)
    OBVIOUS
  <2>1. ~damaged /\ (ent[c].kind = "dir" => Entries(ent[c].first) = {})
    OBVIOUS
  <2>2. ASSUME NEW x \in Clusters, Owned1(ch, x), \A i \in 1..Len(X) : X[i] # x
        PROVE  Owned1(u, x)
    <3>1. PICK h \in Heads : In(ch, h, x)
      BY <2>2 DEF Owned1
    <3>2. h # c
      BY <2>2, <3>1 DEF In
    <3>3. CASE Inside(Current, ch, c, h)
      <4>1. h \in Clusters /\ ~Used(ent[h])
        BY <1>1, <1>2, <2>1, <3>3 DEF Inside, In
      <4>2. ch[h] = <<>>
        BY <1>1, <4>1 DEF Sound, Headed, Listed
      <4> QED BY <3>1, <4>2 DEF In
    <3>4. CASE ~Inside(Current, ch, c, h)
      BY <1>3, <3>1, <3>2, <3>4 DEF Parted, In, Owned1
    <3> QED BY <3>3, <3>4
  <2>3. \A x \in Clusters : t.fat[x] = 0 <=>
            fat[0][x] = 0 \/ \E i \in 1..Len(X) : X[i] = x
    BY <1>4
  <2>4. t \in States /\ Sound(t, u) /\ X \in Seq(Clusters)
    BY <1>1, <1>3 DEF Parted
  <2> HIDE DEF X
  <2> QED BY <1>6, <1>7, <2>1, <2>2, <2>3, <2>4, Frees DEF X
<1>10. Settled(t, u, handle, info'.count, dam)
  BY <1>3, <1>5, <1>9 DEF Settled, Parted
<1> QED BY <1>3, <1>8, <1>10 DEF Dropped, Parted, t

(* unlink leaves writes that lead to a settled state. *)
LEMMA UnlinkDone ==
    ASSUME Fat32Assumption, NEW ch, AtRest(ch), NEW c \in Clusters, unlink(c)
    PROVE  Done(writes', handle', info', damaged')
<1> DEFINE X == ch[c]
           n == Len(X)
           r == WithEnt(Current, c, Deleted)
           E == SetEntry("unlink", c, Deleted)
           F == fat_free_chain("unlink", ent[c].first)
<1>1. /\ c \in Live /\ ~IsOpen(c)
      /\ ent[c].kind = "dir" => \A e \in Entries(ent[c].first) : ~IsOpen(e)
      /\ writes' = E \o F /\ CountFreed(Chain(ent[c].first)) /\ handle' = handle
      /\ damaged' = (damaged \/ (ent[c].kind = "dir" /\ Entries(ent[c].first) # {}))
  BY DEF unlink
<1>2. /\ Current \in States /\ ch \in Chains /\ Sound(Current, ch)
      /\ X \in Seq(Clusters) /\ n \in Nat
      /\ c \in Heads
  BY Resting, Constants
<1>3. Listed(Current, ch, c) /\ Chain(ent[c].first) = X
  BY <1>1, Reads, Resting
<1>4. Dropped(ch, c, Without(Current, c, X, n), damaged')
  BY <1>1, <1>3, Drops
<1>5. "unlink" \in Ops /\ Deleted \in Records /\ Safe(Current)
  BY <1>2, DeletedIs DEF Ops, Safe
<1>6. E \in Seq(Writes) /\ r \in States /\ Leads(Current, E, r)
  BY <1>2, <1>5, EntryLeads
<1>7. \A m \in 0..Len(X) : Safe(Zeroed(r, X, m))
  <2> SUFFICES ASSUME NEW m \in 0..Len(X) PROVE Safe(Zeroed(r, X, m))
    OBVIOUS
  <2>1. PICK u \in Chains : Parted(Current, ch, c, Without(Current, c, X, m), u)
    BY <1>2, <1>3, Parts
  <2> QED BY <2>1 DEF Safe, Parted, Without
<1> HIDE DEF r, X, n
<1>8. F \in Seq(Writes) /\ Leads(r, F, Zeroed(r, X, n))
  BY <1>2, <1>3, <1>5, <1>6, <1>7, FreeLeads DEF n
<1> HIDE DEF E, F
<1>9. E \o F \in Seq(Writes) /\ Leads(Current, E \o F, Without(Current, c, X, n))
  BY <1>6, <1>8, LeadsOn DEF Without, r
<1> QED BY <1>1, <1>4, <1>9, Resting DEF Done, Dropped, Settled

(* rmdir leaves writes that lead to a settled state. *)
LEMMA RmdirDone ==
    ASSUME Fat32Assumption, NEW ch, AtRest(ch), NEW c \in Clusters, rmdir(c)
    PROVE  Done(writes', handle', info', damaged')
<1> DEFINE X == ch[c]
           n == Len(X)
           r == Zeroed(Current, X, n)
           E == SetEntry("rmdir", c, Deleted)
           F == fat_free_chain("rmdir", ent[c].first)
<1>1. /\ c \in Live /\ ent[c].kind = "dir" /\ Entries(ent[c].first) = {}
      /\ writes' = F \o E /\ CountFreed(Chain(ent[c].first)) /\ handle' = handle
      /\ damaged' = damaged
  BY DEF rmdir
<1>2. /\ Current \in States /\ ch \in Chains /\ Sound(Current, ch)
      /\ X \in Seq(Clusters) /\ n \in Nat
      /\ c \in Heads /\ damaged \in BOOLEAN
  <2>1. c \in Heads
    BY Constants
  <2>2. /\ Current \in States /\ ch \in Chains /\ Sound(Current, ch)
        /\ damaged \in BOOLEAN /\ \A h \in Heads : ch[h] \in Seq(Clusters)
    BY Resting
  <2> QED BY <2>1, <2>2
<1>3. Listed(Current, ch, c) /\ Chain(ent[c].first) = X
  BY <1>1, Reads, Resting
<1>4. Dropped(ch, c, Without(Current, c, X, n), damaged')
  <2>1. ~IsOpen(c)
    BY <1>1, Resting DEF IsOpen, Agrees
  <2>2. damaged' = (damaged \/ (ent[c].kind = "dir" /\ Entries(ent[c].first) # {}))
    BY <1>1, <1>2
  <2> QED BY <1>1, <1>3, <2>1, <2>2, Drops
<1>5. "rmdir" \in Ops \ CrashIn /\ Deleted \in Records
  BY DeletedIs DEF Ops, Fat32Assumption
<1> HIDE DEF r, X, n
<1>6. F \in Seq(Writes) /\ r \in States /\ Leads(Current, F, r)
  BY <1>2, <1>3, <1>5, FreeLeads DEF r, n
<1>7. /\ E \in Seq(Writes) /\ WithEnt(r, c, Deleted) \in States
      /\ Leads(r, E, WithEnt(r, c, Deleted))
  BY <1>5, <1>6, EntryLeads
<1>8. WithEnt(r, c, Deleted) = Without(Current, c, X, n)
  BY DEF r, WithEnt, Without, Zeroed
<1> HIDE DEF E, F
<1>9. F \o E \in Seq(Writes) /\ Leads(Current, F \o E, Without(Current, c, X, n))
  BY <1>2, <1>6, <1>7, <1>8, LeadsOn
<1> QED BY <1>1, <1>2, <1>4, <1>9, Resting DEF Done, Dropped, Settled

(* The first write of rename deletes the entry, and keeps the clusters. *)
LEMMA Deletes ==
    ASSUME Fat32Assumption, NEW ch, AtRest(ch), NEW c \in Clusters,
           Listed(Current, ch, c),
           ent[c].kind = "file", ~IsOpen(c), NEW r, r = WithEnt(Current, c, Deleted)
    PROVE  /\ r \in States /\ r.fat = fat[0] /\ r.ent[c] = Deleted
           /\ \A d \in Clusters \ {c} : r.ent[d] = ent[d]
           /\ \E u \in Chains :
                 /\ Sound(r, u) /\ u[c] = <<>> /\ \A h \in Heads \ {c} : u[h] = ch[h]
                 /\ \A d \in Clusters : Slotted(r, u, d) <=> Slotted(Current, ch, d)
                 /\ Agrees(r, u, handle)
<1>1. /\ Current \in States /\ Current.fat = fat[0] /\ Current.ent = ent
      /\ ch \in Chains
      /\ Sound(Current, ch) /\ Agrees(Current, ch, handle) /\ ch[c] \in Seq(Clusters)
      /\ c \in Heads
  BY Resting, Constants
<1>2. r = Without(Current, c, ch[c], 0)
  <2>1. WithEnt(Current, c, Deleted).fat = fat[0] /\ fat[0] \in [Clusters -> Links]
    BY <1>1, Resting DEF WithEnt
  <2>2. fat[0] =
            [x \in Clusters |-> IF \E n \in 1..0 : ch[c][n] = x THEN 0 ELSE fat[0][x]]
    BY <2>1
  <2> QED BY <1>1, <2>1, <2>2 DEF Without, Zeroed, WithEnt
<1>3. /\ r \in States /\ r.ent[c] = Deleted
      /\ \A d \in Clusters \ {c} : r.ent[d] = ent[d]
  BY <1>1, <1>2, WithoutIs
<1>4. r.fat = fat[0]
  BY <1>1 DEF WithEnt
<1>5. PICK u \in Chains : Parted(Current, ch, c, r, u)
  <2>1. 0 \in 0..Len(ch[c])
    BY <1>1
  <2> QED BY <1>1, <1>2, <2>1, Parts
<1>6. \A h : ~Inside(Current, ch, c, h)
  BY <1>1 DEF Inside
<1>7. /\ Sound(r, u) /\ u[c] = <<>> /\ \A h \in Heads \ {c} : u[h] = ch[h]
      /\ \A d \in Clusters : Slotted(r, u, d) <=> Slotted(Current, ch, d)
  BY <1>5, <1>6 DEF Parted
<1>8. Agrees(r, u, handle)
  <2> SUFFICES ASSUME NEW h \in Handles, handle[h] # NULL
               PROVE  LET d == handle[h].slot
                      IN  Listed(r, u, d) /\ r.ent[d] = Current.ent[d] /\ u[d] = ch[d]
    BY <1>1, AgreesKept
  <2> DEFINE d == handle[h].slot
  <2>1. d \in Clusters /\ Listed(Current, ch, d) /\ IsOpen(d)
    BY <1>1 DEF Agrees, IsOpen
  <2> HIDE DEF d
  <2>2. d # c /\ d \in Heads
    BY <2>1, Constants
  <2>3. u[d] = ch[d] /\ Listed(r, u, d) /\ r.ent[d] = Current.ent[d]
    BY <1>1, <1>3, <1>7, <2>1, <2>2 DEF Listed
  <2> QED BY <2>3 DEF d
<1> QED BY <1>3, <1>4, <1>7, <1>8

(* rename leaves writes that lead to a settled state. *)
LEMMA RenameDone ==
    ASSUME Fat32Assumption, NEW ch, AtRest(ch), NEW c \in Clusters, NEW d \in Clusters,
           NEW name \in Names, rename(c, d, name)
    PROVE  Done(writes', handle', info', damaged')
<1> DEFINE r == WithEnt(Current, c, Deleted)
           p == Slot(d, {c})
           cs == Taken(d, {c})
           e == [ent[c] EXCEPT !.name = name]
           D == SetEntry("rename", c, Deleted)
           G == Grow(d, {c})
           E == SetEntry("rename", p, e)
           X == ch[c]
<1>1. /\ c \in Live /\ ent[c].kind = "file" /\ ~IsOpen(c) /\ d \in Dirs
      /\ writes' = D \o (IF Room(d, {c}) THEN G \o E ELSE <<>>)
      /\ CountAllocated(IF Room(d, {c}) THEN cs ELSE <<>>)
      /\ damaged' = (damaged \/ ~Room(d, {c})) /\ handle' = handle
  BY DEF rename
<1>2. /\ Types /\ Current \in States /\ Current.fat = fat[0] /\ Current.ent = ent
      /\ ch \in Chains /\ Sound(Current, ch) /\ X \in Seq(Clusters) /\ c \in Heads
      /\ c # 0
      /\ handle \in [Handles -> {NULL} \cup OpenFiles] /\ damaged \in BOOLEAN
      /\ 0 \in Heads
  BY Resting, Constants
<1>3. Listed(Current, ch, c)
  BY <1>1, Reads, Resting
<1> HIDE DEF r, p, cs, e, D, G, E
<1>4. /\ r \in States /\ r.fat = fat[0] /\ r.ent[c] = Deleted
      /\ \A x \in Clusters \ {c} : r.ent[x] = ent[x]
      /\ \E u \in Chains :
            /\ Sound(r, u) /\ u[c] = <<>> /\ \A h \in Heads \ {c} : u[h] = ch[h]
            /\ \A x \in Clusters : Slotted(r, u, x) <=> Slotted(Current, ch, x)
            /\ Agrees(r, u, handle)
  BY <1>1, <1>3, Deletes DEF r
<1>5. PICK u \in Chains :
            /\ Sound(r, u) /\ u[c] = <<>> /\ \A h \in Heads \ {c} : u[h] = ch[h]
            /\ \A x \in Clusters : Slotted(r, u, x) <=> Slotted(Current, ch, x)
            /\ Agrees(r, u, handle)
  BY <1>4
<1>6. D \in Seq(Writes) /\ Leads(Current, D, r)
  <2>1. "rename" \in Ops /\ Deleted \in Records /\ Safe(Current)
    BY <1>2, DeletedIs DEF Ops, Safe
  <2> QED BY <1>2, <2>1, EntryLeads DEF D, r
<1>7. CASE ~Room(d, {c})
  <2>1. writes' = D /\ info' = info /\ damaged' = TRUE
    <3>1. writes' = D \o <<>> /\ CountAllocated(<<>>) /\ damaged' = TRUE
      BY <1>1, <1>2, <1>7
    <3> QED BY <1>6, <3>1 DEF CountAllocated
  <2>2. Settled(r, u, handle, info'.count, damaged')
    BY <1>5, <2>1 DEF Settled
  <2> QED BY <1>1, <1>2, <1>4, <1>6, <2>1, <2>2, Resting DEF Done
<1>8. CASE Room(d, {c})
  <2>1. writes' = D \o (G \o E) /\ CountAllocated(cs) /\ damaged' = damaged
    BY <1>1, <1>2, <1>8
  <2>2. PICK k \in Heads : DirHead(Current, ch, k) /\ Chain(d) = ch[k]
    BY <1>1, <1>2, Reads, Resting
  <2>3. k # c /\ DirHead(r, u, k) /\ Chain(d) = u[k]
    <3>1. k # c /\ u[k] = ch[k] /\ u[0] = ch[0]
      BY <1>1, <1>2, <1>5, <2>2 DEF DirHead
    <3>2. k # 0 => k \in Clusters /\ k \in Clusters \ {c}
      BY <3>1 DEF Heads
    <3> QED BY <1>2, <1>4, <2>2, <3>1, <3>2 DEF DirHead, In
  <2>4. \A x \in Clusters : IF x \in {c} THEN r.ent[x] = Deleted ELSE r.ent[x] = ent[x]
    BY <1>4
  <2>5. PICK t \in States, v \in Chains :
             G \in Seq(Writes) /\ Leads(r, G, t) /\ Roomy(r, u, k, p, cs, t, v)
    BY <1>2, <1>4, <1>5, <1>8, <2>3, <2>4, Roomed DEF G, p, cs
  <2>6. p \in Clusters /\ Sound(t, v)
    BY <2>5 DEF Roomy
  <2>7. /\ e \in Records /\ e.kind = "file" /\ e.first = ent[c].first
        /\ e.size = ent[c].size
    <3>1. ent[c] \in Records
      BY <1>2 DEF Types
    <3> QED BY <1>1, <3>1 DEF e, Records, Used
  <2>8. Loose(r, u, e, X)
    <3>1. \A i, j \in 1..Len(X) : X[i] = X[j] => i = j
      BY <1>2 DEF Sound, Apart
    <3>2. \A i \in 1..Len(X) : r.fat[X[i]] = IF i = Len(X) THEN EOC ELSE X[i + 1]
      BY <1>2, <1>4 DEF Sound, Linked
    <3>3. ASSUME NEW i \in 1..Len(X), Owned1(u, X[i]) PROVE FALSE
      <4>1. PICK h \in Heads : In(u, h, X[i])
        BY <3>3 DEF Owned1
      <4>2. h # c
        BY <1>5, <4>1 DEF In
      <4>3. PICK j \in 1..Len(ch[h]) : ch[h][j] = X[i]
        BY <1>5, <4>1, <4>2 DEF In
      <4> QED BY <1>2, <4>2, <4>3 DEF Sound, Apart
    <3>4. /\ e.size <= Len(X)
          /\ (IF e.first # 0 THEN Len(X) > 0 /\ X[1] = e.first ELSE X = <<>>)
      BY <1>2, <1>3, <2>7 DEF Sound, Sized, Headed
    <3> HIDE DEF X
    <3> QED BY <1>2, <2>7, <3>1, <3>2, <3>3, <3>4 DEF Loose
  <2> DEFINE q == WithEnt(t, p, e)
  <2>9. q \in States /\ \E w \in Chains : Placed(r, u, p, e, cs, X, q, w)
    <3> HIDE DEF X
    <3> QED BY <1>4, <1>5, <2>3, <2>5, <2>8, FilePlaced
  <2>10. PICK w \in Chains : Placed(r, u, p, e, cs, X, q, w)
    BY <2>9
  <2>11. E \in Seq(Writes) /\ Leads(t, E, q)
    <3>1. "rename" \in Ops /\ Safe(t)
      BY <2>6 DEF Ops, Safe
    <3> QED BY <2>6, <2>7, <3>1, EntryLeads DEF E
  <2> HIDE DEF q, X
  <2>12. G \o E \in Seq(Writes) /\ Leads(r, G \o E, q)
    BY <2>5, <2>11, LeadsOn
  <2>13. writes' \in Seq(Writes) /\ Leads(Current, writes', q)
    BY <1>6, <2>1, <2>12, LeadsOn
  <2>14. info' \in Infos /\ (~damaged => Counted(q, w, info'.count))
    <3>1. /\ cs \in Seq(Clusters) /\ \A i, j \in 1..Len(cs) : cs[i] = cs[j] => i = j
          /\ \A i \in 1..Len(cs) : fat[0][cs[i]] = 0
      BY <1>4, <2>5 DEF Roomy
    <3>2. \A x \in Clusters : q.fat[x] = 0 <=>
              fat[0][x] = 0 /\ \A i \in 1..Len(cs) : cs[i] # x
      BY <1>4, <2>10 DEF Placed
    <3>3. ASSUME NEW x \in Clusters, Owned1(ch, x)
          PROVE  Owned1(u, x) \/ \E i \in 1..Len(X) : X[i] = x
      <4>1. PICK h \in Heads : In(ch, h, x)
        BY <3>3 DEF Owned1
      <4>2. CASE h = c
        BY <4>1, <4>2 DEF In, X
      <4>3. CASE h # c
        BY <1>5, <4>1, <4>3 DEF In, Owned1
      <4> QED BY <4>2, <4>3
    <3>4. \A x \in Clusters : Owned1(ch, x) \/ (\E i \in 1..Len(cs) : cs[i] = x) =>
              Owned1(w, x)
      BY <2>10, <3>3 DEF Placed
    <3> QED BY <2>1, <2>9, <3>1, <3>2, <3>4, Allocates
  <2>15. Agrees(q, w, handle)
    <3> SUFFICES ASSUME NEW h \in Handles, handle[h] # NULL
                 PROVE  LET x == handle[h].slot
                        IN  Listed(q, w, x) /\ q.ent[x] = r.ent[x] /\ w[x] = u[x]
      BY <1>5, AgreesKept
    <3> DEFINE x == handle[h].slot
    <3>1. x \in Clusters /\ Listed(r, u, x) /\ r.ent[x].kind = "file"
      BY <1>5 DEF Agrees
    <3> HIDE DEF x
    <3>2. x # p
      BY <2>5, <3>1 DEF Roomy, Listed
    <3>3. Listed(q, w, x) /\ q.ent[x] = r.ent[x] /\ w[x] = u[x]
      BY <2>10, <3>1, <3>2 DEF Placed, Kept
    <3> QED BY <3>3 DEF x
  <2>16. Sound(q, w)
    BY <2>10 DEF Placed
  <2> QED BY <1>1, <1>2, <2>1, <2>9, <2>13, <2>14, <2>15, <2>16 DEF Done, Settled
<1> QED BY <1>7, <1>8

(* What is in no chain can be marked and filled. *)
LEMMA Prepared ==
    ASSUME Fat32Assumption, NEW t \in States, NEW v \in Chains, Sound(t, v),
           NEW n \in Clusters,
           t.fat[n] = 0, NEW op \in Ops
    PROVE  /\ ~Owned1(v, n)
           /\ fat_set(op, n, EOC) \in Seq(Writes)
           /\ SetEntry(op, n, Free) \in Seq(Writes)
           /\ \E q \in States :
                 /\ Leads(t, fat_set(op, n, EOC) \o SetEntry(op, n, Free), q)
                 /\ Sound(q, v)
                 /\ \A x \in Clusters : Slotted(q, v, x) <=> Slotted(t, v, x)
                 /\ \A x \in Clusters : q.fat[x] = IF x = n THEN EOC ELSE t.fat[x]
                 /\ \A x \in Clusters : q.ent[x] = IF x = n THEN Free ELSE t.ent[x]
<1> DEFINE r == WithFat(t, n, EOC)
           q == WithEnt(r, n, Free)
           B == fat_set(op, n, EOC)
           E == SetEntry(op, n, Free)
<1>1. ~Owned1(v, n)
  BY OwnedTaken DEF Owned1
<1>2. EOC \in Links /\ Free \in Records /\ t.fat \in [Clusters -> Links]
      /\ t.ent \in [Clusters -> Records] /\ \A h \in Heads : v[h] \in Seq(Clusters)
  BY Constants DEF Links, Free, NoEntry, Records, Kinds, Used, Heads, Fat32Assumption,
                   States, Chains
<1>3. /\ r \in States /\ r.ent = t.ent
      /\ \A x \in Clusters : r.fat[x] = IF x = n THEN EOC ELSE t.fat[x]
  BY <1>2 DEF WithFat, States
<1>4. /\ q \in States /\ q.fat = r.fat
      /\ \A x \in Clusters : q.ent[x] = IF x = n THEN Free ELSE t.ent[x]
  BY <1>2, <1>3 DEF WithEnt, States
<1> HIDE DEF r, q
<1>5. \A h \in Heads : \A j \in 1..Len(v[h]) : v[h][j] # n /\ v[h][j] \in Clusters
  BY <1>1, <1>2 DEF Owned1, In
<1>6. ~Slotted(t, v, n)
  BY <1>1 DEF Slotted, Owned1
<1>7. Sound(r, v) /\ \A x \in Clusters : Slotted(r, v, x) <=> Slotted(t, v, x)
  <2>1. \A h \in Heads : \A j \in 1..Len(v[h]) : r.fat[v[h][j]] = t.fat[v[h][j]]
    BY <1>3, <1>5
  <2>2. \A x \in Clusters : Slotted(t, v, x) => r.ent[x] = t.ent[x]
    BY <1>3
  <2> QED BY <1>3, <2>1, <2>2, Untouched
<1>8. Sound(q, v) /\ \A x \in Clusters : Slotted(q, v, x) <=> Slotted(t, v, x)
  <2>1. \A h \in Heads : \A j \in 1..Len(v[h]) : q.fat[v[h][j]] = t.fat[v[h][j]]
    BY <1>3, <1>4, <1>5
  <2>2. \A x \in Clusters : Slotted(t, v, x) => q.ent[x] = t.ent[x]
    BY <1>4, <1>6
  <2> QED BY <1>4, <2>1, <2>2, Untouched
<1>9. B \in Seq(Writes) /\ Leads(t, B, r)
  BY <1>2, <1>7, FatSetLeads DEF Safe, r
<1>10. E \in Seq(Writes) /\ Leads(r, E, q)
  BY <1>2, <1>3, <1>7, EntryLeads DEF Safe, q
<1> HIDE DEF B, E
<1>11. Leads(t, B \o E, q)
  BY <1>9, <1>10, LeadsOn
<1> QED BY <1>1, <1>3, <1>4, <1>8, <1>9, <1>10, <1>11 DEF B, E

(* A cluster that is not in a list can be added to it. *)
LEMMA OneMore ==
    ASSUME NEW cs \in Seq(Clusters), NEW n \in Clusters,
           \A i, j \in 1..Len(cs) : cs[i] = cs[j] => i = j,
           \A i \in 1..Len(cs) : cs[i] # n
    PROVE  /\ cs \o << n >> \in Seq(Clusters)
           /\ \A i, j \in 1..Len(cs \o << n >>) :
                  (cs \o << n >>)[i] = (cs \o << n >>)[j] => i = j
           /\ \A x : (\E i \in 1..Len(cs \o << n >>) : (cs \o << n >>)[i] = x)
                     <=> x = n \/ \E i \in 1..Len(cs) : cs[i] = x
<1> DEFINE k == Len(cs)
           m == cs \o << n >>
<1>1. /\ m \in Seq(Clusters) /\ Len(m) = k + 1 /\ k \in Nat
      /\ \A i \in 1..(k + 1) : m[i] = IF i = k + 1 THEN n ELSE cs[i]
  OBVIOUS
<1> HIDE DEF m, k
<1>2. \A i \in 1..(k + 1) : i # k + 1 => i \in 1..k
  BY <1>1
<1>3. \A i \in 1..k : i \in 1..(k + 1) /\ i # k + 1
  BY <1>1
<1>4. k + 1 \in 1..(k + 1)
  BY <1>1
<1>5. \A i, j \in 1..Len(m) : m[i] = m[j] => i = j
  BY <1>1, <1>2 DEF k
<1>6. \A x : (\E i \in 1..Len(m) : m[i] = x) <=> x = n \/ \E i \in 1..k : cs[i] = x
  BY <1>1, <1>2, <1>3, <1>4
<1> QED BY <1>1, <1>5, <1>6 DEF m, k

(* However sequences are joined, they give the same one. *)
JoinOf(a, b, d, S) ==
    /\ d \in Seq(S) /\ Len(d) = Len(a) + Len(b)
    /\ \A x \in 1..(Len(a) + Len(b)) : d[x] = IF x <= Len(a) THEN a[x] ELSE b[x - Len(a)]
LEMMA JoinHas ==
    ASSUME NEW S, NEW a \in Seq(S), NEW b \in Seq(S)
    PROVE  JoinOf(a, b, a \o b, S)
<1>1. a \o b \in Seq(S)
  BY ConcatProperties
<1>2. Len(a \o b) = Len(a) + Len(b)
  BY ConcatProperties
<1>3. \A x \in 1..(Len(a) + Len(b)) :
          (a \o b)[x] = IF x <= Len(a) THEN a[x] ELSE b[x - Len(a)]
  BY ConcatProperties
<1> QED BY <1>1, <1>2, <1>3 DEF JoinOf

Assoc(a, b, c) == a \o (b \o c) = (a \o b) \o c
LEMMA Associated ==
    ASSUME NEW S, NEW a \in Seq(S), NEW b \in Seq(S), NEW c \in Seq(S)
    PROVE  Assoc(a, b, c)
<1> DEFINE d == a \o b
           e == b \o c
           l == a \o e
           r == d \o c
           i == Len(a)
           j == Len(b)
           k == Len(c)
<1>1. i \in Nat /\ j \in Nat /\ k \in Nat
  BY LenProperties
<1>2. JoinOf(a, b, d, S) /\ JoinOf(b, c, e, S)
  BY JoinHas
<1>3. d \in Seq(S) /\ e \in Seq(S)
  BY <1>2 DEF JoinOf
<1> HIDE DEF d, e
<1>4. JoinOf(a, e, l, S) /\ JoinOf(d, c, r, S)
  BY <1>3, JoinHas
<1>5. l \in Seq(S) /\ r \in Seq(S)
  BY <1>4 DEF JoinOf
<1> HIDE DEF l, r
<1>6. Len(d) = i + j /\ Len(e) = j + k /\ Len(l) = i + (j + k) /\ Len(r) = (i + j) + k
  BY <1>2, <1>4 DEF JoinOf
<1>7. /\ \A x \in 1..(i + j) : d[x] = IF x <= i THEN a[x] ELSE b[x - i]
      /\ \A x \in 1..(j + k) : e[x] = IF x <= j THEN b[x] ELSE c[x - j]
      /\ \A x \in 1..(i + (j + k)) : l[x] = IF x <= i THEN a[x] ELSE e[x - i]
      /\ \A x \in 1..((i + j) + k) : r[x] = IF x <= i + j THEN d[x] ELSE c[x - (i + j)]
  BY <1>2, <1>4, <1>6 DEF JoinOf
<1> HIDE DEF i, j, k
<1>8. ASSUME NEW x \in 1..(i + (j + k)) PROVE l[x] = r[x]
  <2>1. /\ x \in 1..((i + j) + k) /\ x \in Nat /\ x >= 1 /\ x <= i + j + k
    BY ONLY <1>1, <1>8
  <2>2. CASE x <= i
    <3>1. x \in 1..(i + j) /\ x <= i + j
      BY ONLY <1>1, <2>1, <2>2
    <3>2. l[x] = a[x]
      BY ONLY <1>7, <1>8, <2>2
    <3>3. r[x] = d[x] /\ d[x] = a[x]
      BY ONLY <1>7, <2>1, <2>2, <3>1
    <3> QED BY ONLY <3>2, <3>3
  <2>3. CASE x > i /\ x <= i + j
    <3>1. /\ x \in 1..(i + j) /\ ~(x <= i) /\ x - i \in 1..(j + k) /\ x - i <= j
      BY ONLY <1>1, <2>1, <2>3
    <3>2. l[x] = e[x - i] /\ e[x - i] = b[x - i]
      BY ONLY <1>7, <1>8, <3>1
    <3>3. r[x] = d[x] /\ d[x] = b[x - i]
      BY ONLY <1>7, <2>1, <2>3, <3>1
    <3> QED BY ONLY <3>2, <3>3
  <2>4. CASE x > i + j
    <3>1. /\ ~(x <= i) /\ ~(x <= i + j) /\ x - i \in 1..(j + k) /\ ~(x - i <= j)
          /\ (x - i) - j = x - (i + j)
      BY ONLY <1>1, <2>1, <2>4
    <3>2. l[x] = e[x - i] /\ e[x - i] = c[(x - i) - j]
      BY ONLY <1>7, <1>8, <3>1
    <3>3. r[x] = c[x - (i + j)]
      BY ONLY <1>7, <2>1, <3>1
    <3> QED BY ONLY <3>1, <3>2, <3>3
  <2>5. x <= i \/ (x > i /\ x <= i + j) \/ x > i + j
    BY ONLY <1>1, <2>1
  <2> QED BY ONLY <2>2, <2>3, <2>4, <2>5
<1>9. Len(l) = Len(r) /\ \A x \in 1..Len(l) : l[x] = r[x]
  BY ONLY <1>1, <1>6, <1>8
<1>10. l = r
  BY <1>5, <1>9, SeqEqual
<1> QED BY <1>10 DEF l, r, d, e, Assoc

(* The writes of a call, in order, however they are put together. *)
Fourfold(G, B, F, E) == G \o ((B \o F) \o E) = G \o B \o F \o E
LEMMA FourJoined ==
    ASSUME NEW W, NEW G \in Seq(W), NEW B \in Seq(W), NEW F \in Seq(W), NEW E \in Seq(W)
    PROVE  Fourfold(G, B, F, E)
<1> DEFINE D == B \o F
<1>1. D \in Seq(W)
  BY ConcatProperties
<1>2. Assoc(G, B, F)
  BY Associated
<1> HIDE DEF D
<1>3. Assoc(G, D, E)
  BY <1>1, Associated
<1> QED BY <1>2, <1>3, Zenon DEF Assoc, D, Fourfold

(* mkdir leaves writes that lead to a settled state. *)
LEMMA MkdirDone ==
    ASSUME Fat32Assumption, NEW ch, AtRest(ch), NEW name \in Names, mkdir(name)
    PROVE  Done(writes', handle', info', damaged')
<1> DEFINE p == Slot(Root, {})
           cs == Taken(Root, {})
           n == Search(Range(cs))
           e == Entry("dir", name, n, 0)
           G == Grow(Root, {})
           B == fat_set("mkdir", n, EOC)
           F == SetEntry("mkdir", n, Free)
           E == SetEntry("mkdir", p, e)
<1>1. /\ Room(Root, {}) /\ n # 0 /\ writes' = G \o B \o F \o E
      /\ CountAllocated(cs \o << n >>) /\ handle' = handle /\ damaged' = damaged
  BY DEF mkdir
<1>2. /\ Types /\ Current \in States /\ Current.fat = fat[0] /\ Current.ent = ent
      /\ ch \in Chains /\ Sound(Current, ch) /\ Agrees(Current, ch, handle)
      /\ handle \in [Handles -> {NULL} \cup OpenFiles] /\ damaged \in BOOLEAN
      /\ 0 \in Heads /\ Chain(Root) = ch[0] /\ 0 \notin Clusters /\ EOC # 0
      /\ \A x \in Clusters : x \in Heads
      /\ "mkdir" \in Ops /\ DirHead(Current, ch, 0)
  BY Resting, Constants, Reads DEF Ops, DirHead
<1> HIDE DEF p, cs, n, e, G, B, F, E
<1>3. PICK t \in States, v \in Chains :
           /\ G \in Seq(Writes) /\ Leads(Current, G, t)
           /\ Roomy(Current, ch, 0, p, cs, t, v)
  <2>1. \A x \in Clusters :
            IF x \in {} THEN Current.ent[x] = Deleted ELSE Current.ent[x] = ent[x]
    BY <1>2
  <2> QED BY <1>1, <1>2, <2>1, Roomed DEF G, p, cs
<1>4. /\ Sound(t, v) /\ p \in Clusters /\ In(v, 0, p)
      /\ t.ent[p].kind \in {"free", "deleted"}
      /\ Slotted(Current, ch, p) => ent[p].kind \in {"free", "deleted"}
      /\ \A x \in Clusters : Slotted(t, v, x) <=> Slotted(Current, ch, x) \/ x = p
      /\ \A x \in Clusters \ {p} : t.ent[x] = ent[x]
      /\ \A h \in Heads \ {0} : v[h] = ch[h]
      /\ \A x : In(v, 0, x) <=> In(ch, 0, x) \/ \E i \in 1..Len(cs) : cs[i] = x
      /\ cs \in Seq(Clusters) /\ \A i, j \in 1..Len(cs) : cs[i] = cs[j] => i = j
      /\ \A i \in 1..Len(cs) : fat[0][cs[i]] = 0
      /\ Range(cs) = {cs[i] : i \in 1..Len(cs)}
      /\ \A x \in Clusters : t.fat[x] = 0 <=>
             fat[0][x] = 0 /\ \A i \in 1..Len(cs) : cs[i] # x
  BY <1>2, <1>3 DEF Roomy
<1>5. /\ n \in Clusters /\ fat[0][n] = 0 /\ \A i \in 1..Len(cs) : cs[i] # n
      /\ t.fat[n] = 0
  <2>1. n \in Clusters \ Range(cs) /\ fat[0][n] = 0
    BY <1>1, <1>2, SearchFinds DEF n
  <2> QED BY <1>4, <2>1
<1>6. PICK q \in States :
           /\ ~Owned1(v, n) /\ B \in Seq(Writes) /\ F \in Seq(Writes)
           /\ Leads(t, B \o F, q)
           /\ Sound(q, v) /\ \A x \in Clusters : Slotted(q, v, x) <=> Slotted(t, v, x)
           /\ \A x \in Clusters : q.fat[x] = IF x = n THEN EOC ELSE t.fat[x]
           /\ \A x \in Clusters : q.ent[x] = IF x = n THEN Free ELSE t.ent[x]
  BY <1>2, <1>4, <1>5, Prepared DEF B, F
<1>7. p # n /\ p # 0 /\ q.ent[p] = t.ent[p] /\ ~Used(q.ent[p]) /\ ~Used(t.ent[p])
  BY <1>2, <1>4, <1>5, <1>6 DEF Owned1, Used
<1>8. e \in Records /\ e.kind = "dir" /\ e.first = n /\ e.size = 0
  BY <1>5 DEF e, Entry, Records, Kinds, Used, Heads, Fat32Assumption
<1> DEFINE z == WithEnt(q, p, e)
<1>9. E \in Seq(Writes) /\ z \in States /\ Leads(q, E, z)
  BY <1>2, <1>4, <1>6, <1>8, EntryLeads DEF E, Safe
<1>10. z.fat = q.fat /\ z.ent[p] = e /\ \A x \in Clusters \ {p} : z.ent[x] = q.ent[x]
  BY <1>4, <1>8 DEF WithEnt, States
<1> HIDE DEF z
<1>11. PICK w \in Chains :
           /\ Sound(z, w) /\ w[p] = << n >> /\ \A h \in Heads \ {p} : w[h] = v[h]
           /\ \A x \in Clusters : Slotted(z, w, x) <=> Slotted(q, v, x) \/ x = n
  <2>1. \A h \in Heads : \A j \in 1..Len(v[h]) :
            v[h][j] # n /\ z.fat[v[h][j]] = q.fat[v[h][j]]
    BY <1>6, <1>10 DEF Owned1, In
  <2>2. z.fat[n] = EOC /\ z.ent[n].kind = "free"
    BY <1>5, <1>6, <1>7, <1>10 DEF Free, NoEntry
  <2>3. \A x \in Clusters \ {p} : Slotted(q, v, x) => z.ent[x] = q.ent[x]
    BY <1>10
  <2>4. z.ent[p].kind = "dir" /\ z.ent[p].first = n /\ z.ent[p].size = 0
    BY <1>8, <1>10
  <2>5. MadeDir(q, z, v, p, n)
    BY <1>4, <1>7, <2>1, <2>2, <2>3, <2>4 DEF MadeDir
  <2>6. PICK w \in Chains : DirAdded(q, z, v, w, p, n)
    BY <1>4, <1>5, <1>6, <1>9, <2>5, DirMade
  <2> QED BY <2>6 DEF DirAdded
<1>12. writes' \in Seq(Writes) /\ Leads(Current, writes', z)
  <2>1. B \o F \in Seq(Writes)
    BY <1>6
  <2>2. (B \o F) \o E \in Seq(Writes) /\ Leads(t, (B \o F) \o E, z)
    BY <1>6, <1>9, <2>1, LeadsOn
  <2>3. G \o ((B \o F) \o E) \in Seq(Writes) /\ Leads(Current, G \o ((B \o F) \o E), z)
    BY <1>3, <2>2, LeadsOn
  <2>4. Fourfold(G, B, F, E)
    <3>1. G \in Seq(Writes) /\ B \in Seq(Writes) /\ F \in Seq(Writes) /\ E \in Seq(Writes)
      BY <1>3, <1>6, <1>9
    <3> QED BY ONLY <3>1, FourJoined
  <2>5. writes' = G \o ((B \o F) \o E)
    BY <1>1, <2>4, Zenon DEF Fourfold
  <2> QED BY <2>3, <2>5
<1>13. info' \in Infos /\ (~damaged => Counted(z, w, info'.count))
  <2> DEFINE m == cs \o << n >>
  <2>1. /\ m \in Seq(Clusters) /\ \A i, j \in 1..Len(m) : m[i] = m[j] => i = j
        /\ \A x : (\E i \in 1..Len(m) : m[i] = x) <=>
               x = n \/ \E i \in 1..Len(cs) : cs[i] = x
    BY <1>4, <1>5, OneMore
  <2>2. CountAllocated(m)
    BY <1>1
  <2> HIDE DEF m
  <2>3. ASSUME NEW i \in 1..Len(m) PROVE fat[0][m[i]] = 0
    <3>1. m[i] = n \/ \E j \in 1..Len(cs) : cs[j] = m[i]
      BY <2>1
    <3> QED BY <1>4, <1>5, <3>1
  <2>4. ASSUME NEW x \in Clusters
        PROVE  z.fat[x] = 0 <=> fat[0][x] = 0 /\ \A i \in 1..Len(m) : m[i] # x
    <3>1. (\E i \in 1..Len(m) : m[i] = x) <=> x = n \/ \E i \in 1..Len(cs) : cs[i] = x
      BY <2>1
    <3>2. z.fat[x] = 0 <=> t.fat[x] = 0 /\ x # n
      BY <1>2, <1>6, <1>10
    <3> QED BY <1>4, <3>1, <3>2
  <2>5. v[p] = <<>>
    BY <1>4, <1>7 DEF Sound, Headed, Listed
  <2>6. ASSUME NEW x \in Clusters, Owned1(v, x) PROVE Owned1(w, x)
    <3>1. PICK h \in Heads : In(v, h, x)
      BY <2>6 DEF Owned1
    <3>2. h # p
      BY <2>5, <3>1 DEF In
    <3> QED BY <1>11, <3>1, <3>2 DEF In, Owned1
  <2>7. ASSUME NEW x \in Clusters, Owned1(ch, x) PROVE Owned1(v, x)
    <3>1. PICK h \in Heads : In(ch, h, x)
      BY <2>7 DEF Owned1
    <3>2. CASE h = 0
      BY <1>2, <1>4, <3>1, <3>2 DEF Owned1
    <3>3. CASE h # 0
      BY <1>4, <3>1, <3>3 DEF In, Owned1
    <3> QED BY <3>2, <3>3
  <2>8. Owned1(w, n)
    <3>1. 1 \in 1..Len(w[p]) /\ w[p][1] = n
      BY <1>11
    <3> QED BY <1>2, <1>4, <3>1 DEF In, Owned1
  <2>9. ASSUME NEW x \in Clusters, Owned1(ch, x) \/ \E i \in 1..Len(m) : m[i] = x
        PROVE  Owned1(w, x)
    <3>1. CASE Owned1(ch, x)
      BY <2>6, <2>7, <3>1
    <3>2. CASE x = n
      BY <2>8, <3>2
    <3>3. CASE \E i \in 1..Len(cs) : cs[i] = x
      BY <1>2, <1>4, <2>6, <3>3 DEF Owned1
    <3> QED BY <2>1, <2>9, <3>1, <3>2, <3>3
  <2> QED BY <1>9, <2>1, <2>2, <2>3, <2>4, <2>9, Allocates
<1>14. Agrees(z, w, handle)
  <2> SUFFICES ASSUME NEW h \in Handles, handle[h] # NULL
               PROVE  LET x == handle[h].slot
                      IN  Listed(z, w, x) /\ z.ent[x] = Current.ent[x] /\ w[x] = ch[x]
    BY <1>2, AgreesKept
  <2> DEFINE x == handle[h].slot
  <2>1. x \in Clusters /\ Listed(Current, ch, x) /\ ent[x].kind = "file"
    BY <1>2 DEF Agrees
  <2> HIDE DEF x
  <2>2. x # p
    BY <1>2, <1>4, <2>1 DEF Listed
  <2>3. x # n
    <3>1. Owned1(ch, x)
      BY <2>1 DEF Listed, Slotted, Owned1
    <3>2. fat[0][x] # 0
      BY <1>2, <3>1, OwnedTaken DEF Owned1
    <3> QED BY <1>5, <3>2
  <2>4. z.ent[x] = ent[x]
    BY <1>4, <1>6, <1>10, <2>1, <2>2, <2>3
  <2>5. w[x] = ch[x]
    BY <1>2, <1>4, <1>11, <2>1, <2>2
  <2>6. Slotted(z, w, x)
    BY <1>4, <1>6, <1>11, <2>1 DEF Listed
  <2>7. Listed(z, w, x)
    BY <1>2, <2>1, <2>4, <2>6 DEF Listed
  <2> QED BY <1>2, <2>4, <2>5, <2>7 DEF x
<1> QED BY <1>1, <1>2, <1>9, <1>11, <1>12, <1>13, <1>14 DEF Done, Settled

-----------------------------------------------------------------------------
(* Between calls, and whenever power may fail. *)
LEMMA RestNow ==
    ASSUME IInv, writes = <<>>
    PROVE  \E ch \in Chains : AtRest(ch)
<1>1. PICK t \in States, ch \in Chains :
           Leads(Current, writes, t) /\ Settled(t, ch, handle, info.count, damaged)
  BY DEF IInv
<1>2. t = Current
  BY <1>1, CurrentTyped, LeadsNone DEF IInv
<1> QED BY <1>1, <1>2 DEF AtRest, IInv

(* Where power may fail, the device is sound. *)
LEMMA SafeNow ==
    ASSUME IInv, CanCrash
    PROVE  Types /\ \E ch \in Chains : Sound(Current, ch)
<1>1. CASE writes = <<>>
  BY <1>1, RestNow DEF AtRest, Settled
<1>2. CASE writes # <<>>
  <2>1. PICK t \in States : Leads(Current, writes, t)
    BY DEF IInv
  <2>2. writes \in Seq(Writes)
    BY DEF IInv, Types
  <2>3. Safe(Current)
    BY <1>2, <2>1, <2>2, LeadsStep DEF CanCrash
  <2> QED BY <2>3 DEF Safe, IInv
<1> QED BY <1>1, <1>2

(* A formatted device. *)
LEMMA Formatted ==
    ASSUME Fat32Assumption, Init
    PROVE  IInv
<1> DEFINE ch == [h \in Heads |-> IF h = 0 THEN << Root >> ELSE <<>>]
<1>1. /\ Root \in Clusters /\ 0 \in Heads /\ EOC # 0 /\ 0 \notin Clusters /\ 0 \in Links
      /\ EOC \in Links /\ \A c \in Clusters : c \in Heads /\ c # 0
  BY Constants DEF Links
<1>2. /\ ch \in Chains /\ ch[0] = << Root >> /\ Len(ch[0]) = 1 /\ ch[0][1] = Root
      /\ \A h \in Heads \ {0} : ch[h] = <<>>
  BY <1>1 DEF Chains
<1> HIDE DEF ch
<1>3. /\ fat \in [{0, 1} -> [Clusters -> Links]]
      /\ \A c \in Clusters : fat[0][c] = IF c = Root THEN EOC ELSE 0
  BY <1>1 DEF Init
<1>4. ent \in [Clusters -> Records] /\ \A c \in Clusters : ~Used(ent[c])
  <2>1. Free \in Records /\ Data \in Records /\ ~Used(Free) /\ ~Used(Data)
    BY <1>1 DEF Free, Data, NoEntry, Records, Kinds, Used, Fat32Assumption
  <2> QED BY <2>1 DEF Init
<1>5. Types
  <2>1. Top - Root \in 0..Unknown /\ Root + 1 \in Root..EOC
    BY DEF Fat32Assumption, EOC, Root
  <2>2. fsinfo \in Counts /\ info \in Infos
    BY <2>1 DEF Init, Counts, Infos
  <2>3. handle \in [Handles -> {NULL} \cup OpenFiles]
    BY DEF Init
  <2>4. writes \in Seq(Writes) /\ damaged \in BOOLEAN
    <3>1. <<>> \in Seq(Writes)
      OBVIOUS
    <3> QED BY <3>1 DEF Init
  <2> QED BY <1>3, <1>4, <2>2, <2>3, <2>4 DEF Types
<1>6. Current \in States /\ Current.fat = fat[0] /\ Current.ent = ent
  BY <1>5, CurrentTyped
<1>7. \A c \in Clusters : ~Listed(Current, ch, c)
  BY <1>4, <1>6 DEF Listed
<1>8. Sound(Current, ch)
  <2>1. Linked(Current, ch)
    BY <1>1, <1>2, <1>3, <1>6 DEF Linked
  <2>2. Apart(ch)
    BY <1>2 DEF Apart
  <2>3. Rooted(ch)
    BY <1>2 DEF Rooted
  <2>4. Headed(Current, ch) /\ Sized(Current, ch)
    BY <1>1, <1>2, <1>7 DEF Headed, Sized
  <2>5. FreeLast(Current, ch)
    <3> SUFFICES ASSUME NEW h \in Heads, NEW i \in 1..(Len(ch[h]) - 1)
                 PROVE  Current.ent[ch[h][i]].kind # "free"
      BY DEF FreeLast
    <3>1. CASE h = 0
      <4>1. Len(ch[h]) = 1
        BY <1>2, <3>1
      <4>2. i \in 1..(1 - 1)
        BY <4>1
      <4> QED BY <4>2
    <3>2. CASE h # 0
      <4>1. ch[h] = <<>> /\ Len(<<>>) = 0
        BY <1>2, <3>2
      <4>2. i \in 1..(0 - 1)
        BY <4>1
      <4> QED BY <4>2
    <3> QED BY <3>1, <3>2
  <2> QED BY <2>1, <2>2, <2>3, <2>4, <2>5 DEF Sound
<1>9. Agrees(Current, ch, handle)
  BY DEF Init, Agrees
<1>10. Counted(Current, ch, info.count)
  <2>1. {c \in Clusters : Current.fat[c] = 0} = (Root + 1)..Top
    BY <1>3, <1>6, <1>1 DEF Clusters, Root, Fat32Assumption
  <2>2. Cardinality((Root + 1)..Top) = Top - Root
    BY FS_Interval DEF Root, Fat32Assumption
  <2>3. \A c \in Clusters : Current.fat[c] # 0 => In(ch, 0, c)
    BY <1>2, <1>3, <1>6 DEF In
  <2>4. Top - Root = info.count
    BY <1>1 DEF Init
  <2>5. info.count = Cardinality({c \in Clusters : Current.fat[c] = 0})
    BY <2>1, <2>2, <2>4
  <2>6. 0 \in Heads
    BY Constants
  <2> QED BY <2>3, <2>5, <2>6 DEF Counted
<1>11. Leads(Current, writes, Current)
  BY <1>6, LeadsNone DEF Init
<1>12. Settled(Current, ch, handle, info.count, damaged)
  BY <1>8, <1>9, <1>10 DEF Settled
<1> QED BY <1>2, <1>5, <1>6, <1>11, <1>12 DEF IInv

(* A call begins between calls, and plans its writes. *)
LEMMA CallKeeps ==
    ASSUME Fat32Assumption, IInv, Call
    PROVE  IInv'
<1>1. writes = <<>> /\ UNCHANGED <<fat, ent, fsinfo>>
  <2> DEFINE Waits == writes = <<>> /\ UNCHANGED <<fat, ent, fsinfo>>
  <2>1. ASSUME NEW h, NEW d, NEW n, create(h, d, n) PROVE Waits
    BY <2>1 DEF create, Called
  <2>2. ASSUME NEW h, NEW c, open(h, c) PROVE Waits
    BY <2>2 DEF open, Called
  <2>3. ASSUME NEW h, NEW p, write(h, p) PROVE Waits
    BY <2>3 DEF write, Called
  <2>4. ASSUME NEW h, NEW p, shrink(h, p) PROVE Waits
    BY <2>4 DEF shrink, Called
  <2>5. ASSUME NEW h, grow(h) PROVE Waits
    BY <2>5 DEF grow, Called
  <2>6. ASSUME NEW h, sync_file(h) \/ close(h) PROVE Waits
    BY <2>6 DEF sync_file, close, Called
  <2>7. ASSUME NEW c, unlink(c) PROVE Waits
    BY <2>7 DEF unlink, Called
  <2>8. ASSUME NEW c, rmdir(c) PROVE Waits
    BY <2>8 DEF rmdir, Called
  <2>9. ASSUME NEW c, NEW d, NEW n, rename(c, d, n) PROVE Waits
    BY <2>9 DEF rename, Called
  <2>10. ASSUME NEW n, mkdir(n) PROVE Waits
    BY <2>10 DEF mkdir, Called
  <2>11. ASSUME sync PROVE Waits
    BY <2>11 DEF sync, Called
  <2> HIDE DEF Waits
  <2>12. Waits
    BY <2>1, <2>2, <2>3, <2>4, <2>5, <2>6, <2>7, <2>8, <2>9, <2>10, <2>11 DEF Call
  <2> QED BY <2>12 DEF Waits
<1>2. PICK ch \in Chains : AtRest(ch)
  BY <1>1, RestNow
<1>3. Done(writes', handle', info', damaged')
  <2>1. ASSUME NEW h \in Handles, NEW d \in Clusters, NEW n \in Names, create(h, d, n)
        PROVE  Done(writes', handle', info', damaged')
    BY <1>2, <2>1, CreateDone
  <2>2. ASSUME NEW h \in Handles, NEW c \in Clusters, open(h, c)
        PROVE  Done(writes', handle', info', damaged')
    BY <1>2, <2>2, OpenDone
  <2>3. ASSUME NEW h \in Handles, NEW p \in 0..MaxSize, write(h, p) \/ shrink(h, p)
        PROVE  Done(writes', handle', info', damaged')
    BY <1>2, <2>3, WriteDone, ShrinkDone
  <2>4. ASSUME NEW h \in Handles, grow(h) \/ sync_file(h) \/ close(h)
        PROVE  Done(writes', handle', info', damaged')
    BY <1>2, <2>4, GrowDone, SyncFileDone, CloseDone
  <2>5. ASSUME NEW c \in Clusters, unlink(c) \/ rmdir(c)
        PROVE  Done(writes', handle', info', damaged')
    BY <1>2, <2>5, UnlinkDone, RmdirDone
  <2>6. ASSUME NEW c \in Clusters, NEW d \in Clusters, NEW n \in Names, rename(c, d, n)
        PROVE  Done(writes', handle', info', damaged')
    BY <1>2, <2>6, RenameDone
  <2>7. ASSUME NEW n \in Names, mkdir(n)
        PROVE  Done(writes', handle', info', damaged')
    BY <1>2, <2>7, MkdirDone
  <2>8. ASSUME sync PROVE Done(writes', handle', info', damaged')
    BY <1>2, <2>8, SyncDone
  <2> QED BY <2>1, <2>2, <2>3, <2>4, <2>5, <2>6, <2>7, <2>8 DEF Call
<1>4. Current' = Current
  BY <1>1 DEF Current
<1>5. Types'
  BY <1>1, <1>3 DEF IInv, Types, Done
<1> QED BY <1>3, <1>4, <1>5 DEF IInv, Done

(* A write of a sector, the next one planned. *)
LEMMA StoreKeeps ==
    ASSUME Fat32Assumption, IInv, store_sector
    PROVE  IInv'
<1> DEFINE w == Head(writes)
<1>1. /\ Types /\ w \in Writes /\ writes # <<>> /\ writes' = Tail(writes)
      /\ writes' \in Seq(Writes)
      /\ info' = info /\ handle' = handle /\ damaged' = damaged
  BY DEF IInv, Types, store_sector
<1>2. PICK t \in States, ch \in Chains :
           Leads(Current, writes, t) /\ Settled(t, ch, handle, info.count, damaged)
  BY DEF IInv
<1>3. Leads(Stored(Current, w), writes', t)
  BY <1>1, <1>2, LeadsStep DEF Types
<1>4. CASE w.to = "fat"
  <2>1. fat' = [fat EXCEPT ![w.copy][w.at] = w.val] /\ ent' = ent /\ fsinfo' = fsinfo
    BY <1>4 DEF store_sector
  <2>2. w.copy \in {0, 1} /\ w.at \in Clusters /\ w.val \in Links
    BY <1>1, <1>4 DEF Writes, FatWrites, EntWrites, InfoWrites
  <2> HIDE DEF w
  <2>3. fat' \in [{0, 1} -> [Clusters -> Links]]
    BY <1>1, <2>1, <2>2 DEF Types
  <2>4. fat'[0] = IF w.copy = 0 THEN [fat[0] EXCEPT ![w.at] = w.val] ELSE fat[0]
    BY <1>1, <2>1, <2>2 DEF Types
  <2>5. Current' = Stored(Current, w)
    BY <1>4, <2>1, <2>4 DEF Current, Stored
  <2> QED BY <1>1, <1>2, <1>3, <2>1, <2>3, <2>5 DEF IInv, Types
<1>5. CASE w.to = "ent"
  <2>1. ent' = [ent EXCEPT ![w.at] = w.val] /\ fat' = fat /\ fsinfo' = fsinfo
    BY <1>5 DEF store_sector
  <2>2. w.at \in Clusters /\ w.val \in Records
    BY <1>1, <1>5 DEF Writes, FatWrites, EntWrites, InfoWrites
  <2> HIDE DEF w
  <2>3. ent' \in [Clusters -> Records]
    BY <1>1, <2>1, <2>2 DEF Types
  <2>4. Current' = Stored(Current, w)
    BY <1>5, <2>1 DEF Current, Stored
  <2> QED BY <1>1, <1>2, <1>3, <2>1, <2>3, <2>4 DEF IInv, Types
<1>6. CASE w.to = "info"
  <2>1. fsinfo' = w.val /\ fat' = fat /\ ent' = ent
    BY <1>6 DEF store_sector
  <2>2. w.val \in Counts
    BY <1>1, <1>6 DEF Writes, FatWrites, EntWrites, InfoWrites
  <2> HIDE DEF w
  <2>3. Current' = Stored(Current, w)
    BY <1>6, <2>1 DEF Current, Stored
  <2> QED BY <1>1, <1>2, <1>3, <2>1, <2>2, <2>3 DEF IInv, Types
<1> QED BY <1>1, <1>4, <1>5, <1>6 DEF Writes, FatWrites, EntWrites, InfoWrites

(* Power fails, or the device is mounted again: the writes left are lost. *)
LEMMA MountKeeps ==
    ASSUME Fat32Assumption, IInv, mount
    PROVE  IInv'
<1>1. PICK ch \in Chains : Sound(Current, ch)
  BY SafeNow DEF mount
<1>2. Types /\ Current' = Current /\ Current \in States
  BY CurrentTyped DEF IInv, mount, Current
<1>3. Root \in Root..EOC /\ Clusters \in SUBSET (Root..EOC)
  BY DEF Fat32Assumption, EOC, Root, Clusters
<1>4. Types'
  <2>1. handle' \in [Handles -> {NULL} \cup OpenFiles] /\ writes' \in Seq(Writes)
        /\ damaged' \in BOOLEAN /\ UNCHANGED <<fat, ent, fsinfo>>
    BY DEF mount
  <2>2. info' \in Infos
    BY <1>2, <1>3 DEF mount, Types, Counts, Infos
  <2> QED BY <1>2, <2>1, <2>2 DEF Types
<1>5. Agrees(Current, ch, handle')
  BY DEF mount, Agrees
<1>6. Leads(Current, writes', Current)
  BY <1>2, LeadsNone DEF mount
<1>7. Settled(Current, ch, handle', info'.count, damaged')
  BY <1>1, <1>5 DEF Settled, mount
<1> QED BY <1>2, <1>4, <1>6, <1>7 DEF IInv

(* The invariant holds, whatever power failures there are. *)
THEOREM Invariance == Fat32Assumption => (Spec => []IInv)
<1> SUFFICES ASSUME Fat32Assumption PROVE Spec => []IInv
  OBVIOUS
<1>1. Init => IInv
  BY Formatted
<1>2. IInv /\ [Next]_vars => IInv'
  <2> SUFFICES ASSUME IInv, [Next]_vars PROVE IInv'
    OBVIOUS
  <2>1. CASE Call
    BY <2>1, CallKeeps
  <2>2. CASE store_sector
    BY <2>2, StoreKeeps
  <2>3. CASE mount
    BY <2>3, MountKeeps
  <2>4. CASE UNCHANGED vars
    BY <2>4 DEF vars, IInv, Types, Current
  <2> QED BY <2>1, <2>2, <2>3, <2>4 DEF Next
<1> QED BY <1>1, <1>2, PTL DEF Spec

(* What the fields hold. *)
THEOREM Typed == Fat32Assumption => (Spec => []TypeOK)
<1> SUFFICES ASSUME Fat32Assumption PROVE Spec => []TypeOK
  OBVIOUS
<1>1. IInv => TypeOK
  <2> SUFFICES ASSUME Types PROVE TypeOK
    BY DEF IInv
  <2>1. \A c \in Clusters :
            /\ ent[c].kind \in Kinds /\ (Used(ent[c]) => ent[c].name \in Names)
                            /\ ent[c].first \in Heads /\ ent[c].size \in 0..MaxSize
    BY DEF Types, Records
  <2>2. \A h \in Handles : handle[h] # NULL => handle[h] \in OpenFiles
    BY DEF Types
  <2> QED BY <2>1, <2>2 DEF TypeOK, Types, Kinds, Heads, Counts, Infos, OpenFiles
<1> QED BY <1>1, Invariance, PTL

(* No cluster is another file's or free, whenever power may fail (fat_set,  *)
(* update_dirent and the order in which their callers write).               *)
THEOREM NoCrossLinks == Fat32Assumption => (Spec => []NoCrossLink)
<1> SUFFICES ASSUME Fat32Assumption PROVE Spec => []NoCrossLink
  OBVIOUS
<1>1. IInv => NoCrossLink
  <2> SUFFICES ASSUME IInv, CanCrash, NEW c \in Live
               PROVE  /\ \A x \in Owned(c) : ~Empty(x)
                      /\ Root \notin Owned(c)
                      /\ \A d \in Live : d # c => Owned(c) \cap Owned(d) = {}
    BY DEF NoCrossLink
  <2>1. PICK ch \in Chains : Sound(Current, ch)
    BY SafeNow
  <2>2. /\ Types /\ Current \in States /\ Current.fat = fat[0] /\ 0 \in Heads
        /\ 0 \notin Clusters
        /\ \A d \in Clusters : d \in Heads
    BY SafeNow, CurrentTyped, Constants
  <2>3. \A d \in Live : /\ d \in Clusters
                        /\ \A x : x \in Owned(d) <=> In(ch, d, x)
    <3>1. \A d \in Live :
              d \in Clusters /\ Listed(Current, ch, d) /\ Chain(ent[d].first) = ch[d]
      BY <2>1, <2>2, Reads DEF Types
    <3>2. \A d \in Live : Owned(d) = {ch[d][i] : i \in 1..Len(ch[d])}
      BY <2>2, <3>1 DEF Owned, Range, Chains
    <3> QED BY <3>1, <3>2 DEF In
  <2>4. \A x \in Owned(c) : ~Empty(x)
    BY <2>1, <2>2, <2>3, OwnedTaken DEF Empty, fat_get
  <2>5. \A g, h \in Heads : \A x : In(ch, g, x) /\ In(ch, h, x) => g = h
    BY <2>1 DEF In, Sound, Apart
  <2>6. In(ch, 0, Root)
    BY <2>1, <2>2 DEF In, Sound, Rooted, Chains
  <2> QED BY <2>2, <2>3, <2>4, <2>5, <2>6
<1> QED BY <1>1, Invariance, PTL

(* The size is within the clusters that can be reached (write,              *)
(* update_dirent).                                                          *)
THEOREM SizesCovered == Fat32Assumption => (Spec => []SizeCovered)
<1> SUFFICES ASSUME Fat32Assumption PROVE Spec => []SizeCovered
  OBVIOUS
<1>1. IInv => SizeCovered
  <2> SUFFICES ASSUME IInv, CanCrash, NEW c \in Live
               PROVE  ent[c].size <= Cardinality(Owned(c))
    BY DEF SizeCovered
  <2>1. PICK ch \in Chains : Sound(Current, ch)
    BY SafeNow
  <2>2. /\ Types /\ Current \in States /\ Current.ent = ent
        /\ \A d \in Clusters : d \in Heads
    BY SafeNow, CurrentTyped, Constants
  <2>3. /\ c \in Clusters /\ Listed(Current, ch, c) /\ Chain(ent[c].first) = ch[c]
        /\ ch[c] \in Seq(Clusters)
    BY <2>1, <2>2, Reads DEF Types, Chains
  <2>4. Owned(c) = {ch[c][i] : i \in 1..Len(ch[c])}
    BY <2>3 DEF Owned, Range
  <2>5. \A i, j \in 1..Len(ch[c]) : ch[c][i] = ch[c][j] => i = j
    BY <2>1, <2>2, <2>3 DEF Sound, Apart
  <2>6. Cardinality(Owned(c)) = Len(ch[c])
    BY <2>3, <2>4, <2>5, ChainShort
  <2> QED BY <2>1, <2>2, <2>3, <2>6 DEF Sound, Sized
<1> QED BY <1>1, Invariance, PTL

(* Until power fails, and but for the calls that let go of clusters, none   *)
(* is lost and the count is right (fat_allocate, fat_free_chain and all     *)
(* their callers).                                                          *)
THEOREM NothingIsLost == Fat32Assumption => (Spec => []NothingLost)
<1> SUFFICES ASSUME Fat32Assumption PROVE Spec => []NothingLost
  OBVIOUS
<1>1. IInv => NothingLost
  <2> SUFFICES ASSUME IInv, writes = <<>>, ~damaged
               PROVE  /\ info.count = Cardinality(Clusters \ Allocated)
                      /\ Allocated = Reachable
    BY DEF NothingLost, Called
  <2>1. PICK ch \in Chains : AtRest(ch)
    BY RestNow
  <2>2. /\ Types /\ Current \in States /\ Current.fat = fat[0] /\ Current.ent = ent
        /\ Sound(Current, ch) /\ Counted(Current, ch, info.count)
        /\ 0 \in Heads /\ 0 \notin Clusters /\ \A d \in Clusters : d \in Heads
        /\ \A h \in Heads : ch[h] \in Seq(Clusters)
        /\ fat \in [{0, 1} -> [Clusters -> Links]] /\ ent \in [Clusters -> Records]
        /\ \A h \in Heads : h = 0 \/ h \in Clusters
    BY <2>1, Resting, Constants DEF Heads
  <2>3. Clusters \ Allocated = {c \in Clusters : Current.fat[c] = 0}
    BY <2>2 DEF Allocated, Empty, fat_get
  <2>4. info.count = Cardinality(Clusters \ Allocated)
    BY <2>2, <2>3 DEF Counted
  <2>5. \A x : x \in Range(Chain(Root)) <=> In(ch, 0, x)
    BY <2>2, Reads DEF Range, In
  <2>6. Live = {c \in Clusters : Listed(Current, ch, c)}
    BY <2>2, Reads
  <2>7. \A c \in Live : \A x : x \in Owned(c) <=> In(ch, c, x)
    BY <2>2, <2>6, Reads DEF Owned, Range, In
  <2>8. ASSUME NEW x \in Allocated PROVE x \in Reachable
    <3>1. x \in Clusters /\ fat[0][x] # 0
      BY DEF Allocated, Empty, fat_get
    <3>2. PICK h \in Heads : In(ch, h, x)
      BY <2>2, <3>1 DEF Counted
    <3>3. CASE h = 0
      BY <2>5, <3>2, <3>3 DEF Reachable
    <3>4. CASE h # 0
      <4>1. ch[h] # <<>>
        BY <3>2 DEF In
      <4>2. h \in Live
        BY <2>2, <2>6, <3>4, <4>1 DEF Sound, Headed
      <4> QED BY <2>7, <3>2, <4>2 DEF Reachable
    <3> QED BY <3>3, <3>4
  <2>9. ASSUME NEW x \in Reachable PROVE x \in Allocated
    <3>1. \E h \in Heads : In(ch, h, x)
      BY <2>2, <2>5, <2>6, <2>7 DEF Reachable
    <3> QED BY <2>2, <3>1, OwnedTaken DEF Allocated, Empty, fat_get
  <2> QED BY <2>4, <2>8, <2>9
<1> QED BY <1>1, Invariance, PTL

-----------------------------------------------------------------------------
(* fsck.  Its walks visit clusters that they have not met before, because   *)
(* no two chains share one, so that a scan that has begun well only ever    *)
(* marks: m is what is marked, and e whether the directory has ended.       *)
Scan(m, e) ==
    [marked |-> m, cross_links |-> 0, mismatches |-> 0, invalid |-> 0, ended |-> e]

LEMMA ScanEnded ==
    ASSUME NEW m, NEW e, NEW f
    PROVE  [Scan(m, e) EXCEPT !.ended = f] = Scan(m, f)
BY Z3 DEF Scan

(* The steps of the walks, which fsck_scan_directory has as definitions of  *)
(* its own: of a directory in the root and of the root.                     *)
StepInside(q, c) == IF Visit(q, c).ended THEN Visit(q, c) ELSE ScanEntry(Visit(q, c), c)
WalkInside(q, d) ==
    [FoldLeft(StepInside, [q EXCEPT !.ended = FALSE], Chain(d)) EXCEPT !.ended = FALSE]
ScanAnyEntry(q, c) ==
    IF ent[c].kind = "dir" THEN WalkInside(q, ent[c].first) ELSE ScanEntry(q, c)
StepRoot(q, c) == IF Visit(q, c).ended THEN Visit(q, c) ELSE ScanAnyEntry(Visit(q, c), c)

LEMMA WalksAre ==
    fsck_scan_directory(Scanning, Root)
        = [FoldLeft(StepRoot, [Scanning EXCEPT !.ended = FALSE], Chain(Root))
              EXCEPT !.ended = FALSE]
BY DEF fsck_scan_directory, StepRoot, ScanAnyEntry, WalkInside, StepInside

(* The last index of a set of them is what FoldLeft takes first.            *)
LEMMA MaxChosen ==
    ASSUME NEW n \in Nat, NEW s \in SUBSET (1..n), s # {}
    PROVE  Max(s) \in s /\ \A y \in s : y <= Max(s)
<1> DEFINE S == {n - y : y \in s}
<1>1. S \in SUBSET Nat /\ S # {}
  <2>1. \A y \in s : y \in 1..n /\ n - y \in Nat
    OBVIOUS
  <2> QED BY <2>1
<1>2. PICK k \in S : \A j \in S : k <= j
  BY <1>1, LeastNatural
<1>3. PICK x \in s : k = n - x
  BY <1>2
<1>4. \A y \in s : n - x <= n - y
  BY <1>2, <1>3
<1>5. \A y \in s : x >= y
  BY <1>4
<1>6. \E z \in s : \A y \in s : z >= y
  BY <1>5
<1>7. Max(s) \in s /\ \A y \in s : Max(s) >= y
  BY <1>6 DEF Max
<1> QED BY <1>7

(* A fold over indices is told by its equation.                             *)
Alike(n, g, h) ==
    /\ g[{}] = h[{}]
    /\ \A s \in SUBSET (1..n) :
           s # {} /\ g[s \ {Max(s)}] = h[s \ {Max(s)}] => g[s] = h[s]

LEMMA FoldsAgree ==
    ASSUME NEW n \in Nat, NEW g, NEW h, Alike(n, g, h)
    PROVE  \A s \in SUBSET (1..n) : g[s] = h[s]
<1> DEFINE Bad == {k \in Nat : \E s \in SUBSET (1..n) : Cardinality(s) = k /\ g[s] # h[s]}
<1>1. ASSUME NEW s \in SUBSET (1..n) PROVE IsFiniteSet(s) /\ Cardinality(s) \in Nat
  <2>1. IsFiniteSet(1..n)
    BY FS_Interval
  <2> QED BY <2>1, FS_Subset, FS_CardinalityType
<1>2. Bad = {}
  <2> SUFFICES ASSUME Bad # {} PROVE FALSE
    OBVIOUS
  <2>1. PICK k \in Bad : \A j \in Bad : k <= j
    BY LeastNatural
  <2>2. PICK s \in SUBSET (1..n) : Cardinality(s) = k /\ g[s] # h[s]
    BY <2>1
  <2>3. s # {}
    BY <2>2 DEF Alike
  <2>4. Max(s) \in s
    BY <2>3, MaxChosen
  <2>5. s \ {Max(s)} \in SUBSET (1..n) /\ Cardinality(s \ {Max(s)}) = k - 1
    BY <1>1, <2>2, <2>4, FS_RemoveElement
  <2>6. k \in Nat /\ k - 1 \in Nat
    BY <1>1, <2>2, <2>5
  <2>7. k - 1 \notin Bad
    <3> HIDE DEF Bad
    <3> QED BY <2>1, <2>6
  <2>8. g[s \ {Max(s)}] = h[s \ {Max(s)}]
    BY <2>5, <2>6, <2>7
  <2> QED BY <2>2, <2>3, <2>8 DEF Alike
<1> QED BY <1>1, <1>2

(* What has been marked after the indices of s, if each marks U[i].         *)
After(m, U, s) == m \cup UNION {U[i] : i \in s}

(* The three walks mark what their steps mark.                              *)
LEMMA VisitsMark ==
    ASSUME NEW cs \in Seq(Clusters), NEW m, NEW U,
           \A s \in SUBSET (1..Len(cs)), i \in 1..Len(cs) : i \notin s =>
               Visit(Scan(After(m, U, s), FALSE), cs[i])
                   = Scan(After(m, U, s) \cup U[i], FALSE)
    PROVE  FoldLeft(Visit, Scan(m, FALSE), cs) = Scan(After(m, U, 1..Len(cs)), FALSE)
<1> DEFINE D == DOMAIN cs
           g == [s \in SUBSET D |-> Scan(After(m, U, s), FALSE)]
           Is(h) == h = [s \in SUBSET D |-> IF s = {} THEN Scan(m, FALSE)
                                            ELSE Visit(h[s \ {Max(s)}], cs[Max(s)])]
<1>1. FoldLeft(Visit, Scan(m, FALSE), cs) = (CHOOSE h : Is(h))[D]
  BY DEF FoldLeft, MapThenFoldSet
<1>2. D = 1..Len(cs) /\ Len(cs) \in Nat
  OBVIOUS
<1>3. g[{}] = Scan(m, FALSE)
  BY DEF After
<1> HIDE DEF D
<1>4. ASSUME NEW s \in SUBSET D, s # {}
      PROVE  /\ Max(s) \in s /\ s \ {Max(s)} \in SUBSET D
             /\ Visit(Scan(After(m, U, s \ {Max(s)}), FALSE), cs[Max(s)])
                    = Scan(After(m, U, s), FALSE)
  <2>1. Max(s) \in s
    BY <1>2, <1>4, MaxChosen
  <2>2. After(m, U, s \ {Max(s)}) \cup U[Max(s)] = After(m, U, s)
    BY <2>1 DEF After
  <2> QED BY <1>2, <2>1, <2>2
<1>5. Is(g)
  <2>1. ASSUME NEW s \in SUBSET D
        PROVE  g[s] = IF s = {} THEN Scan(m, FALSE)
                      ELSE Visit(g[s \ {Max(s)}], cs[Max(s)])
    BY <1>3, <1>4
  <2>2. g = [s \in SUBSET D |-> g[s]]
    OBVIOUS
  <2> HIDE DEF g
  <2> QED BY <2>1, <2>2, Zenon
<1>6. ASSUME NEW h, Is(h) PROVE h = g
  <2> DEFINE n == Len(cs)
  <2>1. h = [s \in SUBSET D |-> h[s]] /\ g = [s \in SUBSET D |-> g[s]]
    BY <1>6
  <2>2. h[{}] = g[{}]
    BY <1>3, <1>6
  <2>3. ASSUME NEW s \in SUBSET D, s # {}, h[s \ {Max(s)}] = g[s \ {Max(s)}]
        PROVE  h[s] = g[s]
    BY <1>4, <1>6, <2>3
  <2>4. D = 1..n /\ n \in Nat
    BY <1>2
  <2> HIDE DEF g, Is, n
  <2>5. \A s \in SUBSET (1..n) :
            s # {} /\ h[s \ {Max(s)}] = g[s \ {Max(s)}] => h[s] = g[s]
    BY <2>3, <2>4
  <2>6. \A s \in SUBSET (1..n) : h[s] = g[s]
    <3>1. Alike(n, h, g)
      BY <2>2, <2>5 DEF Alike
    <3> QED BY <2>4, <3>1, FoldsAgree
  <2> QED BY <2>1, <2>4, <2>6, Zenon
<1> HIDE DEF Is
<1>7. (CHOOSE h : Is(h)) = g
  BY <1>5, <1>6, Zenon
<1> QED BY <1>1, <1>2, <1>7

(* So does a walk through a directory, if only its last entry ends it.      *)
LEMMA InsideMarks ==
    ASSUME NEW cs \in Seq(Clusters), NEW m, NEW U, NEW E,
           \A i \in 1..Len(cs) : E[i] \in BOOLEAN,
           \A i \in 1..(Len(cs) - 1) : ~E[i],
           \A s \in SUBSET (1..Len(cs)), i \in 1..Len(cs) : i \notin s =>
               StepInside(Scan(After(m, U, s), FALSE), cs[i])
                   = Scan(After(m, U, s) \cup U[i], E[i])
    PROVE  [FoldLeft(StepInside, Scan(m, FALSE), cs) EXCEPT !.ended = FALSE]
               = Scan(After(m, U, 1..Len(cs)), FALSE)
<1> DEFINE D == DOMAIN cs
           n == Len(cs)
           Ended(s) == IF s = {} THEN FALSE ELSE E[Max(s)]
           g == [s \in SUBSET D |-> Scan(After(m, U, s), Ended(s))]
           Is(h) == h = [s \in SUBSET D |-> IF s = {} THEN Scan(m, FALSE)
                                            ELSE StepInside(h[s \ {Max(s)}], cs[Max(s)])]
<1>1. FoldLeft(StepInside, Scan(m, FALSE), cs) = (CHOOSE h : Is(h))[D]
  BY DEF FoldLeft, MapThenFoldSet
<1>2. D = 1..n /\ n \in Nat
  OBVIOUS
<1>3. g[{}] = Scan(m, FALSE)
  BY DEF After
<1> HIDE DEF D
<1>4. ASSUME NEW s \in SUBSET D, s # {}
      PROVE  /\ Max(s) \in s /\ s \ {Max(s)} \in SUBSET D
             /\ StepInside(g[s \ {Max(s)}], cs[Max(s)]) = g[s]
  <2> DEFINE t == s \ {Max(s)}
  <2>1. Max(s) \in s /\ \A y \in s : y <= Max(s)
    BY <1>2, <1>4, MaxChosen
  <2>2. After(m, U, t) \cup U[Max(s)] = After(m, U, s)
    BY <2>1 DEF After
  <2>3. t \in SUBSET D /\ Max(s) \notin t /\ Max(s) \in 1..n
    BY <1>2, <2>1
  <2> HIDE DEF t
  <2>4. ~Ended(t)
    <3>1. CASE t = {}
      BY <3>1
    <3>2. CASE t # {}
      <4>1. Max(t) \in t
        BY <1>2, <2>3, <3>2, MaxChosen
      <4>2. Max(t) \in 1..n /\ Max(t) # Max(s) /\ Max(t) <= Max(s)
        BY <1>2, <2>1, <2>3, <4>1 DEF t
      <4>3. Max(t) \in 1..(n - 1)
        BY <1>2, <2>3, <4>2
      <4> QED BY <3>2, <4>3
    <3> QED BY <3>1, <3>2
  <2>5. g[t] = Scan(After(m, U, t), FALSE)
    <3>1. Ended(t) = FALSE
      <4>1. Ended(t) \in BOOLEAN
        BY <1>2, <2>3, MaxChosen
      <4> QED BY <2>4, <4>1
    <3> QED BY <2>3, <3>1
  <2>6. g[s] = Scan(After(m, U, s), E[Max(s)])
    BY <1>4
  <2>7. StepInside(Scan(After(m, U, t), FALSE), cs[Max(s)])
            = Scan(After(m, U, t) \cup U[Max(s)], E[Max(s)])
    BY <1>2, <2>3
  <2>8. StepInside(g[t], cs[Max(s)]) = g[s]
    BY <2>2, <2>5, <2>6, <2>7
  <2> QED BY <2>1, <2>3, <2>8 DEF t
<1> HIDE DEF Ended
<1>5. Is(g)
  <2>1. ASSUME NEW s \in SUBSET D
        PROVE  g[s] = IF s = {} THEN Scan(m, FALSE)
                      ELSE StepInside(g[s \ {Max(s)}], cs[Max(s)])
    BY <1>3, <1>4
  <2>2. g = [s \in SUBSET D |-> g[s]]
    OBVIOUS
  <2> HIDE DEF g
  <2> QED BY <2>1, <2>2, Zenon
<1>6. ASSUME NEW h, Is(h) PROVE h = g
  <2>1. h = [s \in SUBSET D |-> h[s]] /\ g = [s \in SUBSET D |-> g[s]]
    BY <1>6
  <2> HIDE DEF g
  <2>2. h[{}] = g[{}]
    BY <1>3, <1>6
  <2>3. ASSUME NEW s \in SUBSET D, s # {}, h[s \ {Max(s)}] = g[s \ {Max(s)}]
        PROVE  h[s] = g[s]
    <3>1. h[s] = StepInside(h[s \ {Max(s)}], cs[Max(s)])
      BY <1>6, <2>3
    <3> HIDE DEF Is
    <3> QED BY <1>4, <2>3, <3>1
  <2> HIDE DEF Is, n
  <2>4. \A s \in SUBSET (1..n) :
            s # {} /\ h[s \ {Max(s)}] = g[s \ {Max(s)}] => h[s] = g[s]
    BY <1>2, <2>3
  <2>5. \A s \in SUBSET (1..n) : h[s] = g[s]
    <3>1. Alike(n, h, g)
      BY <2>2, <2>4 DEF Alike
    <3> QED BY <1>2, <3>1, FoldsAgree
  <2> QED BY <1>2, <2>1, <2>5, Zenon
<1> HIDE DEF Is
<1>7. (CHOOSE h : Is(h)) = g
  BY <1>5, <1>6, Zenon
<1>8. FoldLeft(StepInside, Scan(m, FALSE), cs) = Scan(After(m, U, 1..Len(cs)), Ended(D))
  BY <1>1, <1>2, <1>7
<1> DEFINE A == After(m, U, 1..Len(cs))
<1> HIDE DEF g, D, A
<1>9. [Scan(A, Ended(D)) EXCEPT !.ended = FALSE] = Scan(A, FALSE)
  BY ScanEnded
<1> QED BY <1>8, <1>9, Zenon DEF A

(* And the walk through the root.                                           *)
LEMMA RootMarks ==
    ASSUME NEW cs \in Seq(Clusters), NEW m, NEW U, NEW E,
           \A i \in 1..Len(cs) : E[i] \in BOOLEAN,
           \A i \in 1..(Len(cs) - 1) : ~E[i],
           \A s \in SUBSET (1..Len(cs)), i \in 1..Len(cs) : i \notin s =>
               StepRoot(Scan(After(m, U, s), FALSE), cs[i])
                   = Scan(After(m, U, s) \cup U[i], E[i])
    PROVE  [FoldLeft(StepRoot, Scan(m, FALSE), cs) EXCEPT !.ended = FALSE]
               = Scan(After(m, U, 1..Len(cs)), FALSE)
<1> DEFINE D == DOMAIN cs
           n == Len(cs)
           Ended(s) == IF s = {} THEN FALSE ELSE E[Max(s)]
           g == [s \in SUBSET D |-> Scan(After(m, U, s), Ended(s))]
           Is(h) == h = [s \in SUBSET D |-> IF s = {} THEN Scan(m, FALSE)
                                            ELSE StepRoot(h[s \ {Max(s)}], cs[Max(s)])]
<1>1. FoldLeft(StepRoot, Scan(m, FALSE), cs) = (CHOOSE h : Is(h))[D]
  BY DEF FoldLeft, MapThenFoldSet
<1>2. D = 1..n /\ n \in Nat
  OBVIOUS
<1>3. g[{}] = Scan(m, FALSE)
  BY DEF After
<1> HIDE DEF D
<1>4. ASSUME NEW s \in SUBSET D, s # {}
      PROVE  /\ Max(s) \in s /\ s \ {Max(s)} \in SUBSET D
             /\ StepRoot(g[s \ {Max(s)}], cs[Max(s)]) = g[s]
  <2> DEFINE t == s \ {Max(s)}
  <2>1. Max(s) \in s /\ \A y \in s : y <= Max(s)
    BY <1>2, <1>4, MaxChosen
  <2>2. After(m, U, t) \cup U[Max(s)] = After(m, U, s)
    BY <2>1 DEF After
  <2>3. t \in SUBSET D /\ Max(s) \notin t /\ Max(s) \in 1..n
    BY <1>2, <2>1
  <2> HIDE DEF t
  <2>4. ~Ended(t)
    <3>1. CASE t = {}
      BY <3>1
    <3>2. CASE t # {}
      <4>1. Max(t) \in t
        BY <1>2, <2>3, <3>2, MaxChosen
      <4>2. Max(t) \in 1..n /\ Max(t) # Max(s) /\ Max(t) <= Max(s)
        BY <1>2, <2>1, <2>3, <4>1 DEF t
      <4>3. Max(t) \in 1..(n - 1)
        BY <1>2, <2>3, <4>2
      <4> QED BY <3>2, <4>3
    <3> QED BY <3>1, <3>2
  <2>5. g[t] = Scan(After(m, U, t), FALSE)
    <3>1. Ended(t) = FALSE
      <4>1. Ended(t) \in BOOLEAN
        BY <1>2, <2>3, MaxChosen
      <4> QED BY <2>4, <4>1
    <3> QED BY <2>3, <3>1
  <2>6. g[s] = Scan(After(m, U, s), E[Max(s)])
    BY <1>4
  <2>7. StepRoot(Scan(After(m, U, t), FALSE), cs[Max(s)])
            = Scan(After(m, U, t) \cup U[Max(s)], E[Max(s)])
    BY <1>2, <2>3
  <2>8. StepRoot(g[t], cs[Max(s)]) = g[s]
    BY <2>2, <2>5, <2>6, <2>7
  <2> QED BY <2>1, <2>3, <2>8 DEF t
<1> HIDE DEF Ended
<1>5. Is(g)
  <2>1. ASSUME NEW s \in SUBSET D
        PROVE  g[s] = IF s = {} THEN Scan(m, FALSE)
                      ELSE StepRoot(g[s \ {Max(s)}], cs[Max(s)])
    BY <1>3, <1>4
  <2>2. g = [s \in SUBSET D |-> g[s]]
    OBVIOUS
  <2> HIDE DEF g
  <2> QED BY <2>1, <2>2, Zenon
<1>6. ASSUME NEW h, Is(h) PROVE h = g
  <2>1. h = [s \in SUBSET D |-> h[s]] /\ g = [s \in SUBSET D |-> g[s]]
    BY <1>6
  <2> HIDE DEF g
  <2>2. h[{}] = g[{}]
    BY <1>3, <1>6
  <2>3. ASSUME NEW s \in SUBSET D, s # {}, h[s \ {Max(s)}] = g[s \ {Max(s)}]
        PROVE  h[s] = g[s]
    <3>1. h[s] = StepRoot(h[s \ {Max(s)}], cs[Max(s)])
      BY <1>6, <2>3
    <3> HIDE DEF Is
    <3> QED BY <1>4, <2>3, <3>1
  <2> HIDE DEF Is, n
  <2>4. \A s \in SUBSET (1..n) :
            s # {} /\ h[s \ {Max(s)}] = g[s \ {Max(s)}] => h[s] = g[s]
    BY <1>2, <2>3
  <2>5. \A s \in SUBSET (1..n) : h[s] = g[s]
    <3>1. Alike(n, h, g)
      BY <2>2, <2>4 DEF Alike
    <3> QED BY <1>2, <3>1, FoldsAgree
  <2> QED BY <1>2, <2>1, <2>5, Zenon
<1> HIDE DEF Is
<1>7. (CHOOSE h : Is(h)) = g
  BY <1>5, <1>6, Zenon
<1>8. FoldLeft(StepRoot, Scan(m, FALSE), cs) = Scan(After(m, U, 1..Len(cs)), Ended(D))
  BY <1>1, <1>2, <1>7
<1> DEFINE A == After(m, U, 1..Len(cs))
<1> HIDE DEF g, D, A
<1>9. [Scan(A, Ended(D)) EXCEPT !.ended = FALSE] = Scan(A, FALSE)
  BY ScanEnded
<1> QED BY <1>8, <1>9, Zenon DEF A

(* The clusters of a chain, and what the walks mark from an entry on.       *)
Rng(ch, h) == {ch[h][i] : i \in 1..Len(ch[h])}
InsideOf(ch, d) == Rng(ch, d) \cup UNION {Rng(ch, c) : c \in Rng(ch, d)}
Under(ch, c) == {c} \cup IF ent[c].kind = "dir" THEN InsideOf(ch, c) ELSE Rng(ch, c)

(* A sound device, as it is between calls. *)
Scannable(ch) ==
    /\ Fat32Assumption /\ ch \in Chains /\ Sound(Current, ch)
    /\ fat \in [{0, 1} -> [Clusters -> Links]] /\ ent \in [Clusters -> Records]

LEMMA ScannableIs ==
    ASSUME NEW ch, Scannable(ch)
    PROVE  /\ \A h \in Heads : ch[h] \in Seq(Clusters) /\ Rng(ch, h) \in SUBSET Clusters
           /\ \A h \in Heads : \A i, j \in 1..Len(ch[h]) : ch[h][i] = ch[h][j] => i = j
           /\ \A g, h \in Heads : \A x \in Rng(ch, g) : x \in Rng(ch, h) => g = h
           /\ 0 \in Heads /\ 0 \notin Clusters /\ \A c \in Clusters : c \in Heads
           /\ \A c \in Clusters : ent[c].kind \in Kinds
           /\ \A c \in Clusters : Listed(Current, ch, c) => Chain(ent[c].first) = ch[c]
           /\ Chain(Root) = ch[0]
           /\ Current.ent = ent
           /\ \A h, c : c \in Rng(ch, h) <=> In(ch, h, c)
<1>1. ASSUME NEW h \in Heads
      PROVE  ch[h] \in Seq(Clusters) /\ Rng(ch, h) \in SUBSET Clusters
  BY DEF Scannable, Chains, Rng
<1>2. Apart(ch)
  BY DEF Scannable, Sound
<1>3. /\ \A h \in Heads : \A i, j \in 1..Len(ch[h]) : ch[h][i] = ch[h][j] => i = j
      /\ \A g, h \in Heads : \A x \in Rng(ch, g) : x \in Rng(ch, h) => g = h
  BY <1>2 DEF Apart, Rng
<1>4. 0 \in Heads /\ 0 \notin Clusters /\ \A c \in Clusters : c \in Heads
  BY Constants DEF Scannable
<1>5. \A c \in Clusters : ent[c].kind \in Kinds
  BY DEF Scannable, Records
<1>6. /\ \A c \in Clusters : Listed(Current, ch, c) => Chain(ent[c].first) = ch[c]
      /\ Chain(Root) = ch[0]
  BY Reads DEF Scannable
<1>7. \A h, c : c \in Rng(ch, h) <=> In(ch, h, c)
  BY DEF Rng, In
<1> QED BY <1>1, <1>3, <1>4, <1>5, <1>6, <1>7 DEF Current

(* A visit to a cluster that is not marked marks it. *)
LEMMA VisitIs ==
    ASSUME NEW m, NEW c, c \notin m
    PROVE  Visit(Scan(m, FALSE), c) = Scan(m \cup {c}, FALSE)
BY DEF Visit, Scan

(* A chain that is not marked is marked (fsck_mark_chain). *)
LEMMA MarkChainIs ==
    ASSUME NEW cs \in Seq(Clusters), NEW m,
           \A i, j \in 1..Len(cs) : cs[i] = cs[j] => i = j,
           \A i \in 1..Len(cs) : cs[i] \notin m
    PROVE  FoldLeft(Visit, Scan(m, FALSE), cs)
               = Scan(m \cup {cs[i] : i \in 1..Len(cs)}, FALSE)
<1> DEFINE n == Len(cs)
           U == [i \in 1..n |-> {cs[i]}]
<1>1. ASSUME NEW s \in SUBSET (1..n), NEW i \in 1..n, i \notin s
      PROVE  Visit(Scan(After(m, U, s), FALSE), cs[i])
                 = Scan(After(m, U, s) \cup U[i], FALSE)
  <2>1. cs[i] \notin After(m, U, s) /\ U[i] = {cs[i]}
    BY <1>1 DEF After
  <2> QED BY <2>1, VisitIs
<1>2. After(m, U, 1..n) = m \cup {cs[i] : i \in 1..n}
  BY DEF After
<1> HIDE DEF U
<1>3. FoldLeft(Visit, Scan(m, FALSE), cs) = Scan(After(m, U, 1..Len(cs)), FALSE)
  BY <1>1, VisitsMark
<1> QED BY <1>2, <1>3

(* An entry that is not a directory's marks its chain, and if it has never  *)
(* been used it ends the directory (fsck_scan_directory).                   *)
LEMMA EntryScanned ==
    ASSUME NEW ch, Scannable(ch), NEW c \in Clusters, Slotted(Current, ch, c),
           ent[c].kind # "dir", NEW m, Rng(ch, c) \cap m = {}
    PROVE  ScanEntry(Scan(m, FALSE), c)
               = Scan(m \cup Rng(ch, c), ent[c].kind = "free")
<1>1. /\ ch[c] \in Seq(Clusters) /\ c \in Heads /\ Current.ent = ent
      /\ \A i, j \in 1..Len(ch[c]) : ch[c][i] = ch[c][j] => i = j
      /\ Listed(Current, ch, c) => Chain(ent[c].first) = ch[c]
  BY ScannableIs
<1>2. /\ Listed(Current, ch, c) /\ ent[c].first # 0 => Len(ch[c]) > 0
      /\ ~(Listed(Current, ch, c) /\ ent[c].first # 0) => ch[c] = <<>>
      /\ Listed(Current, ch, c) => ent[c].size <= Len(ch[c])
  BY <1>1 DEF Scannable, Sound, Headed, Sized
<1>3. ch[c] = <<>> => m \cup Rng(ch, c) = m
  BY DEF Rng
<1>4. CASE ent[c].kind = "file"
  <2>1. Listed(Current, ch, c)
    BY <1>1, <1>4 DEF Listed, Used
  <2>2. ScanEntry(Scan(m, FALSE), c) = ScanFile(Scan(m, FALSE), ent[c])
    BY <1>4 DEF ScanEntry
  <2>3. CASE ent[c].first = 0
    <3>1. ScanFile(Scan(m, FALSE), ent[c]) = Scan(m, FALSE)
      BY <2>3 DEF ScanFile
    <3>2. m \cup Rng(ch, c) = m
      BY <1>2, <1>3, <2>3
    <3>3. (ent[c].kind = "free") = FALSE
      BY <1>4
    <3> QED BY <2>2, <3>1, <3>2, <3>3
  <2>4. CASE ent[c].first # 0
    <3> DEFINE q == fsck_mark_chain(Scan(m, FALSE), ent[c].first)
    <3>1. [Scan(m, FALSE) EXCEPT !.ended = FALSE] = Scan(m, FALSE)
      BY ScanEnded
    <3>2. \A i \in 1..Len(ch[c]) : ch[c][i] \notin m
      BY DEF Rng
    <3>3. FoldLeft(Visit, Scan(m, FALSE), ch[c]) = Scan(m \cup Rng(ch, c), FALSE)
      BY <1>1, <3>2, MarkChainIs DEF Rng
    <3>4. q = Scan(m \cup Rng(ch, c), FALSE)
      BY <1>1, <2>1, <3>1, <3>3 DEF fsck_mark_chain
    <3>5. ScanFile(Scan(m, FALSE), ent[c])
              = [q EXCEPT !.invalid = IF q.ended THEN @ + 1 ELSE @,
                          !.mismatches = IF Len(Chain(ent[c].first)) < ent[c].size
                                         THEN @ + 1 ELSE @,
                          !.ended = FALSE]
      BY <2>4 DEF ScanFile
    <3>6. ~(Len(Chain(ent[c].first)) < ent[c].size)
      <4>1. ent[c].size \in 0..MaxSize /\ MaxSize \in Nat
        BY DEF Scannable, Records, Fat32Assumption
      <4> QED BY <1>1, <1>2, <2>1, <4>1
    <3> HIDE DEF q
    <3>7. ScanFile(Scan(m, FALSE), ent[c]) = Scan(m \cup Rng(ch, c), FALSE)
      BY <3>4, <3>5, <3>6 DEF Scan
    <3>8. (ent[c].kind = "free") = FALSE
      BY <1>4
    <3> QED BY <2>2, <3>7, <3>8
  <2> QED BY <2>3, <2>4
<1>5. CASE ent[c].kind # "file"
  <2>1. m \cup Rng(ch, c) = m
    BY <1>1, <1>2, <1>3, <1>5 DEF Listed, Used
  <2>2. CASE ent[c].kind = "free"
    <3>1. ScanEntry(Scan(m, FALSE), c) = [Scan(m, FALSE) EXCEPT !.ended = TRUE]
      BY <2>2 DEF ScanEntry
    <3>2. [Scan(m, FALSE) EXCEPT !.ended = TRUE] = Scan(m, TRUE)
      BY ScanEnded
    <3>3. (ent[c].kind = "free") = TRUE
      BY <2>2
    <3> QED BY <2>1, <3>1, <3>2, <3>3
  <2>3. CASE ent[c].kind # "free"
    <3>1. ScanEntry(Scan(m, FALSE), c) = Scan(m, FALSE)
      BY <1>5, <2>3 DEF ScanEntry
    <3>2. (ent[c].kind = "free") = FALSE
      BY <2>3
    <3> QED BY <2>1, <3>1, <3>2
  <2> QED BY <2>2, <2>3
<1> QED BY <1>4, <1>5

(* A walk's step in a directory of the root: the entry's own cluster and    *)
(* its chain are marked.                                                    *)
LEMMA StepInsideIs ==
    ASSUME NEW ch, Scannable(ch), NEW c \in Clusters, Slotted(Current, ch, c),
           ent[c].kind # "dir", NEW m, c \notin m, Rng(ch, c) \cap (m \cup {c}) = {}
    PROVE  StepInside(Scan(m, FALSE), c)
               = Scan(m \cup ({c} \cup Rng(ch, c)), ent[c].kind = "free")
<1>1. Visit(Scan(m, FALSE), c) = Scan(m \cup {c}, FALSE)
  BY VisitIs
<1>2. ~Scan(m \cup {c}, FALSE).ended
  BY DEF Scan
<1>3. ScanEntry(Scan(m \cup {c}, FALSE), c)
          = Scan((m \cup {c}) \cup Rng(ch, c), ent[c].kind = "free")
  BY EntryScanned
<1>4. (m \cup {c}) \cup Rng(ch, c) = m \cup ({c} \cup Rng(ch, c))
  OBVIOUS
<1> QED BY <1>1, <1>2, <1>3, <1>4 DEF StepInside

(* Chains that are apart, from the root on. *)
LEMMA TreeApart ==
    ASSUME NEW ch, Scannable(ch)
    PROVE  /\ \A c \in Rng(ch, 0) :
                  /\ c \in Clusters /\ c \in Heads /\ c # 0 /\ c \notin Rng(ch, c)
                  /\ \A x \in Rng(ch, c) : c \notin Rng(ch, x) /\ x # c
           /\ \A c \in Rng(ch, 0) : \A x \in Rng(ch, c) :
                  /\ x \in Clusters /\ x \in Heads /\ x # 0
                  /\ Rng(ch, x) \cap Rng(ch, c) = {}
           /\ \A c, e \in Rng(ch, 0) : c # e => Under(ch, c) \cap Under(ch, e) = {}
<1>1. /\ \A h \in Heads : Rng(ch, h) \in SUBSET Clusters
      /\ \A g, h \in Heads : \A x \in Rng(ch, g) : x \in Rng(ch, h) => g = h
      /\ 0 \in Heads /\ 0 \notin Clusters /\ \A c \in Clusters : c \in Heads
  BY ScannableIs
<1>2. \A c \in Rng(ch, 0) : c \in Clusters /\ c \in Heads /\ c # 0
  BY <1>1
<1>3. \A c \in Rng(ch, 0) : \A x \in Rng(ch, c) : x \in Clusters /\ x \in Heads /\ x # 0
  BY <1>1, <1>2
<1>4. \A c \in Rng(ch, 0) : \A h \in Heads : h # 0 => c \notin Rng(ch, h)
  BY <1>1
<1>5. \A c \in Rng(ch, 0) :
          c \notin Rng(ch, c) /\ \A x \in Rng(ch, c) : c \notin Rng(ch, x) /\ x # c
  BY <1>2, <1>3, <1>4
<1>6. \A c \in Rng(ch, 0) : \A x \in Rng(ch, c) : Rng(ch, x) \cap Rng(ch, c) = {}
  BY <1>1, <1>2, <1>3, <1>5
<1>7. ASSUME NEW c \in Rng(ch, 0), NEW e \in Rng(ch, 0), c # e, NEW z,
             z \in Under(ch, c), z \in Under(ch, e)
      PROVE  FALSE
  <2>1. ASSUME NEW a \in Rng(ch, 0), z \in Under(ch, a)
        PROVE  z = a \/ z \in Rng(ch, a) \/ \E x \in Rng(ch, a) : z \in Rng(ch, x)
    BY <2>1 DEF Under, InsideOf
  <2>2. z = c \/ z \in Rng(ch, c) \/ \E x \in Rng(ch, c) : z \in Rng(ch, x)
    BY <1>7, <2>1
  <2>3. z = e \/ z \in Rng(ch, e) \/ \E x \in Rng(ch, e) : z \in Rng(ch, x)
    BY <1>7, <2>1
  <2>4. CASE z = c
    BY <1>2, <1>3, <1>4, <1>7, <2>3, <2>4
  <2>5. CASE z = e
    BY <1>2, <1>3, <1>4, <1>7, <2>2, <2>5
  <2>6. CASE z \in Rng(ch, c)
    <3>1. ~(z \in Rng(ch, e))
      BY <1>1, <1>2, <1>7, <2>6
    <3>2. ~(\E x \in Rng(ch, e) : z \in Rng(ch, x))
      <4> SUFFICES ASSUME NEW x \in Rng(ch, e), z \in Rng(ch, x) PROVE FALSE
        OBVIOUS
      <4>1. x = c
        BY <1>1, <1>2, <1>3, <2>6
      <4> QED BY <1>2, <1>4, <4>1
    <3> QED BY <2>3, <2>5, <3>1, <3>2
  <2>7. CASE z \in Rng(ch, e)
    <3>1. ~(\E x \in Rng(ch, c) : z \in Rng(ch, x))
      <4> SUFFICES ASSUME NEW x \in Rng(ch, c), z \in Rng(ch, x) PROVE FALSE
        OBVIOUS
      <4>1. x = e
        BY <1>1, <1>2, <1>3, <2>7
      <4> QED BY <1>2, <1>4, <4>1
    <3> QED BY <2>2, <2>4, <2>6, <3>1
  <2>8. CASE /\ \E x \in Rng(ch, c) : z \in Rng(ch, x)
             /\ \E y \in Rng(ch, e) : z \in Rng(ch, y)
    <3>1. PICK x \in Rng(ch, c) : z \in Rng(ch, x)
      BY <2>8
    <3>2. PICK y \in Rng(ch, e) : z \in Rng(ch, y)
      BY <2>8
    <3>3. x = y
      BY <1>1, <1>3, <3>1, <3>2
    <3>4. c = e
      BY <1>1, <1>2, <3>1, <3>2, <3>3
    <3> QED BY <1>7, <3>4
  <2> QED BY <2>2, <2>3, <2>4, <2>5, <2>6, <2>7, <2>8
<1>8. \A c, e \in Rng(ch, 0) : c # e => Under(ch, c) \cap Under(ch, e) = {}
  BY <1>7
<1> QED BY <1>2, <1>3, <1>5, <1>6, <1>8

(* The entries of a directory of the root. *)
LEMMA InsideEntries ==
    ASSUME NEW ch, Scannable(ch), NEW d \in Rng(ch, 0), ent[d].kind = "dir"
    PROVE  /\ \A c \in Rng(ch, d) : Slotted(Current, ch, c) /\ ent[c].kind # "dir"
           /\ \A i \in 1..(Len(ch[d]) - 1) : ent[ch[d][i]].kind # "free"
           /\ Listed(Current, ch, d) /\ Slotted(Current, ch, d)
<1>1. /\ Current.ent = ent /\ d \in Heads /\ d \in Clusters /\ d # 0 /\ 0 \in Heads
      /\ \A c \in Rng(ch, d) : c \in Clusters /\ c \in Heads
      /\ \A h, c : c \in Rng(ch, h) <=> In(ch, h, c)
      /\ \A g, h \in Heads : \A x \in Rng(ch, g) : x \in Rng(ch, h) => g = h
  BY ScannableIs, TreeApart
<1>2. DirHead(Current, ch, d) /\ DirHead(Current, ch, 0)
  BY <1>1 DEF DirHead
<1>3. Slotted(Current, ch, d) /\ Listed(Current, ch, d)
  BY <1>1, <1>2 DEF Slotted, Listed, Used
<1>4. ASSUME NEW c \in Rng(ch, d) PROVE Slotted(Current, ch, c) /\ ent[c].kind # "dir"
  <2>1. Slotted(Current, ch, c)
    BY <1>1, <1>2 DEF Slotted
  <2>2. ASSUME ent[c].kind = "dir" PROVE FALSE
    <3>1. Listed(Current, ch, c)
      BY <1>1, <2>1, <2>2 DEF Listed, Used
    <3>2. In(ch, 0, c)
      BY <1>1, <2>2, <3>1 DEF Scannable, Sound, Sized
    <3> QED BY <1>1, <3>2
  <2> QED BY <2>1, <2>2
<1>5. \A i \in 1..(Len(ch[d]) - 1) : ent[ch[d][i]].kind # "free"
  BY <1>1, <1>2 DEF Scannable, Sound, FreeLast
<1> QED BY <1>3, <1>4, <1>5

(* The walk through a directory of the root. *)
LEMMA WalkInsideIs ==
    ASSUME NEW ch, Scannable(ch), NEW d \in Rng(ch, 0), ent[d].kind = "dir",
           NEW m, InsideOf(ch, d) \cap m = {}
    PROVE  WalkInside(Scan(m, FALSE), ent[d].first) = Scan(m \cup InsideOf(ch, d), FALSE)
<1> DEFINE cs == ch[d]
           n == Len(cs)
           U == [i \in 1..n |-> {cs[i]} \cup Rng(ch, cs[i])]
           E == [i \in 1..n |-> ent[cs[i]].kind = "free"]
<1>1. /\ d \in Clusters /\ d \in Heads /\ cs \in Seq(Clusters) /\ n \in Nat
      /\ \A i, j \in 1..n : cs[i] = cs[j] => i = j
      /\ \A i \in 1..n : cs[i] \in Rng(ch, d) /\ cs[i] \in Clusters /\ cs[i] \in Heads
      /\ \A g, h \in Heads : \A x \in Rng(ch, g) : x \in Rng(ch, h) => g = h
      /\ \A x \in Rng(ch, d) : Rng(ch, x) \cap Rng(ch, d) = {}
  <2>1. /\ d \in Clusters /\ d \in Heads
        /\ \A x \in Rng(ch, d) : x \in Clusters /\ x \in Heads
        /\ \A x \in Rng(ch, d) : Rng(ch, x) \cap Rng(ch, d) = {}
    BY TreeApart
  <2>2. \A i \in 1..n : cs[i] \in Rng(ch, d)
    BY DEF Rng
  <2>3. /\ cs \in Seq(Clusters)
        /\ \A i, j \in 1..n : cs[i] = cs[j] => i = j
        /\ \A g, h \in Heads : \A x \in Rng(ch, g) : x \in Rng(ch, h) => g = h
    BY <2>1, ScannableIs
  <2> QED BY <2>1, <2>2, <2>3
<1>2. /\ \A i \in 1..n : Slotted(Current, ch, cs[i]) /\ ent[cs[i]].kind # "dir"
      /\ \A i \in 1..(n - 1) : ent[cs[i]].kind # "free"
      /\ Listed(Current, ch, d)
  BY <1>1, InsideEntries
<1>3. ASSUME NEW s \in SUBSET (1..n), NEW i \in 1..n, i \notin s
      PROVE  StepInside(Scan(After(m, U, s), FALSE), cs[i])
                 = Scan(After(m, U, s) \cup U[i], E[i])
  <2> DEFINE a == After(m, U, s)
  <2>1. \A z \in a : z \in m \/ \E j \in s : z = cs[j] \/ z \in Rng(ch, cs[j])
    BY DEF After
  <2>2. \A z \in m : z \notin Rng(ch, d) /\ z \notin Rng(ch, cs[i])
    BY <1>1 DEF InsideOf
  <2>3. cs[i] \notin a
    BY <1>1, <1>3, <2>1, <2>2
  <2>4. Rng(ch, cs[i]) \cap (a \cup {cs[i]}) = {}
    <3> SUFFICES ASSUME NEW z \in Rng(ch, cs[i]), z \in a \/ z = cs[i] PROVE FALSE
      OBVIOUS
    <3>1. z \notin Rng(ch, d) /\ z \notin m
      BY <1>1, <2>2
    <3>2. PICK j \in s : z = cs[j] \/ z \in Rng(ch, cs[j])
      BY <1>1, <2>1, <3>1
    <3>3. z # cs[j]
      BY <1>1, <3>1
    <3>4. cs[i] = cs[j]
      BY <1>1, <3>2, <3>3
    <3> QED BY <1>1, <1>3, <3>4
  <2> HIDE DEF a
  <2>5. StepInside(Scan(a, FALSE), cs[i])
            = Scan(a \cup ({cs[i]} \cup Rng(ch, cs[i])), ent[cs[i]].kind = "free")
    BY <1>1, <1>2, <2>3, <2>4, StepInsideIs
  <2> QED BY <2>5 DEF a
<1>4. \A i \in 1..n : E[i] \in BOOLEAN
  OBVIOUS
<1>5. ASSUME NEW i \in 1..(n - 1) PROVE ~E[i]
  <2>1. i \in 1..n /\ ent[cs[i]].kind # "free"
    BY <1>1, <1>2
  <2> HIDE DEF cs
  <2>2. E[i] = (ent[cs[i]].kind = "free")
    BY <2>1
  <2> QED BY <2>1, <2>2
<1>6. After(m, U, 1..n) = m \cup InsideOf(ch, d)
  <2>1. UNION {U[i] : i \in 1..n} = InsideOf(ch, d)
    <3>1. ASSUME NEW i \in 1..n PROVE U[i] \in SUBSET InsideOf(ch, d)
      BY <1>1 DEF InsideOf
    <3>2. ASSUME NEW z \in InsideOf(ch, d) PROVE \E i \in 1..n : z \in U[i]
      <4>1. PICK x \in Rng(ch, d) : z = x \/ z \in Rng(ch, x)
        BY DEF InsideOf
      <4>2. PICK i \in 1..n : x = cs[i]
        BY <4>1 DEF Rng
      <4> QED BY <4>1, <4>2
    <3> QED BY <3>1, <3>2
  <2> QED BY <2>1 DEF After
<1>7. [Scan(m, FALSE) EXCEPT !.ended = FALSE] = Scan(m, FALSE)
  BY ScanEnded
<1>8. Chain(ent[d].first) = cs
  BY <1>1, <1>2, ScannableIs
<1> HIDE DEF U, E, cs
<1>9. [FoldLeft(StepInside, Scan(m, FALSE), cs) EXCEPT !.ended = FALSE]
          = Scan(After(m, U, 1..Len(cs)), FALSE)
  BY <1>1, <1>3, <1>4, <1>5, InsideMarks
<1> QED BY <1>6, <1>7, <1>8, <1>9 DEF WalkInside

(* A step of the walk through the root. *)
LEMMA StepRootIs ==
    ASSUME NEW ch, Scannable(ch), NEW c \in Rng(ch, 0), NEW m, Under(ch, c) \cap m = {}
    PROVE  StepRoot(Scan(m, FALSE), c) = Scan(m \cup Under(ch, c), ent[c].kind = "free")
<1>1. /\ c \in Clusters /\ c \notin Rng(ch, c) /\ c \notin InsideOf(ch, c) /\ c \notin m
      /\ Slotted(Current, ch, c)
  <2>1. c \in Clusters /\ c \notin Rng(ch, c) /\ c \notin InsideOf(ch, c)
    BY TreeApart DEF InsideOf
  <2>2. Slotted(Current, ch, c)
    BY ScannableIs DEF Slotted, DirHead
  <2> QED BY <2>1, <2>2 DEF Under
<1>2. Visit(Scan(m, FALSE), c) = Scan(m \cup {c}, FALSE)
  BY <1>1, VisitIs
<1>3. ~Scan(m \cup {c}, FALSE).ended
  BY DEF Scan
<1>4. StepRoot(Scan(m, FALSE), c) = ScanAnyEntry(Scan(m \cup {c}, FALSE), c)
  BY <1>2, <1>3 DEF StepRoot
<1>5. CASE ent[c].kind = "dir"
  <2>1. InsideOf(ch, c) \cap (m \cup {c}) = {}
    BY <1>1, <1>5 DEF Under
  <2>2. WalkInside(Scan(m \cup {c}, FALSE), ent[c].first)
            = Scan((m \cup {c}) \cup InsideOf(ch, c), FALSE)
    BY <1>5, <2>1, WalkInsideIs
  <2>3. (m \cup {c}) \cup InsideOf(ch, c) = m \cup Under(ch, c)
    BY <1>5 DEF Under
  <2>4. (ent[c].kind = "free") = FALSE
    BY <1>5
  <2> QED BY <1>4, <1>5, <2>2, <2>3, <2>4 DEF ScanAnyEntry
<1>6. CASE ent[c].kind # "dir"
  <2>1. Rng(ch, c) \cap (m \cup {c}) = {}
    BY <1>1, <1>6 DEF Under
  <2>2. ScanEntry(Scan(m \cup {c}, FALSE), c)
            = Scan((m \cup {c}) \cup Rng(ch, c), ent[c].kind = "free")
    <3>1. Rng(ch, c) \cap (m \cup {c}) = {}
      BY <2>1
    <3> QED BY <1>1, <1>6, <3>1, EntryScanned
  <2>3. (m \cup {c}) \cup Rng(ch, c) = m \cup Under(ch, c)
    BY <1>6 DEF Under
  <2> QED BY <1>4, <1>6, <2>2, <2>3 DEF ScanAnyEntry
<1> QED BY <1>5, <1>6

(* What is under the root is what an entry leads to. *)
LEMMA UnderRoot ==
    ASSUME NEW ch, Scannable(ch)
    PROVE  UNION {Under(ch, c) : c \in Rng(ch, 0)} = Reachable
<1> DEFINE W == UNION {Under(ch, c) : c \in Rng(ch, 0)}
<1>1. /\ Live = {c \in Clusters : Listed(Current, ch, c)}
      /\ \A c \in Live : Owned(c) = Rng(ch, c)
      /\ Range(Chain(Root)) = Rng(ch, 0)
  <2>1. Live = {c \in Clusters : Listed(Current, ch, c)}
    BY Reads DEF Scannable
  <2>2. \A c \in Live : Chain(ent[c].first) = ch[c] /\ ch[c] \in Seq(Clusters)
    BY <2>1, ScannableIs
  <2>3. Chain(Root) = ch[0] /\ ch[0] \in Seq(Clusters)
    BY ScannableIs
  <2> QED BY <2>1, <2>2, <2>3 DEF Owned, Range, Rng
<1>2. /\ Current.ent = ent /\ 0 \in Heads /\ \A c \in Clusters : c \in Heads
      /\ \A h, c : c \in Rng(ch, h) <=> In(ch, h, c)
      /\ \A h \in Heads : h = 0 \/ h \in Clusters
      /\ \A h \in Heads : Rng(ch, h) \in SUBSET Clusters
  BY ScannableIs DEF Heads
<1>3. ASSUME NEW c \in Clusters, Rng(ch, c) # {} PROVE c \in Live
  <2>1. ch[c] # <<>>
    BY <1>3 DEF Rng
  <2> QED BY <1>1, <2>1 DEF Scannable, Sound, Headed
<1>4. ASSUME NEW z \in W PROVE z \in Reachable
  <2>1. PICK c \in Rng(ch, 0) : z \in Under(ch, c)
    OBVIOUS
  <2>2. z \in Rng(ch, 0) \/ \E x \in Clusters : z \in Rng(ch, x)
    <3>1. c \in Clusters /\ Rng(ch, c) \in SUBSET Clusters
      BY <1>2
    <3> QED BY <2>1, <3>1 DEF Under, InsideOf
  <2>3. CASE z \in Rng(ch, 0)
    BY <1>1, <2>3 DEF Reachable
  <2>4. CASE \E x \in Clusters : z \in Rng(ch, x)
    BY <1>1, <1>3, <2>4 DEF Reachable
  <2> QED BY <2>2, <2>3, <2>4
<1>5. ASSUME NEW z \in Reachable PROVE z \in W
  <2>1. CASE z \in Rng(ch, 0)
    BY <2>1 DEF Under
  <2>2. CASE \E x \in Live : z \in Rng(ch, x)
    <3>1. PICK x \in Live : z \in Rng(ch, x)
      BY <2>2
    <3>2. PICK h \in Heads : DirHead(Current, ch, h) /\ x \in Rng(ch, h)
      BY <1>1, <1>2, <3>1 DEF Listed, Slotted
    <3>3. CASE h = 0
      <4>1. z \in Under(ch, x)
        BY <3>1 DEF Under, InsideOf
      <4> QED BY <3>2, <3>3, <4>1
    <3>4. CASE h # 0
      <4>1. h \in Rng(ch, 0) /\ ent[h].kind = "dir"
        BY <1>2, <3>2, <3>4 DEF DirHead
      <4>2. z \in Under(ch, h)
        BY <3>1, <3>2, <4>1 DEF Under, InsideOf
      <4> QED BY <4>1, <4>2
    <3> QED BY <3>3, <3>4
  <2> QED BY <1>1, <2>1, <2>2 DEF Reachable
<1> QED BY <1>4, <1>5

(* So what fsck's walk has marked in the end is what an entry leads to, and *)
(* it has found nothing wrong.                                              *)
LEMMA ScanIs ==
    ASSUME NEW ch, Scannable(ch)
    PROVE  fsck_scan_directory(Scanning, Root) = Scan(Reachable, FALSE)
<1> DEFINE cs == ch[0]
           n == Len(cs)
           U == [i \in 1..n |-> Under(ch, cs[i])]
           E == [i \in 1..n |-> ent[cs[i]].kind = "free"]
           m == {}
<1>1. /\ cs \in Seq(Clusters) /\ n \in Nat
      /\ \A i, j \in 1..n : cs[i] = cs[j] => i = j
      /\ \A i \in 1..n : cs[i] \in Rng(ch, 0)
      /\ Chain(Root) = cs /\ Current.ent = ent /\ 0 \in Heads
  <2>1. \A i \in 1..n : cs[i] \in Rng(ch, 0)
    BY DEF Rng
  <2>2. /\ cs \in Seq(Clusters) /\ Chain(Root) = cs /\ Current.ent = ent /\ 0 \in Heads
        /\ \A i, j \in 1..n : cs[i] = cs[j] => i = j
    BY ScannableIs
  <2> QED BY <2>1, <2>2
<1>2. \A i \in 1..(n - 1) : ent[cs[i]].kind # "free"
  BY <1>1 DEF Scannable, Sound, FreeLast, DirHead
<1>3. ASSUME NEW s \in SUBSET (1..n), NEW i \in 1..n, i \notin s
      PROVE  StepRoot(Scan(After(m, U, s), FALSE), cs[i])
                 = Scan(After(m, U, s) \cup U[i], E[i])
  <2> DEFINE a == After(m, U, s)
  <2>1. \A z \in a : \E j \in s : z \in Under(ch, cs[j])
    BY DEF After
  <2>2. \A j \in s : cs[i] # cs[j] /\ cs[j] \in Rng(ch, 0)
    BY <1>1, <1>3
  <2>3. \A j \in s : Under(ch, cs[i]) \cap Under(ch, cs[j]) = {}
    BY <1>1, <2>2, TreeApart
  <2>4. Under(ch, cs[i]) \cap a = {}
    BY <2>1, <2>3
  <2> HIDE DEF a
  <2>5. StepRoot(Scan(a, FALSE), cs[i])
            = Scan(a \cup Under(ch, cs[i]), ent[cs[i]].kind = "free")
    BY <1>1, <2>4, StepRootIs
  <2> QED BY <2>5 DEF a
<1>4. \A i \in 1..n : E[i] \in BOOLEAN
  OBVIOUS
<1>5. ASSUME NEW i \in 1..(n - 1) PROVE ~E[i]
  <2>1. i \in 1..n /\ ent[cs[i]].kind # "free"
    BY <1>1, <1>2
  <2> HIDE DEF cs
  <2>2. E[i] = (ent[cs[i]].kind = "free")
    BY <2>1
  <2> QED BY <2>1, <2>2
<1>6. After(m, U, 1..n) = Reachable
  <2>1. UNION {U[i] : i \in 1..n} = UNION {Under(ch, c) : c \in Rng(ch, 0)}
    BY DEF Rng
  <2> QED BY <2>1, UnderRoot DEF After
<1>7. [Scan(m, FALSE) EXCEPT !.ended = FALSE] = Scan(m, FALSE)
  BY ScanEnded
<1>8. Scanning = Scan(m, FALSE)
  BY DEF Scanning, Scan
<1> HIDE DEF U, E, cs, m
<1>9. [FoldLeft(StepRoot, Scan(m, FALSE), cs) EXCEPT !.ended = FALSE]
          = Scan(After(m, U, 1..Len(cs)), FALSE)
  <2>1. \A s \in SUBSET (1..Len(cs)), i \in 1..Len(cs) : i \notin s =>
            StepRoot(Scan(After(m, U, s), FALSE), cs[i])
                = Scan(After(m, U, s) \cup U[i], E[i])
    BY <1>3
  <2>2. cs \in Seq(Clusters)
    BY <1>1
  <2>3. \A i \in 1..Len(cs) : E[i] \in BOOLEAN
    BY <1>4
  <2>4. \A i \in 1..(Len(cs) - 1) : ~E[i]
    BY <1>5
  <2> QED BY <2>1, <2>2, <2>3, <2>4, RootMarks
<1> QED BY <1>1, <1>6, <1>7, <1>8, <1>9, WalksAre

(* Between calls fsck tells the truth (fsck_scan_directory,                 *)
(* fsck_mark_chain): its walks meet every cluster that an entry leads to,   *)
(* each once, and report what is allocated besides.                         *)
THEOREM FsckTellsTruth == Fat32Assumption => (Spec => []FsckTruthful)
<1> SUFFICES ASSUME Fat32Assumption PROVE Spec => []FsckTruthful
  OBVIOUS
<1>1. IInv => FsckTruthful
  <2> DEFINE free == {c \in Clusters : Empty(c)}
             r == Scan(Reachable, FALSE)
             told == [lost |-> Cardinality(Allocated \ Reachable), cross_links |-> 0,
                      mismatches |-> 0, invalid |-> 0,
                      free |-> Cardinality(Clusters \ Allocated) + 2]
  <2> SUFFICES ASSUME IInv, writes = <<>> PROVE fsck = told
    BY DEF FsckTruthful, Called
  <2>1. PICK ch \in Chains : AtRest(ch)
    BY RestNow
  <2>2. Scannable(ch)
    BY <2>1, Resting DEF Scannable
  <2>3. fsck_scan_directory(Scanning, Root) = r
    BY <2>2, ScanIs
  <2>4. free = Clusters \ Allocated /\ Clusters \ free = Allocated
    BY DEF Allocated
  <2>5. /\ r.marked = Reachable /\ r.cross_links = 0 /\ r.mismatches = 0
        /\ r.invalid = 0
    BY DEF Scan
  <2> HIDE DEF r
  <2>6. fsck = [lost |-> Cardinality((Clusters \ free) \ r.marked),
                cross_links |-> r.cross_links, mismatches |-> r.mismatches,
                invalid |-> r.invalid, free |-> Cardinality(free) + 2]
    BY <2>3 DEF fsck
  <2> HIDE DEF free
  <2> QED BY <2>4, <2>5, <2>6
<1> QED BY <1>1, Invariance, PTL
=============================================================================
