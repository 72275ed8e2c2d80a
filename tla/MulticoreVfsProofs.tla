------------------------ MODULE MulticoreVfsProofs ------------------------
(***************************************************************************)
(* Proofs about two components that share nothing: the virtual file system *)
(* (Vfs) and pico_multicore (Multicore).                                   *)
(*                                                                         *)
(* Vfs keeps one list of drives, leaks no file and implements              *)
(* AbstractFiles, for any letters, paths, hashes, slots and number of      *)
(* drives.  The list is Node, a function that follows the links: what it   *)
(* is after list_add and list_remove is shown by induction along the list, *)
(* as the contradiction of a least place at which it would be another      *)
(* (Least, WalkAlong).                                                     *)
(*                                                                         *)
(* Multicore, for FIFOs of any depth and any number of lockouts and        *)
(* resets, when a core that makes timed calls is no victim (TimedVictims   *)
(* is FALSE).  While core 1 is in the bootrom the words in both FIFOs, in  *)
(* the order in which they will be read, are those the launch still waits  *)
(* for (Before, After).  Later one core at a time talks to the handler of  *)
(* the other, and what is in the FIFOs is what is left of that             *)
(* Conversation.                                                           *)
(***************************************************************************)
EXTENDS
  Vfs, Multicore, FiniteSetTheorems, SequenceTheorems,
  WellFoundedInduction, TLAPS
-----------------------------------------------------------------------------
(* Vfs *)

\* A set of numbers has a least one.
LEMMA Least ==
  ASSUME NEW T, T \subseteq Nat, T # {}
  PROVE  \E n \in T : \A m \in T : n <= m
<1>1. IsWellFoundedOn(OpToRel(<, Nat), Nat)
  BY NatLessThanWellFounded
<1>2. \E n \in T : \A m \in T : ~(<<m, n>> \in OpToRel(<, Nat))
  BY <1>1, WFMin
<1>3. \A m, n \in Nat : m < n => <<m, n>> \in OpToRel(<, Nat)
  BY DEF OpToRel
<1>4. PICK n \in T : \A m \in T : ~(<<m, n>> \in OpToRel(<, Nat))
  BY <1>2
<1>5. \A m \in T : ~(m < n)
  BY <1>3, <1>4
<1>6. \A m \in T : n <= m
  BY <1>5
<1> QED
  BY <1>6

\* The nodes along the links nx from h.
Walk(h, nx) ==
  CHOOSE f : f = [k \in 1..MaxMounts |-> IF k = 1 THEN h ELSE IF f[k - 1] = 0 THEN 0 ELSE nx[f[k - 1]]]

LEMMA Walks ==
  ASSUME NEW h, NEW nx
  PROVE  \A k \in 1..MaxMounts :
           Walk(h, nx)[k] = IF k = 1 THEN h
                            ELSE IF Walk(h, nx)[k - 1] = 0 THEN 0 ELSE nx[Walk(h, nx)[k - 1]]
<1> DEFINE Upto(n, f) == f = [k \in 1..n |-> IF k = 1 THEN h ELSE IF f[k - 1] = 0 THEN 0 ELSE nx[f[k - 1]]]
           Bad == {n \in Nat : ~ \E f : Upto(n, f)}
<1>1. Bad = {}
  <2> SUFFICES ASSUME Bad # {} PROVE FALSE
    OBVIOUS
  <2>1. PICK n \in Bad : \A m \in Bad : n <= m
    BY Least
  <2>2. CASE n = 0
    <3>1. Upto(0, << >>)
      OBVIOUS
    <3> QED
      BY <2>1, <2>2, <3>1
  <2>3. CASE n # 0
    <3>0. n \in Nat
      BY <2>1
    <3>1. n - 1 \in Nat /\ n - 1 \notin Bad
      <4>1. n - 1 \in Nat /\ ~(n <= n - 1)
        BY <2>3, <3>0
      <4> QED
        BY <2>1, <4>1
    <3>2. PICK g : Upto(n - 1, g)
      BY <3>1
    <3> DEFINE f == [k \in 1..n |-> IF k = 1 THEN h ELSE IF g[k - 1] = 0 THEN 0 ELSE nx[g[k - 1]]]
    <3>3. \A k \in 1..(n - 1) :
            g[k] = IF k = 1 THEN h ELSE IF g[k - 1] = 0 THEN 0 ELSE nx[g[k - 1]]
      BY <3>2
    <3>4. \A k \in 1..n :
            f[k] = IF k = 1 THEN h ELSE IF g[k - 1] = 0 THEN 0 ELSE nx[g[k - 1]]
      OBVIOUS
    <3>5. \A k \in 1..n : k # n => k \in 1..(n - 1)
      BY <3>0
    <3>6. \A k \in 1..n : k # 1 => k - 1 \in 1..(n - 1) /\ k - 1 \in 1..n
      BY <3>0
    <3>7. \A k \in 1..(n - 1) : k \in 1..n /\ f[k] = g[k]
      BY <3>0, <3>3, <3>4
    <3>8. f = [k \in 1..n |-> IF k = 1 THEN h ELSE IF f[k - 1] = 0 THEN 0 ELSE nx[f[k - 1]]]
      <4> HIDE DEF f
      <4>1. f = [k \in 1..n |-> f[k]]
        BY DEF f
      <4>2. \A k \in 1..n :
            f[k] = IF k = 1 THEN h ELSE IF f[k - 1] = 0 THEN 0 ELSE nx[f[k - 1]]
        BY <3>4, <3>6, <3>7
      <4> QED
        BY <4>1, <4>2
    <3>9. Upto(n, f)
      BY <3>8
    <3> QED
      BY <2>1, <3>9
  <2> QED
    BY <2>2, <2>3
<1>2. \E f : Upto(MaxMounts, f)
  BY <1>1, VfsAssumption
<1>3. Upto(MaxMounts, Walk(h, nx))
  BY <1>2 DEF Walk
<1> QED
  BY <1>3

\* Links that follow s walk along s.
LEMMA WalkAlong ==
  ASSUME NEW h, NEW nx, NEW n \in 0..MaxMounts, NEW s,
         \A k \in 1..n : s[k] # 0,
         h = IF n = 0 THEN 0 ELSE s[1],
         \A k \in 1..n : nx[s[k]] = IF k = n THEN 0 ELSE s[k + 1]
  PROVE  \A k \in 1..MaxMounts : Walk(h, nx)[k] = IF k <= n THEN s[k] ELSE 0
<1> DEFINE f == Walk(h, nx)
           Bad == {k \in 1..MaxMounts : f[k] # IF k <= n THEN s[k] ELSE 0}
<1>1. \A k \in 1..MaxMounts : f[k] = IF k = 1 THEN h ELSE IF f[k - 1] = 0 THEN 0 ELSE nx[f[k - 1]]
  BY Walks
<1>2. MaxMounts \in Nat
  BY VfsAssumption
<1> HIDE DEF f
<1>3. SUFFICES ASSUME Bad # {} PROVE FALSE
  BY DEF f
<1>4. PICK k \in Bad : \A j \in Bad : k <= j
  <2>1. Bad \subseteq Nat
    BY <1>2
  <2> HIDE DEF Bad
  <2> QED
    BY <1>3, <2>1, Least
<1>5. k \in 1..MaxMounts /\ f[k] # IF k <= n THEN s[k] ELSE 0
  BY <1>4
<1>6. CASE k = 1
  BY <1>1, <1>2, <1>5, <1>6
<1>7. CASE k # 1
  <2>1. k - 1 \in 1..MaxMounts /\ ~(k <= k - 1)
    BY <1>2, <1>5, <1>7
  <2>2. f[k - 1] = IF k - 1 <= n THEN s[k - 1] ELSE 0
    BY <1>4, <2>1
  <2>3. f[k] = IF f[k - 1] = 0 THEN 0 ELSE nx[f[k - 1]]
    BY <1>1, <1>5, <1>7
  <2>4. CASE k <= n
    <3>1. k - 1 \in 1..n /\ k - 1 <= n /\ k - 1 # n /\ (k - 1) + 1 = k
      BY <1>5, <1>7, <2>4
    <3>2. s[k - 1] # 0 /\ nx[s[k - 1]] = s[k]
      BY <3>1
    <3> QED
      BY <1>5, <2>2, <2>3, <2>4, <3>1, <3>2
  <2>5. CASE k = n + 1
    <3>1. k - 1 \in 1..n /\ k - 1 <= n /\ k - 1 = n /\ ~(k <= n)
      BY <1>5, <1>7, <2>5
    <3>2. s[k - 1] # 0 /\ nx[s[k - 1]] = 0
      BY <3>1
    <3> QED
      BY <1>5, <2>2, <2>3, <3>1, <3>2
  <2>6. CASE k > n + 1
    BY <1>5, <2>2, <2>3, <2>6
  <2> QED
    BY <1>5, <2>4, <2>5, <2>6
<1> QED
  BY <1>6, <1>7

NodeWalks == Node = Walk(head, next)

LEMMA NodeWalk == NodeWalks
  BY DEF NodeWalks, Node, Walk

LEMMA NodeWalkNext == NodeWalks'
  BY NodeWalk, PTL
-----------------------------------------------------------------------------
(* The invariant *)

Used(i) == vfs_open_files[i].fd # 0

\* The list has n nodes, which its links join forwards and backwards; the
\* nodes that were never in it have no links.
Listing(n) ==
  /\ \A k \in 1..n : Node[k] \in 1..Len(letter)
  /\ \A k \in 1..MaxMounts : k > n => Node[k] = 0
  /\ \A j, k \in 1..n : Node[j] = Node[k] => j = k
  /\ \A k \in 1..n : /\ next[Node[k]] = (IF k = n THEN 0 ELSE Node[k + 1])
                     /\ prev[Node[k]] = (IF k = 1 THEN 0 ELSE Node[k - 1])
  /\ head = IF n = 0 THEN 0 ELSE Node[1]
  /\ IF n = 0 THEN tail = 0 ELSE Node[n] = IF tail = 0 THEN head ELSE tail

Fresh == \A f \in Systems : f > Len(letter) => next[f] = 0 /\ prev[f] = 0

ListInv == Fresh /\ \E n \in 0..Len(letter) : Listing(n)

InList(f) == \E k \in 1..MaxMounts : Node[k] = f

\* The slots in use and the objects of the backends belong together.
SlotInv ==
  \A i \in Slots : Used(i) =>
    LET F == vfs_open_files[i] IN
    /\ F.fd = i + FILES_FD_BASE
    /\ opened[F.file] # NotOpen /\ opened[F.file].drive = F.fs
    /\ Hash[opened[F.file].path] = F.hash

\* The file systems of open files are mounted.
MountedInv == \A i \in Slots : Used(i) => InList(vfs_open_files[i].fs)

ObjectInv ==
  /\ \A i, j \in Slots :
       Used(i) /\ Used(j) /\ vfs_open_files[i].file = vfs_open_files[j].file => i = j
  /\ \A o \in Objects : opened[o] # NotOpen =>
       \E i \in Slots : Used(i) /\ vfs_open_files[i].file = o

IndInv == TypeOK /\ ListInv /\ SlotInv /\ MountedInv /\ ObjectInv

Files == [fd : Handles, file : Objects, fs : Systems, hash : {Hash[p] : p \in Paths}]
Opened == [drive : Systems, path : Paths]

LEMMA NotFile == NotOpen \notin Opened /\ 0 \notin Systems /\ 0 \notin Objects
                 /\ \A i \in Slots : i + FILES_FD_BASE # 0 /\ i \in Nat
  BY VfsAssumption DEF Opened, Systems, Objects, Slots, FILES_FD_BASE

LEMMA TypeNow ==
  ASSUME TypeOK
  PROVE  /\ letter \in Seq(Letters) /\ Len(letter) \in 0..MaxMounts /\ MaxMounts \in Nat
         /\ next \in [Systems -> Nat] /\ prev \in [Systems -> Nat]
         /\ opened \in [Objects -> Opened \cup {NotOpen}]
         /\ vfs_open_files \in [Slots -> Files \cup {NoFile}]
         /\ \A i \in Slots : ~Used(i) => vfs_open_files[i] = NoFile
         /\ \A i \in Slots : Used(i) => vfs_open_files[i] \in Files
<1>1. letter \in Seq(Letters) /\ Len(letter) \in 0..MaxMounts /\ MaxMounts \in Nat
  BY VfsAssumption DEF TypeOK
<1>2. next \in [Systems -> Nat] /\ prev \in [Systems -> Nat]
  BY <1>1 DEF TypeOK
<1>3. opened \in [Objects -> Opened \cup {NotOpen}] /\ vfs_open_files \in [Slots -> Files \cup {NoFile}]
  BY DEF TypeOK, Opened, Files
<1>4. NoFile.fd = 0
  BY DEF NoFile
<1>5. \A F \in Files : F.fd # 0
  BY NotFile DEF Files, Handles
<1> QED
  BY <1>1, <1>2, <1>3, <1>4, <1>5 DEF Used

\* The list, whose length is n.
LEMMA ListNow ==
  ASSUME TypeOK, NEW n \in 0..Len(letter), Listing(n)
  PROVE  /\ n \in 0..MaxMounts /\ Listed = 1..n /\ Cardinality(Listed) = n
         /\ \A k \in 1..n : k \in 1..MaxMounts /\ Node[k] \in Systems /\ Node[k] # 0
         /\ \A f \in Systems : InList(f) <=> \E k \in 1..n : Node[k] = f
<1>1. n \in 0..MaxMounts /\ n \in Nat /\ MaxMounts \in Nat /\ Len(letter) \in 0..MaxMounts
  BY TypeNow
<1>2. \A k \in 1..n : k \in 1..MaxMounts /\ Node[k] \in Systems /\ Node[k] # 0
  BY <1>1 DEF Listing, Systems
<1>3. Listed = 1..n
  BY <1>1, <1>2 DEF Listed, Listing
<1>4. Cardinality(1..n) = n
  BY <1>1, FS_Interval
<1>5. \A f \in Systems : InList(f) <=> \E k \in 1..n : Node[k] = f
  BY <1>1, <1>2, NotFile DEF InList, Listing
<1> QED
  BY <1>1, <1>2, <1>3, <1>4, <1>5

\* A step that does not touch the list.
LEMMA ListSame ==
  ASSUME ListInv, UNCHANGED list
  PROVE  /\ ListInv' /\ \A f : InList(f)' <=> InList(f)
<1>1. Node' = Node /\ letter' = letter /\ head' = head /\ tail' = tail /\ next' = next /\ prev' = prev
  BY DEF list, Node
<1> QED
  BY <1>1 DEF ListInv, Listing, Fresh, InList

\* list_add: the new node stands behind the last.
LEMMA Added ==
  ASSUME TypeOK, Fresh, NEW n \in 0..Len(letter), Listing(n),
         Len(letter) < MaxMounts, NEW l \in Letters, letter' = Append(letter, l),
         ListAdd(Len(letter'))
  PROVE  /\ Fresh' /\ n + 1 \in 0..Len(letter') /\ Listing(n + 1)'
         /\ \A k \in 1..n : Node'[k] = Node[k]
         /\ Node'[n + 1] = Len(letter) + 1
         /\ next' \in [Systems -> 0..Len(letter')] /\ prev' \in [Systems -> 0..Len(letter')]
         /\ head' \in 0..Len(letter') /\ tail' \in 0..Len(letter')
<1> DEFINE L == Len(letter)
           f == L + 1
           s == [k \in 1..(n + 1) |-> IF k <= n THEN Node[k] ELSE f]
<1>0. /\ L \in Nat /\ n \in Nat /\ n <= L /\ MaxMounts \in Nat /\ n + 1 \in 0..MaxMounts
      /\ Len(letter') = f /\ f \in Systems /\ f # 0 /\ letter \in Seq(Letters)
  BY TypeNow DEF Systems
<1>1. /\ \A k \in 1..n : Node[k] \in 1..L /\ Node[k] # 0 /\ Node[k] # f /\ Node[k] \in Systems
      /\ \A j, k \in 1..n : Node[j] = Node[k] => j = k
      /\ \A k \in 1..n : /\ next[Node[k]] = (IF k = n THEN 0 ELSE Node[k + 1])
                         /\ prev[Node[k]] = (IF k = 1 THEN 0 ELSE Node[k - 1])
      /\ head = IF n = 0 THEN 0 ELSE Node[1]
      /\ IF n = 0 THEN tail = 0 ELSE Node[n] = IF tail = 0 THEN head ELSE tail
  BY <1>0 DEF Listing, Systems
<1>2. /\ next[f] = 0 /\ prev[f] = 0
      /\ next \in [Systems -> 0..L] /\ prev \in [Systems -> 0..L] /\ head \in 0..L /\ tail \in 0..L
  BY <1>0 DEF Fresh, TypeOK
<1> HIDE DEF L
\* The links and the ends.
<1>3. /\ n = 0 => head' = f /\ tail' = 0 /\ next' = next /\ prev' = prev
      /\ n # 0 => /\ head' = head /\ tail' = f
                  /\ next' = [next EXCEPT ![Node[n]] = f]
                  /\ prev' = [prev EXCEPT ![f] = Node[n]]
  <2>1. head = 0 <=> n = 0
    BY <1>0, <1>1
  <2>2. n = 0 \/ n \in 1..n
    BY <1>0
  <2> QED
    BY <1>0, <1>1, <2>1, <2>2 DEF ListAdd
<1>4. /\ \A k \in 1..(n + 1) : s[k] \in 1..f /\ s[k] # 0 /\ s[k] \in Systems
      /\ \A j, k \in 1..(n + 1) : s[j] = s[k] => j = k
      /\ s[n + 1] = f /\ \A k \in 1..n : s[k] = Node[k]
  BY <1>0, <1>1 DEF Systems
<1>5. \A k \in 1..(n + 1) : k = n + 1 \/ (k \in 1..n /\ k <= n)
  BY <1>0
<1>6. \A k \in 1..(n + 1) : next'[s[k]] = IF k = n + 1 THEN 0 ELSE s[k + 1]
  <2>1. CASE n = 0
    BY <1>0, <1>2, <1>3, <1>4, <1>5, <2>1
  <2>2. CASE n # 0
    <3>1. n \in 1..n /\ Node[n] # f
      BY <1>0, <1>1, <2>2
    <3>2. next'[f] = 0 /\ next'[Node[n]] = f
      BY <1>0, <1>1, <1>2, <1>3, <2>2, <3>1
    <3>3. \A k \in 1..n : k # n => next'[Node[k]] = Node[k + 1] /\ k + 1 \in 1..n /\ k # n + 1
      <4>1. \A k \in 1..n : k # n => k + 1 \in 1..n /\ k # n + 1
        BY <1>0
      <4>2. \A k \in 1..n : k # n => Node[k] # Node[n] /\ Node[k] \in Systems
        BY <1>1, <3>1
      <4>3. \A g \in Systems : g # Node[n] => next'[g] = next[g]
        BY <1>2, <1>3, <2>2
      <4> QED
        BY <1>1, <4>1, <4>2, <4>3
    <3> QED
      BY <1>0, <1>4, <1>5, <3>1, <3>2, <3>3
  <2> QED
    BY <2>1, <2>2
<1>7. \A k \in 1..(n + 1) : prev'[s[k]] = IF k = 1 THEN 0 ELSE s[k - 1]
  <2>1. CASE n = 0
    BY <1>0, <1>2, <1>3, <1>4, <1>5, <2>1
  <2>2. CASE n # 0
    <3>1. prev'[f] = Node[n] /\ n \in 1..n /\ n + 1 # 1
      BY <1>0, <1>2, <1>3, <2>2
    <3>2. \A k \in 1..n : prev'[Node[k]] = IF k = 1 THEN 0 ELSE Node[k - 1]
      BY <1>0, <1>1, <1>2, <1>3, <2>2
    <3>3. \A k \in 1..n : k # 1 => k - 1 \in 1..n
      BY <1>0
    <3> QED
      BY <1>0, <1>4, <1>5, <3>1, <3>2, <3>3
  <2> QED
    BY <2>1, <2>2
<1>8. head' = s[1] /\ s[n + 1] = IF tail' = 0 THEN head' ELSE tail'
  <2>1. CASE n = 0
    BY <1>0, <1>3, <1>4, <2>1
  <2>2. CASE n # 0
    <3>1. 1 \in 1..n
      BY <1>0, <2>2
    <3> QED
      BY <1>0, <1>1, <1>3, <1>4, <2>2, <3>1
  <2> QED
    BY <2>1, <2>2
<1> HIDE DEF s
<1>9. \A k \in 1..MaxMounts : Node'[k] = IF k <= n + 1 THEN s[k] ELSE 0
  <2>1. PICK m \in 0..MaxMounts : m = n + 1 /\ m # 0
    BY <1>0
  <2>2. /\ \A k \in 1..m : s[k] # 0
        /\ head' = IF m = 0 THEN 0 ELSE s[1]
        /\ \A k \in 1..m : next'[s[k]] = IF k = m THEN 0 ELSE s[k + 1]
    BY <1>4, <1>6, <1>8, <2>1
  <2>3. \A k \in 1..MaxMounts : Walk(head', next')[k] = IF k <= m THEN s[k] ELSE 0
    BY <2>2, WalkAlong
  <2> QED
    BY <2>1, <2>3, NodeWalkNext DEF NodeWalks
<1>10. /\ \A k \in 1..(n + 1) : Node'[k] = s[k]
       /\ \A k \in 1..MaxMounts : k > n + 1 => Node'[k] = 0
  BY <1>0, <1>9
<1>11. Listing(n + 1)'
  <2>1. n + 1 # 0 /\ 1 \in 1..(n + 1) /\ n + 1 \in 1..(n + 1)
    BY <1>0
  <2>2. \A k \in 1..(n + 1) : k # n + 1 => k + 1 \in 1..(n + 1)
    BY <1>0
  <2>3. \A k \in 1..(n + 1) : k # 1 => k - 1 \in 1..(n + 1)
    BY <1>0
  <2>4. \A k \in 1..(n + 1) : Node'[k] \in 1..Len(letter')
    BY <1>0, <1>4, <1>10
  <2>5. \A j, k \in 1..(n + 1) : Node'[j] = Node'[k] => j = k
    BY <1>4, <1>10
  <2>6. \A k \in 1..(n + 1) : next'[Node'[k]] = IF k = n + 1 THEN 0 ELSE Node'[k + 1]
    BY <1>6, <1>10, <2>2
  <2>7. \A k \in 1..(n + 1) : prev'[Node'[k]] = IF k = 1 THEN 0 ELSE Node'[k - 1]
    BY <1>7, <1>10, <2>3
  <2>8. head' = Node'[1] /\ Node'[n + 1] = IF tail' = 0 THEN head' ELSE tail'
    BY <1>8, <1>10, <2>1
  <2> QED
    BY <1>10, <2>1, <2>4, <2>5, <2>6, <2>7, <2>8 DEF Listing
<1>12. /\ next' \in [Systems -> 0..f] /\ prev' \in [Systems -> 0..f]
       /\ head' \in 0..f /\ tail' \in 0..f
  <2>1. \A i \in 0..L : i \in 0..f
    BY <1>0
  <2>2. f \in 0..f /\ 0 \in 0..f
    BY <1>0
  <2>3. CASE n = 0
    BY <1>2, <1>3, <2>1, <2>2, <2>3
  <2>4. CASE n # 0
    <3>1. Node[n] \in 0..f
      BY <1>0, <1>1, <2>4
    <3> HIDE DEF f
    <3> QED
      BY <1>2, <1>3, <2>1, <2>2, <2>4, <3>1
  <2> QED
    BY <2>3, <2>4
<1>13. Fresh'
  <2> SUFFICES ASSUME NEW g \in Systems, g > f PROVE next'[g] = 0 /\ prev'[g] = 0
    BY <1>0 DEF Fresh
  <2>1. next[g] = 0 /\ prev[g] = 0 /\ g # f
    BY <1>0 DEF Fresh, L, Systems
  <2>2. n = 0 \/ Node[n] # g
    BY <1>0, <1>1 DEF Systems
  <2> QED
    BY <1>2, <1>3, <2>1, <2>2
<1> QED
  BY <1>0, <1>4, <1>10, <1>11, <1>12, <1>13 DEF L

\* list_remove of an inner node: its neighbours are joined.
LEMMA Removed ==
  ASSUME TypeOK, Fresh, NEW n \in 0..Len(letter), Listing(n),
         NEW j \in 1..n, NEW f, f = Node[j], HasNeighbours(f), ListRemove(f)
  PROVE  /\ j # 1 /\ j # n /\ n - 1 \in 0..Len(letter) /\ Fresh' /\ Listing(n - 1)'
         /\ \A k \in 1..(n - 1) : Node'[k] = IF k < j THEN Node[k] ELSE Node[k + 1]
         /\ next' \in [Systems -> 0..Len(letter)] /\ prev' \in [Systems -> 0..Len(letter)]
<1> DEFINE L == Len(letter)
           s == [k \in 1..(n - 1) |-> IF k < j THEN Node[k] ELSE Node[k + 1]]
<1>0. /\ L \in Nat /\ n \in Nat /\ n <= L /\ MaxMounts \in Nat /\ j \in Nat /\ n \in 0..MaxMounts
      /\ 0 \notin Systems /\ L <= MaxMounts
  BY TypeNow, NotFile
<1>1. /\ \A k \in 1..n : Node[k] \in 1..L /\ Node[k] # 0 /\ Node[k] \in Systems
      /\ \A i, k \in 1..n : Node[i] = Node[k] => i = k
      /\ \A k \in 1..n : /\ next[Node[k]] = (IF k = n THEN 0 ELSE Node[k + 1])
                         /\ prev[Node[k]] = (IF k = 1 THEN 0 ELSE Node[k - 1])
      /\ head = IF n = 0 THEN 0 ELSE Node[1]
      /\ IF n = 0 THEN tail = 0 ELSE Node[n] = IF tail = 0 THEN head ELSE tail
  BY <1>0 DEF Listing, Systems
<1>2. /\ next \in [Systems -> 0..L] /\ prev \in [Systems -> 0..L] /\ head' = head /\ tail' = tail
      /\ letter' = letter
  BY DEF TypeOK, ListRemove
<1> HIDE DEF L
<1>3. /\ j # 1 /\ j # n /\ next[f] = Node[j + 1] /\ prev[f] = Node[j - 1]
  BY <1>1 DEF HasNeighbours
<1>4. /\ j - 1 \in 1..n /\ j + 1 \in 1..n /\ n - 1 \in Nat /\ n - 1 \in 1..n /\ n - 1 # 0
      /\ (n - 1) + 1 = n /\ n - 1 \in 0..MaxMounts /\ j <= n - 1 /\ 1 < j
  BY <1>0, <1>3
<1>5. /\ next' = [next EXCEPT ![Node[j - 1]] = Node[j + 1]]
      /\ prev' = [prev EXCEPT ![Node[j + 1]] = Node[j - 1]]
  BY <1>3 DEF ListRemove, BackLinks
<1>6. \A k \in 1..(n - 1) :
        /\ k \in 1..n /\ k + 1 \in 1..n /\ k # n
        /\ k = n - 1 \/ (k # n - 1 /\ k + 1 # n /\ k + 1 \in 1..(n - 1) /\ (k + 1) + 1 \in 1..n)
        /\ k = 1 \/ (k # 1 /\ k - 1 \in 1..(n - 1) /\ k - 1 \in 1..n /\ (k - 1) + 1 = k /\ (k + 1) - 1 = k)
  BY <1>0, <1>4
<1>7. /\ \A k \in 1..(n - 1) : s[k] \in 1..L /\ s[k] # 0 /\ s[k] \in Systems /\ s[k] # f
      /\ \A k \in 1..(n - 1) : k < j => s[k] = Node[k]
      /\ \A k \in 1..(n - 1) : ~(k < j) => s[k] = Node[k + 1]
  BY <1>0, <1>1, <1>6
<1>8. \A i, k \in 1..(n - 1) : s[i] = s[k] => i = k
  BY <1>0, <1>1, <1>6, <1>7
\* Both links of a node that stays, the joined neighbours included.
<1>9. /\ next'[Node[j - 1]] = Node[j + 1]
      /\ \A k \in 1..n : k # j - 1 => next'[Node[k]] = next[Node[k]]
      /\ prev'[Node[j + 1]] = Node[j - 1]
      /\ \A k \in 1..n : k # j + 1 => prev'[Node[k]] = prev[Node[k]]
  BY <1>1, <1>2, <1>4, <1>5
<1> HIDE DEF s
<1>10. \A k \in 1..(n - 1) : next'[s[k]] = IF k = n - 1 THEN 0 ELSE s[k + 1]
  <2> SUFFICES ASSUME NEW k \in 1..(n - 1)
               PROVE  next'[s[k]] = IF k = n - 1 THEN 0 ELSE s[k + 1]
    OBVIOUS
  <2>1. CASE k < j - 1
    <3>1. k < j /\ k # j - 1 /\ k # n - 1 /\ k + 1 < j /\ k # n /\ k \in 1..n /\ k + 1 \in 1..(n - 1)
      BY <1>0, <1>4, <2>1
    <3>2. next'[Node[k]] = Node[k + 1]
      BY <1>1, <1>9, <3>1
    <3>3. s[k] = Node[k] /\ s[k + 1] = Node[k + 1]
      BY <1>7, <3>1
    <3> QED
      BY <3>1, <3>2, <3>3
  <2>2. CASE k = j - 1
    <3>1. k < j /\ k + 1 = j /\ ~(k + 1 < j) /\ k # n - 1
      BY <1>0, <1>4, <2>2
    <3> QED
      BY <1>6, <1>7, <1>9, <2>2, <3>1
  <2>3. CASE k > j - 1
    <3>1. ~(k < j) /\ k + 1 # j - 1 /\ ~(k + 1 < j) /\ (k = n - 1 <=> k + 1 = n)
      BY <1>0, <1>4, <2>3
    <3>2. next'[Node[k + 1]] = IF k + 1 = n THEN 0 ELSE Node[(k + 1) + 1]
      BY <1>1, <1>6, <1>9, <3>1
    <3> QED
      BY <1>6, <1>7, <3>1, <3>2
  <2> QED
    BY <1>0, <2>1, <2>2, <2>3
<1>11. \A k \in 1..(n - 1) : prev'[s[k]] = IF k = 1 THEN 0 ELSE s[k - 1]
  <2> SUFFICES ASSUME NEW k \in 1..(n - 1)
               PROVE  prev'[s[k]] = IF k = 1 THEN 0 ELSE s[k - 1]
    OBVIOUS
  <2>1. CASE k < j
    <3>1. k # j + 1 /\ k - 1 < j
      BY <1>0, <2>1
    <3> QED
      BY <1>1, <1>6, <1>7, <1>9, <2>1, <3>1
  <2>2. CASE k = j
    <3>1. ~(k < j) /\ k - 1 < j /\ k # 1 /\ k + 1 = j + 1 /\ k - 1 = j - 1
      BY <1>0, <1>4, <2>2
    <3> QED
      BY <1>6, <1>7, <1>9, <3>1
  <2>3. CASE k > j
    <3>1. /\ ~(k < j) /\ ~(k - 1 < j) /\ k # 1 /\ k + 1 # j + 1 /\ k + 1 # 1
          /\ k + 1 \in 1..n /\ (k + 1) - 1 = k /\ (k - 1) + 1 = k /\ k - 1 \in 1..(n - 1)
      BY <1>0, <1>4, <2>3
    <3>2. prev'[Node[k + 1]] = Node[k]
      BY <1>1, <1>9, <3>1
    <3>3. s[k] = Node[k + 1] /\ s[k - 1] = Node[k]
      BY <1>7, <3>1
    <3> QED
      BY <3>1, <3>2, <3>3
  <2> QED
    BY <1>0, <2>1, <2>2, <2>3
<1>12. head' = s[1] /\ s[n - 1] = IF tail' = 0 THEN head' ELSE tail'
  <2>1. 1 \in 1..(n - 1) /\ n - 1 \in 1..(n - 1) /\ 1 < j /\ ~(n - 1 < j) /\ n # 0
    BY <1>0, <1>4
  <2> QED
    BY <1>1, <1>2, <1>4, <1>7, <2>1
<1>13. \A k \in 1..MaxMounts : Node'[k] = IF k <= n - 1 THEN s[k] ELSE 0
  <2>1. PICK m \in 0..MaxMounts : m = n - 1 /\ m # 0
    BY <1>4
  <2>2. /\ \A k \in 1..m : s[k] # 0
        /\ head' = IF m = 0 THEN 0 ELSE s[1]
        /\ \A k \in 1..m : next'[s[k]] = IF k = m THEN 0 ELSE s[k + 1]
    BY <1>7, <1>10, <1>12, <2>1
  <2>3. \A k \in 1..MaxMounts : Walk(head', next')[k] = IF k <= m THEN s[k] ELSE 0
    BY <2>2, WalkAlong
  <2> QED
    BY <2>1, <2>3, NodeWalkNext DEF NodeWalks
<1>14. /\ \A k \in 1..(n - 1) : Node'[k] = s[k]
       /\ \A k \in 1..MaxMounts : k > n - 1 => Node'[k] = 0
  BY <1>0, <1>4, <1>13
<1>15. Listing(n - 1)'
  <2>1. n - 1 # 0 /\ 1 \in 1..(n - 1) /\ n - 1 \in 1..(n - 1)
    BY <1>4
  <2>2. \A k \in 1..(n - 1) : k # n - 1 => k + 1 \in 1..(n - 1)
    BY <1>6
  <2>3. \A k \in 1..(n - 1) : k # 1 => k - 1 \in 1..(n - 1)
    BY <1>6
  <2>4. \A k \in 1..(n - 1) : Node'[k] \in 1..Len(letter')
    BY <1>2, <1>7, <1>14 DEF L
  <2>5. \A i, k \in 1..(n - 1) : Node'[i] = Node'[k] => i = k
    BY <1>8, <1>14
  <2>6. \A k \in 1..(n - 1) : next'[Node'[k]] = IF k = n - 1 THEN 0 ELSE Node'[k + 1]
    BY <1>10, <1>14, <2>2
  <2>7. \A k \in 1..(n - 1) : prev'[Node'[k]] = IF k = 1 THEN 0 ELSE Node'[k - 1]
    BY <1>11, <1>14, <2>3
  <2>8. head' = Node'[1] /\ Node'[n - 1] = IF tail' = 0 THEN head' ELSE tail'
    BY <1>12, <1>14, <2>1
  <2> QED
    BY <1>14, <2>1, <2>4, <2>5, <2>6, <2>7, <2>8 DEF Listing
<1>16. next' \in [Systems -> 0..L] /\ prev' \in [Systems -> 0..L]
  <2>1. Node[j - 1] \in 0..L /\ Node[j + 1] \in 0..L
    BY <1>0, <1>1, <1>4
  <2> QED
    BY <1>2, <1>5, <2>1
<1>17. Fresh'
  <2> SUFFICES ASSUME NEW g \in Systems, g > L PROVE next'[g] = 0 /\ prev'[g] = 0
    BY <1>2 DEF Fresh, L
  <2>1. next[g] = 0 /\ prev[g] = 0
    BY DEF Fresh, L
  <2>2. Node[j - 1] # g /\ Node[j + 1] # g
    BY <1>0, <1>1, <1>4 DEF Systems
  <2> QED
    BY <1>2, <1>5, <2>1, <2>2
<1>18. \A k \in 1..(n - 1) : Node'[k] = IF k < j THEN Node[k] ELSE Node[k + 1]
  BY <1>7, <1>14
<1> QED
  BY <1>0, <1>3, <1>4, <1>15, <1>16, <1>17, <1>18 DEF L

\* list_get: the first node with the letter.
LEMMA Found ==
  ASSUME TypeOK, NEW n \in 0..Len(letter), Listing(n), NEW l, GetFs(l) # 0
  PROVE  \E j \in 1..n : /\ Node[j] = GetFs(l) /\ letter[Node[j]] = l
                         /\ \A k \in 1..n : k < j => letter[Node[k]] # l
<1>1. Listed = 1..n
  BY ListNow
<1>2. Named(l) # {} /\ Named(l) \subseteq Nat /\ Named(l) \subseteq 1..n
  BY <1>1 DEF GetFs, Named
<1> DEFINE j == CHOOSE k \in Named(l) : \A i \in Named(l) : k <= i
<1>3. \E k \in Named(l) : \A i \in Named(l) : k <= i
  BY <1>2, Least
<1>4. j \in Named(l) /\ \A i \in Named(l) : j <= i
  BY <1>3
<1>5. GetFs(l) = Node[j]
  BY <1>2 DEF GetFs
<1> HIDE DEF j
<1>6. j \in 1..n /\ letter[Node[j]] = l
  BY <1>2, <1>4 DEF Named
<1>7. \A k \in 1..n : k < j => letter[Node[k]] # l
  <2> SUFFICES ASSUME NEW k \in 1..n, k < j, letter[Node[k]] = l PROVE FALSE
    OBVIOUS
  <2>1. k \in Named(l)
    BY <1>1 DEF Named
  <2> QED
    BY <1>4, <1>6, <2>1
<1> QED
  BY <1>5, <1>6, <1>7
-----------------------------------------------------------------------------
(* The table of open files *)

\* vfs_close of some slots in use.
LEMMA Cleared ==
  ASSUME TypeOK, SlotInv, ObjectInv, NEW S \in SUBSET Slots, \A i \in S : Used(i), ClearSlots(S)
  PROVE  /\ vfs_open_files' \in [Slots -> Files \cup {NoFile}]
         /\ opened' \in [Objects -> Opened \cup {NotOpen}]
         /\ \A i \in Slots : Used(i)' <=> Used(i) /\ i \notin S
         /\ \A i \in Slots \ S : Used(i) =>
              /\ vfs_open_files'[i] = vfs_open_files[i]
              /\ opened'[vfs_open_files[i].file] = opened[vfs_open_files[i].file]
         /\ SlotInv' /\ ObjectInv'
<1>0. /\ opened \in [Objects -> Opened \cup {NotOpen}]
      /\ vfs_open_files \in [Slots -> Files \cup {NoFile}]
      /\ \A i \in Slots : Used(i) => vfs_open_files[i] \in Files
  BY TypeNow
<1>1. /\ vfs_open_files' = [i \in Slots |-> IF i \in S THEN NoFile ELSE vfs_open_files[i]]
      /\ opened' = [o \in Objects |->
           IF \E i \in S : vfs_open_files[i].file = o THEN NotOpen ELSE opened[o]]
  BY DEF ClearSlots
<1>2. vfs_open_files' \in [Slots -> Files \cup {NoFile}] /\ opened' \in [Objects -> Opened \cup {NotOpen}]
  BY <1>0, <1>1
<1>3. NoFile.fd = 0
  BY DEF NoFile
<1>4. /\ \A i \in S : vfs_open_files'[i] = NoFile
      /\ \A i \in Slots \ S : vfs_open_files'[i] = vfs_open_files[i]
  BY <1>1
<1>5. \A i \in Slots : Used(i)' <=> Used(i) /\ i \notin S
  BY <1>3, <1>4 DEF Used
<1>6. \A i \in Slots \ S : Used(i) =>
        /\ vfs_open_files[i].file \in Objects
        /\ opened'[vfs_open_files[i].file] = opened[vfs_open_files[i].file]
  <2> SUFFICES ASSUME NEW i \in Slots \ S, Used(i)
               PROVE  /\ vfs_open_files[i].file \in Objects
                      /\ opened'[vfs_open_files[i].file] = opened[vfs_open_files[i].file]
    OBVIOUS
  <2>1. vfs_open_files[i].file \in Objects
    BY <1>0 DEF Files
  <2>2. ~ \E k \in S : vfs_open_files[k].file = vfs_open_files[i].file
    BY DEF ObjectInv
  <2> QED
    BY <1>1, <2>1, <2>2
<1>7. SlotInv'
  BY <1>4, <1>5, <1>6 DEF SlotInv
<1>8. ObjectInv'
  <2>1. \A i, j \in Slots :
          Used(i)' /\ Used(j)' /\ vfs_open_files'[i].file = vfs_open_files'[j].file => i = j
    BY <1>4, <1>5 DEF ObjectInv
  <2>2. \A o \in Objects : opened'[o] # NotOpen =>
          \E i \in Slots : Used(i)' /\ vfs_open_files'[i].file = o
    <3> SUFFICES ASSUME NEW o \in Objects, opened'[o] # NotOpen
                 PROVE  \E i \in Slots : Used(i)' /\ vfs_open_files'[i].file = o
      OBVIOUS
    <3>1. opened[o] # NotOpen /\ ~ \E i \in S : vfs_open_files[i].file = o
      BY <1>1
    <3>2. PICK i \in Slots : Used(i) /\ vfs_open_files[i].file = o
      BY <3>1 DEF ObjectInv
    <3> QED
      BY <1>4, <1>5, <3>1, <3>2
  <2> QED
    BY <2>1, <2>2 DEF ObjectInv
<1> QED
  BY <1>2, <1>4, <1>5, <1>6, <1>7, <1>8

\* vfs_open takes the clear slot x and a new object.
TakesSlot(p, o, f, x) ==
  /\ opened' = [opened EXCEPT ![o] = [drive |-> f, path |-> p]]
  /\ vfs_open_files' = [vfs_open_files EXCEPT ![x] =
       [fd |-> x + FILES_FD_BASE, file |-> o, fs |-> f, hash |-> Hash[p]]]

LEMMA OpenedNow ==
  ASSUME TypeOK, SlotInv, ObjectInv, NEW p \in Paths, NEW o \in Objects, NEW f \in Systems,
         NEW x \in Slots, ~Used(x), opened[o] = NotOpen, TakesSlot(p, o, f, x)
  PROVE  /\ vfs_open_files' \in [Slots -> Files \cup {NoFile}]
         /\ opened' \in [Objects -> Opened \cup {NotOpen}]
         /\ \A i \in Slots : Used(i)' <=> Used(i) \/ i = x
         /\ \A i \in Slots : Used(i) => /\ vfs_open_files'[i] = vfs_open_files[i]
                                        /\ opened'[vfs_open_files[i].file] = opened[vfs_open_files[i].file]
         /\ vfs_open_files'[x].fs = f /\ vfs_open_files'[x].file = o
         /\ SlotInv' /\ ObjectInv'
<1> DEFINE F == [fd |-> x + FILES_FD_BASE, file |-> o, fs |-> f, hash |-> Hash[p]]
           O == [drive |-> f, path |-> p]
<1>0. /\ opened \in [Objects -> Opened \cup {NotOpen}]
      /\ vfs_open_files \in [Slots -> Files \cup {NoFile}]
      /\ \A i \in Slots : Used(i) => vfs_open_files[i] \in Files
  BY TypeNow
<1>1. /\ F \in Files /\ F.fd = x + FILES_FD_BASE /\ F.fd # 0 /\ F.file = o /\ F.fs = f /\ F.hash = Hash[p]
      /\ O \in Opened /\ O # NotOpen /\ O.drive = f /\ O.path = p
  <2>1. x + FILES_FD_BASE \in Handles /\ Hash[p] \in {Hash[q] : q \in Paths}
    BY DEF Handles
  <2> QED
    BY <2>1, NotFile DEF Files, Opened
<1> HIDE DEF F, O
<1>2. opened' = [opened EXCEPT ![o] = O] /\ vfs_open_files' = [vfs_open_files EXCEPT ![x] = F]
  BY DEF F, O, TakesSlot
<1>3. vfs_open_files' \in [Slots -> Files \cup {NoFile}] /\ opened' \in [Objects -> Opened \cup {NotOpen}]
  BY <1>0, <1>1, <1>2
<1>4. /\ vfs_open_files'[x] = F /\ opened'[o] = O
      /\ \A i \in Slots : i # x => vfs_open_files'[i] = vfs_open_files[i]
      /\ \A q \in Objects : q # o => opened'[q] = opened[q]
  BY <1>0, <1>2
<1>5. \A i \in Slots : Used(i)' <=> Used(i) \/ i = x
  BY <1>1, <1>4 DEF Used
\* An object of a slot in use is open, so it is not the new one.
<1>6. \A i \in Slots : Used(i) =>
        /\ i # x /\ vfs_open_files[i].file \in Objects /\ vfs_open_files[i].file # o
  BY <1>0 DEF SlotInv, Files
<1>7. SlotInv'
  <2> SUFFICES ASSUME NEW i \in Slots, Used(i)'
               PROVE  /\ vfs_open_files'[i].fd = i + FILES_FD_BASE
                      /\ opened'[vfs_open_files'[i].file] # NotOpen
                      /\ opened'[vfs_open_files'[i].file].drive = vfs_open_files'[i].fs
                      /\ Hash[opened'[vfs_open_files'[i].file].path] = vfs_open_files'[i].hash
    BY DEF SlotInv
  <2>1. CASE i = x
    BY <1>1, <1>4, <2>1
  <2>2. CASE i # x
    BY <1>4, <1>5, <1>6, <2>2 DEF SlotInv
  <2> QED
    BY <2>1, <2>2
<1>8. ObjectInv'
  <2>1. \A i, j \in Slots :
          Used(i)' /\ Used(j)' /\ vfs_open_files'[i].file = vfs_open_files'[j].file => i = j
    BY <1>1, <1>4, <1>5, <1>6 DEF ObjectInv
  <2>2. \A q \in Objects : opened'[q] # NotOpen =>
          \E i \in Slots : Used(i)' /\ vfs_open_files'[i].file = q
    <3> SUFFICES ASSUME NEW q \in Objects, opened'[q] # NotOpen
                 PROVE  \E i \in Slots : Used(i)' /\ vfs_open_files'[i].file = q
      OBVIOUS
    <3>1. CASE q = o
      BY <1>1, <1>4, <1>5, <3>1
    <3>2. CASE q # o
      <4>1. PICK i \in Slots : Used(i) /\ vfs_open_files[i].file = q
        BY <1>4, <3>2 DEF ObjectInv
      <4> QED
        BY <1>4, <1>5, <1>6, <4>1
    <3> QED
      BY <3>1, <3>2
  <2> QED
    BY <2>1, <2>2 DEF ObjectInv
<1> QED
  BY <1>1, <1>3, <1>4, <1>5, <1>6, <1>7, <1>8
-----------------------------------------------------------------------------
(* The steps *)

LEMMA InitInd == Init => IndInv
<1> SUFFICES ASSUME Init PROVE IndInv
  OBVIOUS
<1>1. /\ letter = << >> /\ head = 0 /\ tail = 0
      /\ next = [f \in Systems |-> 0] /\ prev = [f \in Systems |-> 0]
      /\ vfs_open_files = [i \in Slots |-> NoFile] /\ opened = [o \in Objects |-> NotOpen]
      /\ reached = NotOpen /\ halted = FALSE
  BY DEF Init
<1>2. Len(letter) = 0 /\ letter \in Seq(Letters) /\ MaxMounts \in Nat /\ 0 \in 0..MaxMounts
  BY <1>1, VfsAssumption
<1>3. TypeOK
  <2>1. next \in [Systems -> 0..Len(letter)] /\ prev \in [Systems -> 0..Len(letter)]
    BY <1>1, <1>2
  <2>2. /\ vfs_open_files \in [Slots -> Files \cup {NoFile}]
        /\ opened \in [Objects -> Opened \cup {NotOpen}]
    BY <1>1
  <2>3. head \in 0..Len(letter) /\ tail \in 0..Len(letter) /\ Len(letter) <= MaxMounts
    BY <1>1, <1>2
  <2>4. halted \in BOOLEAN /\ reached \in Opened \cup {NotOpen}
    BY <1>1
  <2> QED
    BY <1>2, <2>1, <2>2, <2>3, <2>4 DEF TypeOK, Files, Opened
<1>4. \A i \in Slots : ~Used(i)
  BY <1>1 DEF Used, NoFile
<1>5. Fresh
  BY <1>1 DEF Fresh
<1>6. \A k \in 1..MaxMounts : Node[k] = 0
  <2> DEFINE s == << >>
  <2>1. PICK n \in 0..MaxMounts : n = 0
    BY <1>2
  <2>2. \A k \in 1..n : k \in {}
    BY <2>1
  <2>3. /\ \A k \in 1..n : s[k] # 0
        /\ head = IF n = 0 THEN 0 ELSE s[1]
        /\ \A k \in 1..n : next[s[k]] = IF k = n THEN 0 ELSE s[k + 1]
    BY <1>1, <2>1, <2>2
  <2> HIDE DEF s
  <2>4. \A k \in 1..MaxMounts : Walk(head, next)[k] = IF k <= n THEN s[k] ELSE 0
    BY <2>3, WalkAlong
  <2>5. \A k \in 1..MaxMounts : ~(k <= n)
    BY <1>2, <2>1
  <2> QED
    BY <2>4, <2>5, NodeWalk DEF NodeWalks
<1>7. Listing(0)
  BY <1>1, <1>6 DEF Listing
<1> QED
  BY <1>1, <1>2, <1>3, <1>4, <1>5, <1>7 DEF IndInv, ListInv, SlotInv, MountedInv, ObjectInv

\* The part of the type invariant that a step which leaves the list alone keeps.
LEMMA TypeKept ==
  ASSUME TypeOK, UNCHANGED list,
         vfs_open_files' \in [Slots -> Files \cup {NoFile}],
         opened' \in [Objects -> Opened \cup {NotOpen}],
         reached' \in Opened \cup {NotOpen}, halted' \in BOOLEAN
  PROVE  TypeOK'
  BY DEF TypeOK, list, Files, Opened

LEMMA MountInd == IndInv /\ Mount => IndInv'
<1> SUFFICES ASSUME IndInv, Mount PROVE IndInv'
  OBVIOUS
<1>1. /\ TypeOK /\ Fresh /\ SlotInv /\ MountedInv /\ ObjectInv
      /\ \E n \in 0..Len(letter) : Listing(n)
  BY DEF IndInv, ListInv
<1>2. PICK n \in 0..Len(letter) : Listing(n)
  BY <1>1
<1>3. PICK l \in Letters :
        /\ Len(letter) < MaxMounts /\ letter' = Append(letter, l) /\ ListAdd(Len(letter'))
        /\ UNCHANGED <<vfs_open_files, opened, reached, halted>>
  BY DEF Mount
<1>4. /\ Fresh' /\ n + 1 \in 0..Len(letter') /\ Listing(n + 1)'
      /\ \A k \in 1..n : Node'[k] = Node[k]
      /\ next' \in [Systems -> 0..Len(letter')] /\ prev' \in [Systems -> 0..Len(letter')]
      /\ head' \in 0..Len(letter') /\ tail' \in 0..Len(letter')
  BY <1>1, <1>2, <1>3, Added
<1>5. letter' \in Seq(Letters) /\ Len(letter') <= MaxMounts
  <2>1. letter \in Seq(Letters) /\ Len(letter) \in Nat /\ MaxMounts \in Nat
    BY <1>1, TypeNow
  <2>2. letter' \in Seq(Letters) /\ Len(letter') = Len(letter) + 1
    BY <1>3, <2>1
  <2> QED
    BY <1>3, <2>1, <2>2
<1>6. TypeOK'
  BY <1>1, <1>3, <1>4, <1>5 DEF TypeOK
<1>7. ListInv'
  BY <1>4 DEF ListInv
<1>8. \A f \in Systems : InList(f) => InList(f)'
  <2> SUFFICES ASSUME NEW f \in Systems, InList(f) PROVE InList(f)'
    OBVIOUS
  <2>1. PICK k \in 1..n : Node[k] = f /\ k \in 1..MaxMounts
    BY <1>1, <1>2, ListNow
  <2> QED
    BY <1>4, <2>1 DEF InList
<1>9. \A i \in Slots : Used(i) => vfs_open_files[i].fs \in Systems
  BY <1>1, TypeNow DEF Files
<1>10. SlotInv' /\ ObjectInv'
  BY <1>1, <1>3 DEF SlotInv, ObjectInv, Used
<1>11. MountedInv'
  <2>1. \A i \in Slots : (Used(i)' <=> Used(i)) /\ vfs_open_files'[i].fs = vfs_open_files[i].fs
    BY <1>3 DEF Used
  <2>2. \A i \in Slots, f \in Systems : Used(i) /\ vfs_open_files[i].fs = f => InList(f)'
    BY <1>1, <1>8 DEF MountedInv
  <2> QED
    BY <1>9, <2>1, <2>2 DEF MountedInv, InList
<1> QED
  BY <1>6, <1>7, <1>10, <1>11 DEF IndInv

\* The slots of a mounted file system are in use.
LEMMA FilesOfUsed ==
  ASSUME TypeOK, NEW f \in Systems
  PROVE  FilesOf(f) \in SUBSET Slots /\ \A i \in FilesOf(f) : Used(i)
<1>1. NoFile.fs = 0
  BY DEF NoFile
<1> QED
  BY <1>1, NotFile, TypeNow DEF FilesOf

\* list_get of a drive that is mounted.
LEMMA FoundMounted ==
  ASSUME TypeOK, NEW n \in 0..Len(letter), Listing(n), NEW l, GetFs(l) # 0
  PROVE  GetFs(l) \in Systems /\ InList(GetFs(l))
<1>1. PICK j \in 1..n : Node[j] = GetFs(l)
  BY Found
<1> QED
  BY <1>1, ListNow DEF InList

LEMMA UnmountInd == IndInv /\ Unmount => IndInv'
<1> SUFFICES ASSUME IndInv, Unmount PROVE IndInv'
  OBVIOUS
<1>1. /\ TypeOK /\ Fresh /\ ListInv /\ SlotInv /\ MountedInv /\ ObjectInv
      /\ \E n \in 0..Len(letter) : Listing(n)
  BY DEF IndInv, ListInv
<1>2. PICK n \in 0..Len(letter) : Listing(n)
  BY <1>1
<1>3. PICK l \in Letters :
        /\ GetFs(l) # 0
        /\ IF HasNeighbours(GetFs(l))
           THEN ClearSlots(FilesOf(GetFs(l))) /\ ListRemove(GetFs(l)) /\ UNCHANGED <<reached, halted>>
           ELSE halted' = TRUE /\ UNCHANGED <<list, vfs_open_files, opened, reached>>
  BY DEF Unmount
<1>4. PICK f : f = GetFs(l)
  OBVIOUS
<1>5. PICK j \in 1..n : Node[j] = f
  BY <1>1, <1>2, <1>3, <1>4, Found
<1>6. f \in Systems
  BY <1>1, <1>2, <1>3, <1>4, FoundMounted
<1>7. CASE HasNeighbours(f)
  <2>1. ClearSlots(FilesOf(f)) /\ ListRemove(f) /\ UNCHANGED <<reached, halted>> /\ letter' = letter
        /\ head' = head /\ tail' = tail
    BY <1>3, <1>4, <1>7 DEF ListRemove
  <2>2. /\ n - 1 \in 0..Len(letter) /\ Fresh' /\ Listing(n - 1)'
        /\ \A k \in 1..(n - 1) : Node'[k] = IF k < j THEN Node[k] ELSE Node[k + 1]
        /\ next' \in [Systems -> 0..Len(letter)] /\ prev' \in [Systems -> 0..Len(letter)]
    BY <1>1, <1>2, <1>5, <1>7, <2>1, Removed
  <2>3. FilesOf(f) \in SUBSET Slots /\ \A i \in FilesOf(f) : Used(i)
    BY <1>1, <1>6, FilesOfUsed
  <2>4. /\ vfs_open_files' \in [Slots -> Files \cup {NoFile}]
        /\ opened' \in [Objects -> Opened \cup {NotOpen}]
        /\ \A i \in Slots : Used(i)' <=> Used(i) /\ i \notin FilesOf(f)
        /\ \A i \in Slots \ FilesOf(f) : Used(i) => vfs_open_files'[i] = vfs_open_files[i]
        /\ SlotInv' /\ ObjectInv'
    BY <1>1, <2>1, <2>3, Cleared
  <2>5. TypeOK'
    BY <1>1, <2>1, <2>2, <2>4 DEF TypeOK, Files, Opened
  <2>6. ListInv'
    BY <2>1, <2>2 DEF ListInv
  <2>7. MountedInv'
    <3> SUFFICES ASSUME NEW i \in Slots, Used(i)' PROVE \E k \in 1..MaxMounts : Node'[k] = vfs_open_files'[i].fs
      BY DEF MountedInv, InList
    <3>1. /\ Used(i) /\ vfs_open_files'[i] = vfs_open_files[i]
          /\ vfs_open_files[i].fs # f /\ vfs_open_files[i].fs \in Systems /\ InList(vfs_open_files[i].fs)
      BY <1>1, <2>4, TypeNow DEF FilesOf, Files, MountedInv
    <3>2. PICK k \in 1..n : Node[k] = vfs_open_files[i].fs
      BY <1>1, <1>2, <3>1, ListNow
    <3>3. n \in Nat /\ MaxMounts \in Nat /\ n <= MaxMounts /\ k # j
      BY <1>1, <1>2, <1>5, <3>1, <3>2, TypeNow
    <3>4. CASE k < j
      <4>1. k \in 1..(n - 1) /\ k \in 1..MaxMounts
        BY <3>3, <3>4
      <4>2. Node'[k] = Node[k]
        BY <2>2, <3>4, <4>1
      <4> QED
        BY <3>1, <3>2, <4>1, <4>2
    <3>5. CASE k > j
      <4>1. PICK m \in 1..(n - 1) : m = k - 1 /\ m \in 1..MaxMounts /\ ~(m < j) /\ m + 1 = k
        BY <3>3, <3>5
      <4>2. Node'[m] = Node[k]
        BY <2>2, <4>1
      <4> QED
        BY <3>1, <3>2, <4>1, <4>2
    <3> QED
      BY <3>3, <3>4, <3>5
  <2> QED
    BY <2>4, <2>5, <2>6, <2>7 DEF IndInv
<1>8. CASE ~HasNeighbours(f)
  <2>1. halted' = TRUE /\ UNCHANGED <<list, vfs_open_files, opened, reached>>
    BY <1>3, <1>4, <1>8
  <2>2. TypeOK'
    BY <1>1, <2>1 DEF TypeOK, list
  <2>3. ListInv' /\ \A g : InList(g)' <=> InList(g)
    BY <1>1, <2>1, ListSame
  <2>4. SlotInv' /\ ObjectInv'
    BY <1>1, <2>1 DEF SlotInv, ObjectInv, Used
  <2>5. MountedInv'
    BY <1>1, <2>1, <2>3 DEF MountedInv, Used
  <2> QED
    BY <2>2, <2>3, <2>4, <2>5 DEF IndInv
<1> QED
  BY <1>7, <1>8

\* The slot that vfs_open takes is clear.
LEMMA FreeSlot ==
  ASSUME FreeSlots # {}
  PROVE  FreeIndex \in Slots /\ ~Used(FreeIndex)
<1>1. FreeSlots \subseteq Nat
  BY NotFile DEF FreeSlots
<1>2. \E i \in FreeSlots : \A j \in FreeSlots : i <= j
  BY <1>1, Least
<1>3. FreeIndex \in FreeSlots
  BY <1>2 DEF FreeIndex
<1> QED
  BY <1>3 DEF FreeSlots, Used

LEMMA OpenInd == IndInv /\ Open => IndInv'
<1> SUFFICES ASSUME IndInv, Open PROVE IndInv'
  OBVIOUS
<1>1. /\ TypeOK /\ Fresh /\ ListInv /\ SlotInv /\ MountedInv /\ ObjectInv
      /\ \E n \in 0..Len(letter) : Listing(n)
  BY DEF IndInv, ListInv
<1>2. PICK n \in 0..Len(letter) : Listing(n)
  BY <1>1
<1>3. PICK p \in Paths, o \in Objects :
        /\ GetFs(p.letter) # 0 /\ FreeSlots # {} /\ opened[o] = NotOpen
        /\ opened' = [opened EXCEPT ![o] = [drive |-> GetFs(p.letter), path |-> p]]
        /\ vfs_open_files' = [vfs_open_files EXCEPT ![FreeIndex] =
             [fd |-> FreeIndex + FILES_FD_BASE, file |-> o, fs |-> GetFs(p.letter), hash |-> Hash[p]]]
        /\ UNCHANGED <<list, reached, halted>>
  BY DEF Open
<1>4. PICK f \in Systems : f = GetFs(p.letter) /\ InList(f)
  BY <1>1, <1>2, <1>3, FoundMounted
<1>5. PICK x \in Slots : x = FreeIndex /\ ~Used(x)
  BY <1>3, FreeSlot
<1>6. TakesSlot(p, o, f, x)
  BY <1>3, <1>4, <1>5 DEF TakesSlot
<1>7. /\ vfs_open_files' \in [Slots -> Files \cup {NoFile}]
      /\ opened' \in [Objects -> Opened \cup {NotOpen}]
      /\ \A i \in Slots : Used(i)' <=> Used(i) \/ i = x
      /\ \A i \in Slots : Used(i) => /\ vfs_open_files'[i] = vfs_open_files[i]
                                     /\ opened'[vfs_open_files[i].file] = opened[vfs_open_files[i].file]
      /\ vfs_open_files'[x].fs = f /\ vfs_open_files'[x].file = o
      /\ SlotInv' /\ ObjectInv'
  BY <1>1, <1>3, <1>4, <1>5, <1>6, OpenedNow
<1>8. TypeOK'
  <2>1. reached' \in Opened \cup {NotOpen} /\ halted' \in BOOLEAN
    BY <1>1, <1>3 DEF TypeOK, Opened
  <2> QED
    BY <1>1, <1>3, <1>7, <2>1, TypeKept
<1>9. ListInv' /\ \A g : InList(g)' <=> InList(g)
  BY <1>1, <1>3, ListSame
<1>10. MountedInv'
  BY <1>1, <1>4, <1>7, <1>9 DEF MountedInv
<1> QED
  BY <1>7, <1>8, <1>9, <1>10 DEF IndInv

\* A handle names the one slot it was made of.
LEMMA SlotOfHandle ==
  ASSUME SlotInv, NEW fd \in Handles
  PROVE  /\ SlotsOf(fd) \in SUBSET Slots /\ \A i \in SlotsOf(fd) : Used(i) /\ i = fd - FILES_FD_BASE
  BY NotFile DEF SlotInv, SlotsOf, Used, Handles, FILES_FD_BASE

LEMMA CloseInd == IndInv /\ Close => IndInv'
<1> SUFFICES ASSUME IndInv, Close PROVE IndInv'
  OBVIOUS
<1>1. TypeOK /\ ListInv /\ SlotInv /\ MountedInv /\ ObjectInv
  BY DEF IndInv
<1>2. PICK fd \in Handles : ClearSlots(SlotsOf(fd)) /\ UNCHANGED <<list, reached, halted>>
  BY DEF Close
<1>3. SlotsOf(fd) \in SUBSET Slots /\ \A i \in SlotsOf(fd) : Used(i)
  BY <1>1, SlotOfHandle
<1>4. /\ vfs_open_files' \in [Slots -> Files \cup {NoFile}]
      /\ opened' \in [Objects -> Opened \cup {NotOpen}]
      /\ \A i \in Slots : Used(i)' <=> Used(i) /\ i \notin SlotsOf(fd)
      /\ \A i \in Slots \ SlotsOf(fd) : Used(i) => vfs_open_files'[i] = vfs_open_files[i]
      /\ SlotInv' /\ ObjectInv'
  BY <1>1, <1>2, <1>3, Cleared
<1>5. TypeOK'
  <2>1. reached' \in Opened \cup {NotOpen} /\ halted' \in BOOLEAN
    BY <1>1, <1>2 DEF TypeOK, Opened
  <2> QED
    BY <1>1, <1>2, <1>4, <2>1, TypeKept
<1>6. ListInv' /\ \A g : InList(g)' <=> InList(g)
  BY <1>1, <1>2, ListSame
<1>7. MountedInv'
  BY <1>1, <1>4, <1>6 DEF MountedInv
<1> QED
  BY <1>4, <1>5, <1>6, <1>7 DEF IndInv

LEMMA UseInd == IndInv /\ Use => IndInv'
<1> SUFFICES ASSUME IndInv, Use PROVE IndInv'
  OBVIOUS
<1>1. TypeOK /\ ListInv /\ SlotInv /\ MountedInv /\ ObjectInv
  BY DEF IndInv
<1>2. PICK fd \in Handles :
        /\ \/ \E i \in SlotsOf(fd) : reached' = opened[vfs_open_files[i].file]
           \/ reached' = NotOpen
        /\ UNCHANGED <<list, vfs_open_files, opened, halted>>
  BY DEF Use
<1>3. opened \in [Objects -> Opened \cup {NotOpen}] /\ vfs_open_files \in [Slots -> Files \cup {NoFile}]
  BY <1>1, TypeNow
<1>4. reached' \in Opened \cup {NotOpen}
  <2>1. \A i \in SlotsOf(fd) : i \in Slots /\ Used(i)
    BY <1>1, SlotOfHandle
  <2>2. \A i \in SlotsOf(fd) : vfs_open_files[i].file \in Objects
    BY <1>1, <2>1, TypeNow DEF Files
  <2> QED
    BY <1>2, <1>3, <2>2
<1>5. TypeOK'
  <2>1. halted' \in BOOLEAN
    BY <1>1, <1>2 DEF TypeOK
  <2> QED
    BY <1>1, <1>2, <1>3, <1>4, <2>1, TypeKept
<1>6. ListInv' /\ \A g : InList(g)' <=> InList(g)
  BY <1>1, <1>2, ListSame
<1>7. SlotInv' /\ ObjectInv'
  BY <1>1, <1>2 DEF SlotInv, ObjectInv, Used
<1>8. MountedInv'
  BY <1>1, <1>2, <1>6 DEF MountedInv, Used
<1> QED
  BY <1>5, <1>6, <1>7, <1>8 DEF IndInv

LEMMA StutterInd == IndInv /\ UNCHANGED vars => IndInv'
<1> SUFFICES ASSUME IndInv, UNCHANGED vars PROVE IndInv'
  OBVIOUS
<1>1. TypeOK /\ ListInv /\ SlotInv /\ MountedInv /\ ObjectInv
  BY DEF IndInv
<1>2. UNCHANGED list /\ UNCHANGED <<vfs_open_files, opened, reached, halted>>
  BY DEF vars
<1>3. TypeOK'
  BY <1>1, <1>2 DEF TypeOK, list
<1>4. ListInv' /\ \A g : InList(g)' <=> InList(g)
  BY <1>1, <1>2, ListSame
<1>5. SlotInv' /\ ObjectInv'
  BY <1>1, <1>2 DEF SlotInv, ObjectInv, Used
<1>6. MountedInv'
  BY <1>1, <1>2, <1>4 DEF MountedInv, Used
<1> QED
  BY <1>3, <1>4, <1>5, <1>6 DEF IndInv

LEMMA NextInd == IndInv /\ [Next]_vars => IndInv'
  BY MountInd, UnmountInd, OpenInd, CloseInd, UseInd, StutterInd DEF Next

LEMMA Invariance == Spec => []IndInv
<1>1. Init => IndInv
  BY InitInd
<1>2. IndInv /\ [Next]_vars => IndInv'
  BY NextInd
<1> QED
  BY <1>1, <1>2, PTL DEF Spec
-----------------------------------------------------------------------------
(* The linked list and the table implement drives and handles *)

Handle == [fd \in Handles |-> HandleOf(fd)]

\* What the mapping makes of a list of n nodes and of the slots.
DriveList(n) ==
  /\ DOMAIN MountedDrives = 1..n /\ Len(MountedDrives) = n /\ MountedDrives \in Seq([drive : Systems, letter : Letters])
  /\ \A k \in 1..n : MountedDrives[k] = [drive |-> Node[k], letter |-> letter[Node[k]]]

DrivesRule == TypeOK => \A n \in 0..Len(letter) : Listing(n) => DriveList(n)

HandleRule ==
  SlotInv => \A i \in Slots :
    Handle[i + FILES_FD_BASE] = IF Used(i) THEN opened[vfs_open_files[i].file] ELSE NotOpen

LEMMA DrivesMapped == DrivesRule
<1> SUFFICES ASSUME TypeOK, NEW n \in 0..Len(letter), Listing(n) PROVE DriveList(n)
  BY DEF DrivesRule
<1>1. Cardinality(Listed) = n /\ n \in Nat /\ \A k \in 1..n : Node[k] \in Systems
  BY ListNow
<1>2. MountedDrives = [k \in 1..n |-> [drive |-> Node[k], letter |-> letter[Node[k]]]]
  BY <1>1 DEF MountedDrives
<1>3. \A k \in 1..n : letter[Node[k]] \in Letters
  BY TypeNow DEF Listing
<1> QED
  BY <1>1, <1>2, <1>3 DEF DriveList

LEMMA DrivesMappedNext == DrivesRule'
  BY DrivesMapped, PTL

LEMMA HandlesMapped == HandleRule
<1> SUFFICES ASSUME SlotInv, NEW i \in Slots
             PROVE  Handle[i + FILES_FD_BASE] = IF Used(i) THEN opened[vfs_open_files[i].file] ELSE NotOpen
  BY DEF HandleRule
<1>1. PICK h \in Handles : h = i + FILES_FD_BASE
  BY DEF Handles
<1>2. Handle[h] = HandleOf(h)
  BY DEF Handle
<1>3. SlotsOf(h) = IF Used(i) THEN {i} ELSE {}
  <2>1. \A k \in SlotsOf(h) : Used(k) /\ k = h - FILES_FD_BASE /\ k \in Slots
    BY SlotOfHandle
  <2>2. i = h - FILES_FD_BASE
    BY <1>1, NotFile DEF FILES_FD_BASE
  <2>3. Used(i) => i \in SlotsOf(h)
    BY <1>1 DEF SlotInv, SlotsOf
  <2> QED
    BY <2>1, <2>2, <2>3
<1> QED
  BY <1>1, <1>2, <1>3 DEF HandleOf

LEMMA HandlesMappedNext == HandleRule'
  BY HandlesMapped, PTL

\* Every handle is that of one slot.
LEMMA HandleOfSlot ==
  /\ \A h \in Handles : h - FILES_FD_BASE \in Slots /\ (h - FILES_FD_BASE) + FILES_FD_BASE = h
  /\ \A i \in Slots : i + FILES_FD_BASE \in Handles
  BY NotFile DEF Handles, FILES_FD_BASE, Slots

LEMMA MountImplements ==
  ASSUME IndInv, IndInv', Mount
  PROVE  AbstractVfs!Next
<1>1. TypeOK /\ Fresh /\ SlotInv /\ TypeOK' /\ \E n \in 0..Len(letter) : Listing(n)
  BY DEF IndInv, ListInv
<1>2. PICK n \in 0..Len(letter) : Listing(n)
  BY <1>1
<1>3. PICK l \in Letters :
        /\ Len(letter) < MaxMounts /\ letter' = Append(letter, l) /\ ListAdd(Len(letter'))
        /\ UNCHANGED <<vfs_open_files, opened, reached, halted>>
  BY DEF Mount
<1>4. /\ n + 1 \in 0..Len(letter') /\ Listing(n + 1)'
      /\ \A k \in 1..n : Node'[k] = Node[k]
      /\ Node'[n + 1] = Len(letter) + 1
  BY <1>1, <1>2, <1>3, Added
<1>5. PICK m \in 0..Len(letter') : m = n + 1 /\ Listing(m)'
  BY <1>4
<1>6. DriveList(n)
  BY <1>1, <1>2, DrivesMapped DEF DrivesRule
<1>7. DriveList(m)'
  BY <1>1, <1>5, DrivesMappedNext DEF DrivesRule
<1>8. letter \in Seq(Letters) /\ Len(letter) \in Nat /\ MaxMounts \in Nat /\ n \in Nat
  BY <1>1, TypeNow
<1>9. PICK f \in Systems : f = Len(letter) + 1 /\ f \notin 1..Len(letter)
  BY <1>3, <1>8 DEF Systems
<1>10. \A k \in 1..n : MountedDrives[k].drive # f
  BY <1>2, <1>6, <1>9 DEF DriveList, Listing
<1>11. MountedDrives' = Append(MountedDrives, [drive |-> f, letter |-> l])
  <2> DEFINE d == [drive |-> f, letter |-> l]
  <2>1. /\ letter'[f] = l /\ \A i \in 1..Len(letter) : letter'[i] = letter[i]
    BY <1>3, <1>8, <1>9
  <2>2. \A k \in 1..n : MountedDrives'[k] = MountedDrives[k]
    <3> TAKE k \in 1..n
    <3>1. k \in 1..m /\ Node[k] \in 1..Len(letter)
      BY <1>2, <1>5, <1>8 DEF Listing
    <3>2. MountedDrives'[k] = [drive |-> Node'[k], letter |-> letter'[Node'[k]]]
      BY <1>7, <3>1 DEF DriveList
    <3>3. MountedDrives[k] = [drive |-> Node[k], letter |-> letter[Node[k]]]
      BY <1>6 DEF DriveList
    <3> QED
      BY <1>4, <2>1, <3>1, <3>2, <3>3
  <2>3. MountedDrives'[m] = d
    <3>1. m \in 1..m /\ Node'[m] = f
      BY <1>4, <1>5, <1>8, <1>9
    <3> QED
      BY <1>7, <2>1, <3>1 DEF DriveList
  <2>4. Len(MountedDrives) = n /\ MountedDrives \in Seq([drive : Systems, letter : Letters])
    BY <1>6 DEF DriveList
  <2>5. Len(MountedDrives') = m /\ MountedDrives' \in Seq([drive : Systems, letter : Letters])
    BY <1>7 DEF DriveList
  <2>6. d \in [drive : Systems, letter : Letters]
    BY <1>3
  <2> HIDE DEF d
  <2> QED
    BY <1>5, <1>8, <2>2, <2>3, <2>4, <2>5, <2>6 DEF d
<1>12. Handle' = Handle
  BY <1>3 DEF Handle, HandleOf, SlotsOf
<1>13. AbstractVfs!Mount(f, l)
  BY <1>3, <1>6, <1>10, <1>11, <1>12 DEF AbstractVfs!Mount, Handle, DriveList
<1> QED
  BY <1>13 DEF AbstractVfs!Next

LEMMA SameImplements ==
  ASSUME UNCHANGED <<list, vfs_open_files, opened, reached>>
  PROVE  UNCHANGED AbstractVfs!vars
<1>1. Node' = Node /\ letter' = letter
  BY DEF Node, list
<1>2. MountedDrives' = MountedDrives
  BY <1>1 DEF MountedDrives, Listed
<1>3. Handle' = Handle
  BY DEF Handle, HandleOf, SlotsOf
<1> QED
  BY <1>2, <1>3 DEF AbstractVfs!vars, Handle

\* A step that leaves the list alone leaves the drives alone.
LEMMA DrivesSame == UNCHANGED list => UNCHANGED MountedDrives
  BY DEF MountedDrives, Listed, Node, list

\* list_get finds the drive a letter means.
LEMMA FoundMeans ==
  ASSUME TypeOK, NEW n \in 0..Len(letter), Listing(n), NEW l, GetFs(l) # 0
  PROVE  \E j \in 1..Len(MountedDrives) :
           /\ j \in 1..n /\ Node[j] = GetFs(l) /\ MountedDrives[j].drive = GetFs(l)
           /\ AbstractVfs!Means(j, l) /\ MountedDrives[j].letter = l
<1>1. PICK j \in 1..n : /\ Node[j] = GetFs(l) /\ letter[Node[j]] = l
                        /\ \A k \in 1..n : k < j => letter[Node[k]] # l
  BY Found
<1>2. DriveList(n)
  BY DrivesMapped DEF DrivesRule
<1>3. n \in Nat
  BY TypeNow
<1>4. \A k \in 1..(j - 1) : k \in 1..n /\ k < j
  BY <1>3
<1>5. MountedDrives[j].letter = l /\ \A k \in 1..(j - 1) : MountedDrives[k].letter # l
  BY <1>1, <1>2, <1>4 DEF DriveList
<1> QED
  BY <1>1, <1>2, <1>5 DEF DriveList, AbstractVfs!Means

\* A sequence without its j-th member.
LEMMA WithoutOne ==
  ASSUME NEW S, NEW s \in Seq(S), NEW t \in Seq(S), NEW j \in 1..Len(s), Len(t) = Len(s) - 1,
         \A k \in 1..Len(t) : t[k] = IF k < j THEN s[k] ELSE s[k + 1]
  PROVE  t = SubSeq(s, 1, j - 1) \o SubSeq(s, j + 1, Len(s))
<1> DEFINE a == SubSeq(s, 1, j - 1)
           b == SubSeq(s, j + 1, Len(s))
<1>1. PICK n \in Nat : n = Len(s) /\ j \in 1..n /\ Len(t) = n - 1 /\ n - 1 \in Nat
  OBVIOUS
<1>2. \A k \in 1..n : s[k] \in S
  BY <1>1
<1>3. \A k \in (j + 1)..n : k \in 1..n
  BY <1>1
<1>4. \A k \in 1..(j - 1) : k \in 1..n
  BY <1>1
<1>5. a \in Seq(S) /\ Len(a) = j - 1 /\ \A k \in 1..(j - 1) : a[k] = s[k]
  <2>1. j - 1 \in Int /\ 1 \in Int /\ \A k \in 1..(j - 1) : s[k] \in S
    BY <1>1, <1>2, <1>4
  <2>2. /\ a \in Seq(S) /\ Len(a) = IF 1 <= j - 1 THEN (j - 1) - 1 + 1 ELSE 0
        /\ \A k \in 1..((j - 1) - 1 + 1) : a[k] = s[1 + k - 1]
    BY <2>1, SubSeqProperties
  <2> HIDE DEF a
  <2>3. (j - 1) - 1 + 1 = j - 1 /\ \A k \in 1..(j - 1) : 1 + k - 1 = k
    BY <1>1
  <2>4. Len(a) = j - 1
    BY <1>1, <2>2
  <2> QED
    BY <2>2, <2>3, <2>4
<1>6. b \in Seq(S) /\ Len(b) = n - j /\ \A k \in 1..(n - j) : b[k] = s[j + k]
  <2>1. j + 1 \in Int /\ n \in Int /\ \A k \in (j + 1)..n : s[k] \in S
    BY <1>1, <1>2, <1>3
  <2>2. /\ b \in Seq(S) /\ Len(b) = IF j + 1 <= n THEN n - (j + 1) + 1 ELSE 0
        /\ \A k \in 1..(n - (j + 1) + 1) : b[k] = s[(j + 1) + k - 1]
    BY <1>1, <2>1, SubSeqProperties
  <2> HIDE DEF b
  <2>3. n - (j + 1) + 1 = n - j /\ \A k \in 1..(n - j) : (j + 1) + k - 1 = j + k
    BY <1>1
  <2>4. Len(b) = n - j
    BY <1>1, <2>2
  <2> QED
    BY <2>2, <2>3, <2>4
<1> HIDE DEF a, b
<1>7. /\ a \o b \in Seq(S) /\ Len(a \o b) = n - 1
      /\ \A k \in 1..(n - 1) : (a \o b)[k] = IF k <= j - 1 THEN a[k] ELSE b[k - (j - 1)]
  <2>1. (j - 1) + (n - j) = n - 1
    BY <1>1
  <2>2. PICK A \in Seq(S), B \in Seq(S) : A = a /\ B = b
    BY <1>5, <1>6
  <2>3. /\ A \o B \in Seq(S) /\ Len(A \o B) = Len(A) + Len(B)
        /\ \A k \in 1..(Len(A) + Len(B)) : (A \o B)[k] = IF k <= Len(A) THEN A[k] ELSE B[k - Len(A)]
    BY ConcatProperties
  <2>4. Len(A) = j - 1 /\ Len(A) + Len(B) = n - 1
    BY <1>5, <1>6, <2>1, <2>2
  <2> QED
    BY <2>2, <2>3, <2>4
<1>8. \A k \in 1..(n - 1) : (a \o b)[k] = t[k]
  <2> TAKE k \in 1..(n - 1)
  <2>1. CASE k < j
    <3>1. k \in 1..(j - 1) /\ k <= j - 1
      BY <1>1, <2>1
    <3> QED
      BY <1>1, <1>5, <1>7, <2>1, <3>1
  <2>2. CASE ~(k < j)
    <3>1. PICK i \in 1..(n - j) : i = k - (j - 1) /\ j + i = k + 1 /\ ~(k <= j - 1)
      BY <1>1, <2>2
    <3> QED
      BY <1>1, <1>6, <1>7, <2>2, <3>1
  <2> QED
    BY <2>1, <2>2
<1>9. t = a \o b
  <2>1. PICK c \in Seq(S) : c = a \o b
    BY <1>7
  <2>2. Len(t) = Len(c) /\ \A k \in 1..Len(t) : t[k] = c[k]
    BY <1>1, <1>7, <1>8, <2>1
  <2>3. t = c
    BY <2>2, SeqEqual
  <2> QED
    BY <2>1, <2>3
<1> QED
  BY <1>1, <1>9 DEF a, b

LEMMA UnmountImplements ==
  ASSUME IndInv, IndInv', Unmount
  PROVE  AbstractVfs!Next \/ UNCHANGED AbstractVfs!vars
<1>1. /\ TypeOK /\ Fresh /\ SlotInv /\ ObjectInv /\ TypeOK' /\ SlotInv'
      /\ \E n \in 0..Len(letter) : Listing(n)
  BY DEF IndInv, ListInv
<1>2. PICK n \in 0..Len(letter) : Listing(n)
  BY <1>1
<1>3. PICK l \in Letters :
        /\ GetFs(l) # 0
        /\ IF HasNeighbours(GetFs(l))
           THEN ClearSlots(FilesOf(GetFs(l))) /\ ListRemove(GetFs(l)) /\ UNCHANGED <<reached, halted>>
           ELSE halted' = TRUE /\ UNCHANGED <<list, vfs_open_files, opened, reached>>
  BY DEF Unmount
<1>4. CASE ~HasNeighbours(GetFs(l))
  BY <1>3, <1>4, SameImplements
<1>5. CASE HasNeighbours(GetFs(l))
  <2>1. PICK j \in 1..Len(MountedDrives) :
          /\ j \in 1..n /\ Node[j] = GetFs(l) /\ MountedDrives[j].drive = GetFs(l)
          /\ AbstractVfs!Means(j, l) /\ MountedDrives[j].letter = l
    BY <1>1, <1>2, <1>3, FoundMeans
  <2>2. PICK f \in Systems : f = GetFs(l)
    BY <1>1, <1>2, <1>3, FoundMounted
  <2>3. ClearSlots(FilesOf(f)) /\ ListRemove(f) /\ UNCHANGED <<reached, halted>> /\ letter' = letter
    BY <1>3, <1>5, <2>2 DEF ListRemove
  <2>4. /\ j # 1 /\ j # n /\ n - 1 \in 0..Len(letter) /\ Listing(n - 1)'
        /\ \A k \in 1..(n - 1) : Node'[k] = IF k < j THEN Node[k] ELSE Node[k + 1]
    BY <1>1, <1>2, <1>5, <2>1, <2>2, <2>3, Removed
  <2>5. PICK m \in 0..Len(letter') : m = n - 1 /\ Listing(m)'
    BY <2>3, <2>4
  <2>6. DriveList(n) /\ n \in Nat
    BY <1>1, <1>2, DrivesMapped, TypeNow DEF DrivesRule
  <2>7. DriveList(m)'
    BY <1>1, <2>5, DrivesMappedNext DEF DrivesRule
  <2>8. MountedDrives' =
          SubSeq(MountedDrives, 1, j - 1) \o SubSeq(MountedDrives, j + 1, Len(MountedDrives))
    <3>1. \A k \in 1..m : MountedDrives'[k] = IF k < j THEN MountedDrives[k] ELSE MountedDrives[k + 1]
      <4> TAKE k \in 1..m
      <4>1. k \in 1..(n - 1) /\ k \in 1..n /\ k + 1 \in 1..n
        BY <2>5, <2>6
      <4>2. MountedDrives'[k] = [drive |-> Node'[k], letter |-> letter[Node'[k]]]
        BY <2>3, <2>7 DEF DriveList
      <4>3. /\ MountedDrives[k] = [drive |-> Node[k], letter |-> letter[Node[k]]]
            /\ MountedDrives[k + 1] = [drive |-> Node[k + 1], letter |-> letter[Node[k + 1]]]
        BY <2>6, <4>1 DEF DriveList
      <4> QED
        BY <2>4, <4>1, <4>2, <4>3
    <3>2. Len(MountedDrives) = n /\ MountedDrives \in Seq([drive : Systems, letter : Letters])
      BY <2>6 DEF DriveList
    <3>3. Len(MountedDrives') = m /\ MountedDrives' \in Seq([drive : Systems, letter : Letters])
      BY <2>7 DEF DriveList
    <3> DEFINE S == [drive : Systems, letter : Letters]
    <3>4. PICK D \in Seq(S), E \in Seq(S) : D = MountedDrives /\ E = MountedDrives'
      BY <3>2, <3>3
    <3>5. j \in 1..Len(D) /\ Len(E) = Len(D) - 1
      BY <2>1, <2>5, <3>2, <3>3, <3>4
    <3>6. \A k \in 1..Len(E) : E[k] = IF k < j THEN D[k] ELSE D[k + 1]
      BY <3>1, <3>3, <3>4
    <3> HIDE DEF S
    <3>7. E = SubSeq(D, 1, j - 1) \o SubSeq(D, j + 1, Len(D))
      BY <3>5, <3>6, WithoutOne
    <3> QED
      BY <3>4, <3>7
  <2>9. FilesOf(f) \in SUBSET Slots /\ \A i \in FilesOf(f) : Used(i)
    BY <1>1, FilesOfUsed
  <2>10. /\ \A i \in Slots : Used(i)' <=> Used(i) /\ i \notin FilesOf(f)
         /\ \A i \in Slots \ FilesOf(f) : Used(i) =>
              /\ vfs_open_files'[i] = vfs_open_files[i]
              /\ opened'[vfs_open_files[i].file] = opened[vfs_open_files[i].file]
    BY <1>1, <2>3, <2>9, Cleared
  <2>11. \A h \in Handles :
           Handle'[h] = IF Handle[h] # NotOpen /\ Handle[h].drive = f THEN NotOpen ELSE Handle[h]
    <3> TAKE h \in Handles
    <3>1. PICK i \in Slots : i + FILES_FD_BASE = h
      BY HandleOfSlot
    <3>2. Handle[h] = IF Used(i) THEN opened[vfs_open_files[i].file] ELSE NotOpen
      BY <1>1, <3>1, HandlesMapped DEF HandleRule
    <3>3. Handle'[h] = IF Used(i)' THEN opened'[vfs_open_files'[i].file] ELSE NotOpen
      BY <1>1, <3>1, HandlesMappedNext DEF HandleRule
    <3>4. Used(i) => Handle[h] # NotOpen /\ (Handle[h].drive = f <=> i \in FilesOf(f))
      BY <1>1, <3>2 DEF SlotInv, FilesOf
    <3> QED
      BY <2>10, <3>2, <3>3, <3>4
  <2>12. Handle' = [h \in Handles |->
           IF Handle[h] # NotOpen /\ Handle[h].drive = MountedDrives[j].drive THEN NotOpen ELSE Handle[h]]
    BY <2>1, <2>2, <2>11 DEF Handle
  <2>13. AbstractVfs!Unmount(j)
    BY <2>1, <2>3, <2>8, <2>12 DEF AbstractVfs!Unmount, Handle
  <2> QED
    BY <2>1, <2>13 DEF AbstractVfs!Next
<1> QED
  BY <1>4, <1>5

LEMMA OpenImplements ==
  ASSUME IndInv, IndInv', Open
  PROVE  AbstractVfs!Next
<1>1. /\ TypeOK /\ SlotInv /\ ObjectInv /\ SlotInv'
      /\ \E n \in 0..Len(letter) : Listing(n)
  BY DEF IndInv, ListInv
<1>2. PICK n \in 0..Len(letter) : Listing(n)
  BY <1>1
<1>3. PICK p \in Paths, o \in Objects :
        /\ ~FileIsOpen(p) /\ GetFs(p.letter) # 0 /\ FreeSlots # {} /\ opened[o] = NotOpen
        /\ opened' = [opened EXCEPT ![o] = [drive |-> GetFs(p.letter), path |-> p]]
        /\ vfs_open_files' = [vfs_open_files EXCEPT ![FreeIndex] =
             [fd |-> FreeIndex + FILES_FD_BASE, file |-> o, fs |-> GetFs(p.letter), hash |-> Hash[p]]]
        /\ UNCHANGED <<list, reached, halted>>
  BY DEF Open
<1>4. PICK f \in Systems : f = GetFs(p.letter)
  BY <1>1, <1>2, <1>3, FoundMounted
<1>5. PICK x \in Slots : x = FreeIndex /\ ~Used(x)
  BY <1>3, FreeSlot
<1>6. TakesSlot(p, o, f, x)
  BY <1>3, <1>4, <1>5 DEF TakesSlot
<1>7. /\ \A i \in Slots : Used(i)' <=> Used(i) \/ i = x
      /\ \A i \in Slots : Used(i) => /\ vfs_open_files'[i] = vfs_open_files[i]
                                     /\ opened'[vfs_open_files[i].file] = opened[vfs_open_files[i].file]
      /\ vfs_open_files'[x].fs = f /\ vfs_open_files'[x].file = o
  BY <1>1, <1>3, <1>5, <1>6, OpenedNow
<1>8. PICK j \in 1..Len(MountedDrives) : MountedDrives[j].drive = f /\ AbstractVfs!Means(j, p.letter)
  BY <1>1, <1>2, <1>3, <1>4, FoundMeans
<1>9. PICK h \in Handles : h = x + FILES_FD_BASE
  BY HandleOfSlot
<1>10. \A i \in Slots : i + FILES_FD_BASE = h => i = x
  BY <1>9, NotFile DEF FILES_FD_BASE
<1>11. Handle[h] = NotOpen
  BY <1>1, <1>5, <1>9, HandlesMapped DEF HandleRule
<1>12. Hash[p] = 0 \/ \A g \in Handles : Handle[g] = NotOpen \/ Handle[g].path # p
  <2> SUFFICES ASSUME Hash[p] # 0, NEW g \in Handles, Handle[g] # NotOpen, Handle[g].path = p
               PROVE  FALSE
    OBVIOUS
  <2>1. PICK i \in Slots : i + FILES_FD_BASE = g
    BY HandleOfSlot
  <2>2. Used(i) /\ Handle[g] = opened[vfs_open_files[i].file]
    BY <1>1, <2>1, HandlesMapped DEF HandleRule
  <2>3. Hash[p] = vfs_open_files[i].hash /\ vfs_open_files[i].file # 0
    BY <1>1, <2>2, NotFile, TypeNow DEF SlotInv, Files
  <2> QED
    BY <1>3, <2>2, <2>3 DEF FileIsOpen, Used
<1>13. \A g \in Handles : Handle'[g] = IF g = h THEN [drive |-> f, path |-> p] ELSE Handle[g]
  <2> TAKE g \in Handles
  <2>1. PICK i \in Slots : i + FILES_FD_BASE = g
    BY HandleOfSlot
  <2>2. Handle[g] = IF Used(i) THEN opened[vfs_open_files[i].file] ELSE NotOpen
    BY <1>1, <2>1, HandlesMapped DEF HandleRule
  <2>3. Handle'[g] = IF Used(i)' THEN opened'[vfs_open_files'[i].file] ELSE NotOpen
    BY <1>1, <2>1, HandlesMappedNext DEF HandleRule
  <2>4. CASE g = h
    <3>1. i = x /\ Used(i)' /\ vfs_open_files'[i].file = o
      BY <1>7, <1>10, <2>1, <2>4
    <3>2. opened'[o] = [drive |-> f, path |-> p]
      BY <1>1, <1>6, TypeNow DEF TakesSlot
    <3> QED
      BY <2>3, <2>4, <3>1, <3>2
  <2>5. CASE g # h
    BY <1>7, <1>9, <2>1, <2>2, <2>3, <2>5
  <2> QED
    BY <2>4, <2>5
<1>14. Handle' = [Handle EXCEPT ![h] = [drive |-> MountedDrives[j].drive, path |-> p]]
  BY <1>8, <1>13 DEF Handle
<1>15. UNCHANGED <<MountedDrives, reached>>
  BY <1>3, DrivesSame
<1>16. AbstractVfs!Open(h, p, j)
  BY <1>8, <1>11, <1>12, <1>14, <1>15 DEF AbstractVfs!Open, Handle, LetterOfPath, HashIsZero
<1> QED
  BY <1>16 DEF AbstractVfs!Next

LEMMA CloseImplements ==
  ASSUME IndInv, IndInv', Close
  PROVE  AbstractVfs!Next
<1>1. TypeOK /\ SlotInv /\ ObjectInv /\ SlotInv'
  BY DEF IndInv
<1>2. PICK h \in Handles : ClearSlots(SlotsOf(h)) /\ UNCHANGED <<list, reached, halted>>
  BY DEF Close
<1>3. SlotsOf(h) \in SUBSET Slots /\ \A i \in SlotsOf(h) : Used(i) /\ i = h - FILES_FD_BASE
  BY <1>1, SlotOfHandle
<1>4. /\ \A i \in Slots : Used(i)' <=> Used(i) /\ i \notin SlotsOf(h)
      /\ \A i \in Slots \ SlotsOf(h) : Used(i) =>
           /\ vfs_open_files'[i] = vfs_open_files[i]
           /\ opened'[vfs_open_files[i].file] = opened[vfs_open_files[i].file]
  BY <1>1, <1>2, <1>3, Cleared
<1>5. \A g \in Handles : Handle'[g] = IF g = h THEN NotOpen ELSE Handle[g]
  <2> TAKE g \in Handles
  <2>1. PICK i \in Slots : i = g - FILES_FD_BASE /\ i + FILES_FD_BASE = g
    BY HandleOfSlot
  <2>2. Handle[g] = IF Used(i) THEN opened[vfs_open_files[i].file] ELSE NotOpen
    BY <1>1, <2>1, HandlesMapped DEF HandleRule
  <2>3. Handle'[g] = IF Used(i)' THEN opened'[vfs_open_files'[i].file] ELSE NotOpen
    BY <1>1, <2>1, HandlesMappedNext DEF HandleRule
  <2>4. CASE g = h
    <3>1. Used(i) => i \in SlotsOf(h)
      BY <1>1, <2>1, <2>4 DEF SlotInv, SlotsOf
    <3> QED
      BY <1>4, <2>3, <2>4, <3>1
  <2>5. CASE g # h
    <3>1. (h - FILES_FD_BASE) + FILES_FD_BASE = h
      BY HandleOfSlot
    <3>2. i \notin SlotsOf(h)
      BY <1>3, <2>1, <2>5, <3>1
    <3> QED
      BY <1>4, <2>2, <2>3, <2>5, <3>2
  <2> QED
    BY <2>4, <2>5
<1>6. Handle' = [Handle EXCEPT ![h] = NotOpen]
  BY <1>5 DEF Handle
<1>7. UNCHANGED <<MountedDrives, reached>>
  BY <1>2, DrivesSame
<1>8. AbstractVfs!Close(h)
  BY <1>6, <1>7 DEF AbstractVfs!Close, Handle
<1> QED
  BY <1>8 DEF AbstractVfs!Next

LEMMA UseImplements ==
  ASSUME IndInv, Use
  PROVE  AbstractVfs!Next
<1>1. SlotInv
  BY DEF IndInv
<1>2. PICK h \in Handles :
        /\ \/ \E i \in SlotsOf(h) : reached' = opened[vfs_open_files[i].file]
           \/ SlotsOf(h) = {} /\ reached' = NotOpen
        /\ UNCHANGED <<list, vfs_open_files, opened, halted>>
  BY DEF Use
<1>3. PICK i \in Slots : i = h - FILES_FD_BASE /\ i + FILES_FD_BASE = h
  BY HandleOfSlot
<1>4. Handle[h] = IF Used(i) THEN opened[vfs_open_files[i].file] ELSE NotOpen
  BY <1>1, <1>3, HandlesMapped DEF HandleRule
<1>5. reached' = Handle[h]
  <2>1. \A k \in SlotsOf(h) : Used(k) /\ k = i
    BY <1>1, <1>3, SlotOfHandle
  <2>2. Used(i) => i \in SlotsOf(h)
    BY <1>1, <1>3 DEF SlotInv, SlotsOf
  <2> QED
    BY <1>2, <1>4, <2>1, <2>2
<1>6. Handle' = Handle
  BY <1>2 DEF Handle, HandleOf, SlotsOf
<1>7. UNCHANGED MountedDrives
  BY <1>2, DrivesSame
<1>8. AbstractVfs!Use(h)
  BY <1>5, <1>6, <1>7 DEF AbstractVfs!Use, Handle
<1> QED
  BY <1>8 DEF AbstractVfs!Next

LEMMA NextImplements ==
  IndInv /\ IndInv' /\ [Next]_vars => [AbstractVfs!Next]_AbstractVfs!vars
<1> SUFFICES ASSUME IndInv, IndInv', [Next]_vars
             PROVE  AbstractVfs!Next \/ UNCHANGED AbstractVfs!vars
  OBVIOUS
<1>1. CASE UNCHANGED vars
  BY <1>1, SameImplements DEF vars
<1> QED
  BY <1>1, MountImplements, UnmountImplements, OpenImplements, CloseImplements, UseImplements DEF Next

LEMMA InitImplements == Init => AbstractVfs!Init
<1> SUFFICES ASSUME Init PROVE AbstractVfs!Init
  OBVIOUS
<1>1. TypeOK /\ SlotInv /\ Listing(0) /\ 0 \in 0..Len(letter)
  <2>1. IndInv /\ Len(letter) = 0
    BY InitInd DEF Init
  <2>2. \A n \in 0..Len(letter) : n = 0
    BY <2>1
  <2> QED
    BY <2>1, <2>2 DEF IndInv, ListInv
<1>2. MountedDrives = << >>
  <2>1. Len(MountedDrives) = 0 /\ MountedDrives \in Seq([drive : Systems, letter : Letters])
    BY <1>1, DrivesMapped DEF DrivesRule, DriveList
  <2> QED
    BY <2>1
<1>3. \A h \in Handles : Handle[h] = NotOpen
  <2> TAKE h \in Handles
  <2>1. PICK i \in Slots : i + FILES_FD_BASE = h
    BY HandleOfSlot
  <2>2. ~Used(i)
    BY DEF Used, Init, NoFile
  <2> QED
    BY <1>1, <2>1, <2>2, HandlesMapped DEF HandleRule
<1> QED
  BY <1>2, <1>3 DEF AbstractVfs!Init, Handle, Init
-----------------------------------------------------------------------------
(* The properties *)

\* Every value the file table, the list and the backends hold is one that
\* VFS.c can store there: an opened file is no clear slot by accident.
THEOREM TypeCorrect == Spec => []TypeOK
<1>1. IndInv => TypeOK
  BY DEF IndInv
<1> QED
  BY <1>1, Invariance, PTL

\* list_add and list_remove (VFS.c:57, 86) keep one list, which its backward
\* links describe as well, whatever the drives and the order of the calls.
THEOREM ListKept == Spec => []ListShape
<1>1. IndInv => ListShape
  <2> SUFFICES ASSUME IndInv PROVE ListShape
    OBVIOUS
  <2>1. TypeOK /\ \E n \in 0..Len(letter) : Listing(n)
    BY DEF IndInv, ListInv
  <2>2. PICK n \in 0..Len(letter) : Listing(n)
    BY <2>1
  <2>3. n \in Nat /\ Listed = 1..n /\ Cardinality(Listed) = n
    BY <2>1, <2>2, ListNow
  <2>4. Cardinality({Node[k] : k \in Listed}) = Cardinality(Listed)
    <3> DEFINE g == [k \in 1..n |-> Node[k]]
               T == {Node[k] : k \in 1..n}
    <3>1. g \in Bijection(1..n, T)
      BY <2>2 DEF Bijection, Injection, Surjection, IsInjective, Listing
    <3>2. IsFiniteSet(1..n)
      BY <2>3, FS_Interval
    <3> HIDE DEF g, T
    <3>3. Cardinality(T) = Cardinality(1..n)
      BY <3>1, <3>2, FS_Bijection DEF ExistsBijection
    <3> QED
      BY <2>3, <3>3 DEF T
  <2>5. \A k \in Listed :
          /\ prev[Node[k]] = IF k = 1 THEN 0 ELSE Node[k - 1]
          /\ next[Node[k]] = 0 => Node[k] = IF tail = 0 THEN head ELSE tail
    <3> SUFFICES ASSUME NEW k \in 1..n
                 PROVE  /\ prev[Node[k]] = IF k = 1 THEN 0 ELSE Node[k - 1]
                        /\ next[Node[k]] = 0 => Node[k] = IF tail = 0 THEN head ELSE tail
      BY <2>3
    <3>1. k # n => k + 1 \in 1..n
      BY <2>3
    <3>2. n # 0
      BY <2>3
    <3>3. \A i \in 1..n : Node[i] # 0
      BY <2>1, <2>2, ListNow
    <3>4. /\ next[Node[k]] = (IF k = n THEN 0 ELSE Node[k + 1])
          /\ prev[Node[k]] = (IF k = 1 THEN 0 ELSE Node[k - 1])
          /\ Node[n] = IF tail = 0 THEN head ELSE tail
      BY <2>2, <3>2 DEF Listing
    <3> QED
      BY <3>1, <3>3, <3>4
  <2> QED
    BY <2>4, <2>5 DEF ListShape
<1> QED
  BY <1>1, Invariance, PTL

\* No sequence of opens, closes and unmounts (VFS.c:241, 263, 304) leaks an
\* object of a backend, shares it between slots or leaves one on a drive
\* that is gone, whatever the number of slots.
THEOREM FilesKept == Spec => []FilesAccounted
<1>1. IndInv => FilesAccounted
  <2> SUFFICES ASSUME IndInv PROVE FilesAccounted
    OBVIOUS
  <2>1. /\ TypeOK /\ SlotInv /\ MountedInv /\ ObjectInv
        /\ \E n \in 0..Len(letter) : Listing(n)
    BY DEF IndInv, ListInv
  <2>2. \A i \in Slots : i \in Slots \ FreeSlots <=> Used(i)
    BY DEF FreeSlots, Used
  <2>3. \A i \in Slots \ FreeSlots :
          /\ vfs_open_files[i].fd = i + FILES_FD_BASE
          /\ opened[vfs_open_files[i].file] # NotOpen
          /\ opened[vfs_open_files[i].file].drive = vfs_open_files[i].fs
    BY <2>1, <2>2 DEF SlotInv
  <2>4. \A i \in Slots \ FreeSlots : vfs_open_files[i].fs \in {Node[k] : k \in Listed}
    <3> SUFFICES ASSUME NEW i \in Slots, Used(i)
                 PROVE  vfs_open_files[i].fs \in {Node[k] : k \in Listed}
      BY <2>2
    <3>1. vfs_open_files[i].fs \in Systems /\ InList(vfs_open_files[i].fs)
      BY <2>1, TypeNow DEF Files, MountedInv
    <3>2. PICK n \in 0..Len(letter) : Listing(n)
      BY <2>1
    <3> QED
      BY <2>1, <3>1, <3>2, ListNow
  <2>5. \A o \in Objects : opened[o] # NotOpen =>
          Cardinality({i \in Slots \ FreeSlots : vfs_open_files[i].file = o}) = 1
    <3> SUFFICES ASSUME NEW o \in Objects, opened[o] # NotOpen
                 PROVE  Cardinality({i \in Slots \ FreeSlots : vfs_open_files[i].file = o}) = 1
      OBVIOUS
    <3>1. PICK i \in Slots : Used(i) /\ vfs_open_files[i].file = o
      BY <2>1 DEF ObjectInv
    <3>2. {k \in Slots \ FreeSlots : vfs_open_files[k].file = o} = {i}
      BY <2>1, <2>2, <3>1 DEF ObjectInv
    <3> QED
      BY <3>2, FS_Singleton
  <2> QED
    BY <2>1, <2>3, <2>4, <2>5 DEF FilesAccounted
<1> QED
  BY <1>1, Invariance, PTL

\* VFS.c is what VFS.h promises: a handle reaches the file it was opened for
\* until it is closed or its drive goes, a path is opened once, and a letter
\* means the drive that was mounted first, for any number of drives, paths
\* and slots.
THEOREM Implements == Spec => AbstractSpec
  BY InitImplements, NextImplements, Invariance, PTL DEF Spec, AbstractSpec, AbstractVfs!Spec

-----------------------------------------------------------------------------
(* Multicore *)

Words == BootWords \cup Magic

AllOf(a, s) == \A k \in 1..Len(s) : s[k] = a

\* s consists of a's, and b's behind them.
TwoParts(a, b, s) ==
  /\ \A k \in 1..Len(s) : s[k] \in {a, b}
  /\ \A j, k \in 1..Len(s) : j < k /\ s[j] = b => s[k] = b

Spins(h) == h \in {"pop", "wfe"}
Drains(h) == h \in {"off", "drain"}

\* Where a core stands that asks (e), the handler of the other core (h),
\* and the words under way to it and back.
Conversation(e, h, requests, answers) ==
  \/ e = "none" /\ Drains(h) /\ AllOf("END", requests) /\ answers = << >>
  \/ e = "asked" /\ Drains(h) /\ TwoParts("END", "START", requests) /\ answers = << >>
  \/ e = "asked" /\ h = "ack" /\ AllOf("START", requests) /\ answers = << >>
  \/ e = "asked" /\ Spins(h) /\ AllOf("START", requests) /\ answers = << "START" >>
  \/ e = "held" /\ Spins(h) /\ AllOf("START", requests) /\ answers = << >>
  \/ e = "ending" /\ Spins(h) /\ TwoParts("START", "END", requests) /\ answers = << >>
  \/ e = "ending" /\ h = "leave" /\ AllOf("END", requests) /\ answers = << >>
  \/ e = "ending" /\ Drains(h) /\ AllOf("END", requests) /\ answers = << "END" >>

\* How many words are under way, or about to be sent back.
Count(h, requests, answers) ==
  Len(requests) + Len(answers) + (IF h \in {"ack", "leave"} THEN 1 ELSE 0)

LEMMA CoreFacts == Cores = {0, 1} /\ Other(0) = 1 /\ Other(1) = 0
  BY DEF Cores, Other

LEMMA OtherFacts ==
  ASSUME NEW x \in Cores
  PROVE  /\ Other(x) \in Cores /\ Other(x) # x /\ Other(Other(x)) = x
         /\ \A c \in Cores : c = x \/ c = Other(x)
  BY DEF Cores, Other

(* Words in a row *)

LEMMA AllOfEmpty == ASSUME NEW a PROVE AllOf(a, << >>)
  BY DEF AllOf

LEMMA AllOfAppend ==
  ASSUME NEW a \in Words, NEW s \in Seq(Words), AllOf(a, s)
  PROVE  AllOf(a, Append(s, a))
  BY DEF AllOf

LEMMA AllOfTail ==
  ASSUME NEW a \in Words, NEW s \in Seq(Words), AllOf(a, s), s # << >>
  PROVE  Head(s) = a /\ AllOf(a, Tail(s))
  BY DEF AllOf

LEMMA TwoPartsFirst ==
  ASSUME NEW a \in Words, NEW b \in Words, a # b, NEW s \in Seq(Words), AllOf(a, s)
  PROVE  TwoParts(a, b, s)
  BY DEF AllOf, TwoParts

LEMMA TwoPartsSecond ==
  ASSUME NEW a \in Words, NEW b \in Words, NEW s \in Seq(Words), AllOf(b, s)
  PROVE  TwoParts(a, b, s)
  BY DEF AllOf, TwoParts

LEMMA TwoPartsAppend ==
  ASSUME NEW a \in Words, NEW b \in Words, NEW s \in Seq(Words), TwoParts(a, b, s)
  PROVE  TwoParts(a, b, Append(s, b))
<1> DEFINE t == Append(s, b)
<1>1. Len(t) = Len(s) + 1 /\ \A k \in 1..Len(t) : t[k] = IF k = Len(s) + 1 THEN b ELSE s[k]
  OBVIOUS
<1> HIDE DEF t
<1> QED
  BY <1>1 DEF TwoParts

LEMMA TwoPartsTail ==
  ASSUME NEW a \in Words, NEW b \in Words, NEW s \in Seq(Words),
         TwoParts(a, b, s), s # << >>
  PROVE  /\ Head(s) \in {a, b} /\ TwoParts(a, b, Tail(s))
         /\ Head(s) = b => AllOf(b, Tail(s))
<1> DEFINE t == Tail(s)
<1>1. /\ Len(s) \in Nat /\ Len(s) > 0 /\ Len(t) = Len(s) - 1 /\ Head(s) = s[1]
      /\ \A k \in 1..Len(t) : t[k] = s[k + 1]
  OBVIOUS
<1> HIDE DEF t
<1>2. Head(s) \in {a, b} /\ TwoParts(a, b, t)
  BY <1>1 DEF TwoParts
<1>3. Head(s) = b => AllOf(b, t)
  BY <1>1 DEF TwoParts, AllOf
<1> QED
  BY <1>2, <1>3 DEF t

(* The conversation *)

LEMMA MagicWords == "START" \in Words /\ "END" \in Words /\ BootWords \subseteq Words
  BY DEF Words, Magic

LEMMA SilentConversation ==
  ASSUME NEW e, NEW h, NEW r \in Seq(Words), NEW a \in Seq(Words), Count(h, r, a) <= 0
  PROVE  r = << >> /\ a = << >> /\ h \notin {"ack", "leave"} /\ Count(h, r, a) = 0
  BY DEF Count

LEMMA ConverseAsk ==
  ASSUME NEW h, NEW r \in Seq(Words), NEW a \in Seq(Words), Conversation("none", h, r, a)
  PROVE  Conversation("asked", h, r, a)
  BY TwoPartsFirst, MagicWords DEF Conversation

LEMMA ConverseEnd ==
  ASSUME NEW h, NEW r \in Seq(Words), NEW a \in Seq(Words), Conversation("held", h, r, a)
  PROVE  Conversation("ending", h, r, a)
  BY TwoPartsFirst, MagicWords DEF Conversation

LEMMA ConverseStart ==
  ASSUME NEW h, Drains(h)
  PROVE  Conversation("asked", h, << >>, << >>)
  BY DEF Conversation, TwoParts

LEMMA ConverseSend ==
  ASSUME NEW e \in {"asked", "ending"}, NEW h,
         NEW r \in Seq(Words), NEW a \in Seq(Words), Conversation(e, h, r, a)
  PROVE  LET word == IF e = "asked" THEN "START" ELSE "END" IN
         /\ Conversation(e, h, Append(r, word), a)
         /\ Count(h, Append(r, word), a) = Count(h, r, a) + 1
<1>1. CASE e = "asked"
  <2>1. Conversation(e, h, Append(r, "START"), a)
    BY <1>1, TwoPartsAppend, AllOfAppend, MagicWords DEF Conversation
  <2>2. Len(Append(r, "START")) = Len(r) + 1 /\ Len(r) \in Nat /\ Len(a) \in Nat
    BY MagicWords
  <2> QED
    BY <1>1, <2>1, <2>2 DEF Count
<1>2. CASE e = "ending"
  <2>1. Conversation(e, h, Append(r, "END"), a)
    BY <1>2, TwoPartsAppend, AllOfAppend, MagicWords DEF Conversation
  <2>2. Len(Append(r, "END")) = Len(r) + 1 /\ Len(r) \in Nat /\ Len(a) \in Nat
    BY MagicWords
  <2> QED
    BY <1>2, <2>1, <2>2 DEF Count
<1> QED
  BY <1>1, <1>2

LEMMA ConverseAnswer ==
  ASSUME NEW e, NEW h, NEW r \in Seq(Words), NEW a \in Seq(Words),
         Conversation(e, h, r, a), a # << >>
  PROVE  /\ Count(h, r, Tail(a)) = Count(h, r, a) - 1
         /\ \/ e = "asked" /\ Head(a) = "START" /\ Conversation("held", h, r, Tail(a))
            \/ e = "ending" /\ Head(a) = "END" /\ Conversation("none", h, r, Tail(a))
<1>1. Count(h, r, Tail(a)) = Count(h, r, a) - 1
  BY DEF Count
<1>2. \/ e = "asked" /\ a = << "START" >> /\ Spins(h) /\ AllOf("START", r)
      \/ e = "ending" /\ a = << "END" >> /\ Drains(h) /\ AllOf("END", r)
  BY DEF Conversation
<1>3. /\ Tail(<< "START" >>) = << >> /\ Tail(<< "END" >>) = << >>
      /\ Head(<< "START" >>) = "START" /\ Head(<< "END" >>) = "END"
  OBVIOUS
<1>4. CASE e = "asked" /\ a = << "START" >> /\ Spins(h) /\ AllOf("START", r)
  <2>1. Conversation("held", h, r, << >>)
    BY <1>4 DEF Conversation
  <2> QED
    BY <1>1, <1>3, <1>4, <2>1
<1>5. CASE e = "ending" /\ a = << "END" >> /\ Drains(h) /\ AllOf("END", r)
  <2>1. Conversation("none", h, r, << >>)
    BY <1>5 DEF Conversation
  <2> QED
    BY <1>1, <1>3, <1>5, <2>1
<1> QED
  BY <1>2, <1>4, <1>5

LEMMA ConverseIsr ==
  ASSUME NEW e, NEW h, NEW g, NEW r \in Seq(Words), NEW a \in Seq(Words),
         Conversation(e, h, r, a), (Drains(h) /\ Drains(g)) \/ (Spins(h) /\ Spins(g))
  PROVE  Conversation(e, g, r, a) /\ Count(g, r, a) = Count(h, r, a)
  BY DEF Conversation, Drains, Spins, Count

LEMMA ConverseDrain ==
  ASSUME NEW e, NEW r \in Seq(Words), NEW a \in Seq(Words),
         Conversation(e, "drain", r, a), r # << >>
  PROVE  LET g == IF AsksLockout(Head(r)) THEN "ack" ELSE "drain" IN
         Conversation(e, g, Tail(r), a) /\ Count(g, Tail(r), a) <= Count("drain", r, a)
<1> DEFINE g == IF AsksLockout(Head(r)) THEN "ack" ELSE "drain"
<1>1. Len(Tail(r)) = Len(r) - 1 /\ Len(r) \in Nat /\ Len(a) \in Nat /\ Tail(r) \in Seq(Words)
  OBVIOUS
<1>2. Count(g, Tail(r), a) <= Count("drain", r, a)
  BY <1>1 DEF Count
<1>3. Conversation(e, g, Tail(r), a)
  <2>1. CASE e = "none" /\ AllOf("END", r) /\ a = << >>
    <3>1. Head(r) = "END" /\ AllOf("END", Tail(r))
      BY <2>1, AllOfTail, MagicWords
    <3> QED
      BY <2>1, <3>1 DEF Conversation, AsksLockout, Drains
  <2>2. CASE e = "asked" /\ TwoParts("END", "START", r) /\ a = << >>
    <3>1. /\ Head(r) \in {"END", "START"} /\ TwoParts("END", "START", Tail(r))
          /\ Head(r) = "START" => AllOf("START", Tail(r))
      BY <2>2, TwoPartsTail, MagicWords
    <3> QED
      BY <2>2, <3>1 DEF Conversation, AsksLockout, Drains
  <2>3. CASE e = "ending" /\ AllOf("END", r) /\ a = << "END" >>
    <3>1. Head(r) = "END" /\ AllOf("END", Tail(r))
      BY <2>3, AllOfTail, MagicWords
    <3> QED
      BY <2>3, <3>1 DEF Conversation, AsksLockout, Drains
  <2> QED
    BY <2>1, <2>2, <2>3 DEF Conversation, Drains, Spins
<1> QED
  BY <1>2, <1>3

LEMMA ConverseAck ==
  ASSUME NEW e, NEW r \in Seq(Words), NEW a \in Seq(Words), Conversation(e, "ack", r, a)
  PROVE  /\ Conversation(e, "pop", r, Append(a, "START"))
         /\ Count("pop", r, Append(a, "START")) = Count("ack", r, a)
<1>1. e = "asked" /\ AllOf("START", r) /\ a = << >>
  BY DEF Conversation, Drains, Spins
<1>2. Append(a, "START") = << "START" >> /\ Len(<< "START" >>) = 1 /\ Len(a) = 0 /\ Len(r) \in Nat
  BY <1>1
<1> QED
  BY <1>1, <1>2 DEF Conversation, Spins, Count

LEMMA ConversePop ==
  ASSUME NEW e, NEW r \in Seq(Words), NEW a \in Seq(Words),
         Conversation(e, "pop", r, a), r # << >>
  PROVE  LET g == IF EndsLockout(Head(r)) THEN "leave" ELSE "pop" IN
         Conversation(e, g, Tail(r), a) /\ Count(g, Tail(r), a) <= Count("pop", r, a)
<1> DEFINE g == IF EndsLockout(Head(r)) THEN "leave" ELSE "pop"
<1>1. Len(Tail(r)) = Len(r) - 1 /\ Len(r) \in Nat /\ Len(a) \in Nat /\ Tail(r) \in Seq(Words)
  OBVIOUS
<1>2. Count(g, Tail(r), a) <= Count("pop", r, a)
  BY <1>1 DEF Count
<1>3. Conversation(e, g, Tail(r), a)
  <2>1. CASE e = "asked" /\ AllOf("START", r) /\ a = << "START" >>
    <3>1. Head(r) = "START" /\ AllOf("START", Tail(r))
      BY <2>1, AllOfTail, MagicWords
    <3> QED
      BY <2>1, <3>1 DEF Conversation, EndsLockout, Spins
  <2>2. CASE e = "held" /\ AllOf("START", r) /\ a = << >>
    <3>1. Head(r) = "START" /\ AllOf("START", Tail(r))
      BY <2>2, AllOfTail, MagicWords
    <3> QED
      BY <2>2, <3>1 DEF Conversation, EndsLockout, Spins
  <2>3. CASE e = "ending" /\ TwoParts("START", "END", r) /\ a = << >>
    <3>1. /\ Head(r) \in {"START", "END"} /\ TwoParts("START", "END", Tail(r))
          /\ Head(r) = "END" => AllOf("END", Tail(r))
      BY <2>3, TwoPartsTail, MagicWords
    <3> QED
      BY <2>3, <3>1 DEF Conversation, EndsLockout, Spins
  <2> QED
    BY <2>1, <2>2, <2>3 DEF Conversation, Drains, Spins
<1> QED
  BY <1>2, <1>3

LEMMA ConverseLeave ==
  ASSUME NEW e, NEW r \in Seq(Words), NEW a \in Seq(Words), Conversation(e, "leave", r, a)
  PROVE  /\ Conversation(e, "drain", r, Append(a, "END"))
         /\ Count("drain", r, Append(a, "END")) = Count("leave", r, a)
<1>1. e = "ending" /\ AllOf("END", r) /\ a = << >>
  BY DEF Conversation, Drains, Spins
<1>2. Append(a, "END") = << "END" >> /\ Len(<< "END" >>) = 1 /\ Len(a) = 0 /\ Len(r) \in Nat
  BY <1>1
<1> QED
  BY <1>1, <1>2 DEF Conversation, Drains, Count

(* The inductive invariant *)

Stages == ThreadStages \cup {"send", "launched", "idle", "push", "pop", "wfe"}
Calls == [op : {"launch", "start", "end", "none"}, time : Clock]
Phases == {"none", "asked", "held", "ending"}

Launching == call[0].op = "launch"
Entering == Launching /\ at[0] \in {"pop", "wfe"}

Locking(c) == call[c].op \in {"start", "end"}
InHandshake(c) ==
  Locking(c) /\ at[c] \in {"head", "push", "check", "pop", "wfe", "done", "failed"}
Awaits(c) == InHandshake(c) /\ at[c] \in {"check", "pop", "wfe"}
HasMutex(c) == InHandshake(c) \/ at[c] \in {"locked", "unlock"}

\* A core's call, where it stands in it, and what it has to do with the
\* lockouts.
StageOf(c) ==
  /\ at[c] \in {"send", "launched"} => call[c].op = "launch"
  /\ at[c] \in ThreadStages => Locking(c)
  /\ at[c] = "idle" <=> call[c].op = "none"
  /\ call[c].op = "launch" => c = 0
  /\ call[c].op \in {"launch", "none"} => call[c].time = Never
  /\ HasMutex(c) <=> lockout_mutex = c

PhaseOf(c) ==
  /\ Locking(c) => Other(c) \in victims
  /\ call[c].op = "start" => phase[c] = "asked" \/ (at[c] = "unlock" /\ phase[c] = "held")
  /\ call[c].op = "end" => phase[c] = "ending" \/ (at[c] = "unlock" /\ phase[c] = "none")
  /\ call[c].time # Never \/ at[c] = "failed" => c \in timed
  /\ c \notin timed /\ phase[c] \in {"asked", "ending"} => Locking(c) /\ at[c] # "unlock"

IrqOf(c) ==
  /\ InHandshake(c) \/ call[c].op = "launch" => isr[c] = "off" /\ ~irq_enabled[c]
  /\ InHandshake(c) \/ call[c].op = "launch" => (saved[c] => c \in victims)
  /\ irq_enabled[c] => c \in victims
  /\ c \notin victims => isr[c] = "off"
  /\ c \in timed => c \notin victims

ThreadOf(c) == StageOf(c) /\ PhaseOf(c) /\ IrqOf(c)

\* What is left for core c to read: the last echo of the bootrom is no word
\* of a lockout.
Inbox(c) == IF c = 0 /\ Entering THEN Tail(fifo[0]) ELSE fifo[c]

\* How far core c's lockout is, its last answer included.
Progress(c) ==
  IF at[c] = "done" THEN (IF phase[c] = "asked" THEN "held" ELSE "none") ELSE phase[c]

\* Core c asks, or is the last to have asked; the other core may have called
\* start but has not the mutex, or has not sent anything yet.
Waits(d) ==
  /\ phase[d] \in {"none", "asked"} /\ ~InHandshake(d)
  /\ phase[d] = "asked" => at[d] \in {"mutex", "locked"}
  /\ at[d] = "locked" => phase[Other(d)] \in {"none", "asked"}

Asks(c) ==
  LET d == Other(c) IN
  /\ Waits(d) /\ Drains(isr[c]) /\ timed \subseteq {c}
  /\ Conversation(Progress(c), isr[d], Inbox(d), Inbox(c))
  /\ c \notin timed =>
       Count(isr[d], Inbox(d), Inbox(c)) <= IF Awaits(c) THEN 1 ELSE 0
  /\ lockout_in_progress <=> phase[c] \in {"held", "ending"}

EntryInv ==
  /\ Launching => at[0] \in {"pop", "wfe", "launched"}
  /\ Entering => seq = 6 /\ fifo[0] # << >> /\ Head(fifo[0]) = "entry"

Common == MulticoreTypeOK /\ \A c \in Cores : ThreadOf(c)

\* Core 1 runs its program.
AppInv == core1 = "app" /\ got = Program /\ EntryInv /\ \E c \in Cores : Asks(c)

LEMMA TypeFacts ==
  MulticoreTypeOK <=>
    /\ fifo \in [Cores -> Seq(Words)] /\ \A c \in Cores : Len(fifo[c]) <= Depth
    /\ event \in [Cores -> BOOLEAN] /\ at \in [Cores -> Stages]
    /\ call \in [Cores -> Calls] /\ irq_enabled \in [Cores -> BOOLEAN]
    /\ saved \in [Cores -> BOOLEAN] /\ seq \in 1..6
    /\ core1 \in {"drain", "hello", "wait", "echo", "app"}
    /\ got \in Seq(BootWords) /\ Len(got) <= 4 /\ answer \in BootWords
    /\ isr \in [Cores -> HandlerStages] /\ victims \subseteq Cores /\ timed \subseteq Cores
    /\ lockout_mutex \in Cores \cup {NoCore} /\ lockout_in_progress \in BOOLEAN
    /\ phase \in [Cores -> Phases] /\ left \in [Cores -> Nat] /\ resets \in 0..MaxResets
<1>1. Len(cmd_sequence) = 6 /\ Len(Program) = 4
  BY DEF cmd_sequence, Program
<1>2. /\ ThreadStages \cup {"send", "launched"} \cup {"idle", "push", "pop", "wfe"} = Stages
      /\ [op : {"launch", "start", "end"} \cup {"none"}, time : Clock] = Calls
  BY DEF Stages, Calls
<1> QED
  BY <1>1, <1>2 DEF MulticoreTypeOK, FifoTypeOK, LaunchTypeOK, LockoutTypeOK, Words, Phases

LEMMA TypeNext ==
  ASSUME fifo' \in [Cores -> Seq(Words)], \A c \in Cores : Len(fifo'[c]) <= Depth,
         event' \in [Cores -> BOOLEAN], at' \in [Cores -> Stages],
         call' \in [Cores -> Calls], irq_enabled' \in [Cores -> BOOLEAN],
         saved' \in [Cores -> BOOLEAN], seq' \in 1..6,
         core1' \in {"drain", "hello", "wait", "echo", "app"},
         got' \in Seq(BootWords), Len(got') <= 4, answer' \in BootWords,
         isr' \in [Cores -> HandlerStages], victims' \subseteq Cores, timed' \subseteq Cores,
         lockout_mutex' \in Cores \cup {NoCore}, lockout_in_progress' \in BOOLEAN,
         phase' \in [Cores -> Phases], left' \in [Cores -> Nat], resets' \in 0..MaxResets
  PROVE  MulticoreTypeOK'
<1>1. Len(cmd_sequence) = 6 /\ Len(Program) = 4
  BY DEF cmd_sequence, Program
<1>2. /\ ThreadStages \cup {"send", "launched"} \cup {"idle", "push", "pop", "wfe"} = Stages
      /\ [op : {"launch", "start", "end"} \cup {"none"}, time : Clock] = Calls
  BY DEF Stages, Calls
<1> QED
  BY <1>1, <1>2 DEF MulticoreTypeOK, FifoTypeOK, LaunchTypeOK, LockoutTypeOK, Words, Phases

LEMMA InboxType ==
  ASSUME MulticoreTypeOK, EntryInv, NEW c \in Cores
  PROVE  Inbox(c) \in Seq(Words)
<1>1. fifo[c] \in Seq(Words) /\ fifo[0] \in Seq(Words)
  BY TypeFacts, CoreFacts
<1> QED
  BY <1>1 DEF Inbox, EntryInv

LEMMA InboxKept ==
  ASSUME fifo' = fifo, Entering' = Entering, NEW c \in Cores
  PROVE  Inbox(c)' = Inbox(c)
  BY DEF Inbox

LEMMA PushFacts ==
  ASSUME MulticoreTypeOK, NEW x \in Cores, NEW word \in Words, Push(x, word)
  PROVE  /\ fifo' \in [Cores -> Seq(Words)] /\ \A c \in Cores : Len(fifo'[c]) <= Depth
         /\ event' \in [Cores -> BOOLEAN]
         /\ fifo'[Other(x)] = Append(fifo[Other(x)], word) /\ fifo'[x] = fifo[x]
<1> DEFINE y == Other(x)
<1>0. y \in Cores /\ y # x /\ fifo \in [Cores -> Seq(Words)] /\ Depth \in Nat
      /\ (\A c \in Cores : Len(fifo[c]) <= Depth)
  BY TypeFacts, OtherFacts, FifoAssumption
<1>1. /\ fifo' = [fifo EXCEPT ![y] = Append(fifo[y], word)]
      /\ Len(fifo[y]) < Depth /\ event' = [c \in Cores |-> TRUE]
  BY DEF Push, WReady, Sev
<1> HIDE DEF y
<1>2. fifo[y] \in Seq(Words) /\ Append(fifo[y], word) \in Seq(Words)
      /\ Len(Append(fifo[y], word)) = Len(fifo[y]) + 1 /\ Len(fifo[y]) \in Nat
  BY <1>0
<1>3. fifo'[y] = Append(fifo[y], word) /\ (\A c \in Cores : c # y => fifo'[c] = fifo[c])
  BY <1>0, <1>1
<1>4. fifo' \in [Cores -> Seq(Words)] /\ \A c \in Cores : Len(fifo'[c]) <= Depth
  BY <1>0, <1>1, <1>2, <1>3
<1>5. event' \in [Cores -> BOOLEAN]
  BY <1>1
<1> QED
  BY <1>0, <1>3, <1>4, <1>5 DEF y

LEMMA PopFacts ==
  ASSUME MulticoreTypeOK, NEW x \in Cores, Pop(x)
  PROVE  /\ fifo' \in [Cores -> Seq(Words)] /\ \A c \in Cores : Len(fifo'[c]) <= Depth
         /\ event' = event /\ fifo[x] # << >>
         /\ fifo'[x] = Tail(fifo[x]) /\ fifo'[Other(x)] = fifo[Other(x)]
<1>0. Other(x) \in Cores /\ Other(x) # x /\ fifo \in [Cores -> Seq(Words)] /\ Depth \in Nat
      /\ (\A c \in Cores : Len(fifo[c]) <= Depth)
  BY TypeFacts, OtherFacts, FifoAssumption
<1>1. /\ fifo' = [fifo EXCEPT ![x] = Tail(fifo[x])]
      /\ fifo[x] # << >> /\ event' = event
  BY DEF Pop, RValid
<1>2. fifo[x] \in Seq(Words) /\ Tail(fifo[x]) \in Seq(Words)
      /\ Len(Tail(fifo[x])) = Len(fifo[x]) - 1 /\ Len(fifo[x]) \in Nat
  BY <1>0, <1>1
<1>3. fifo'[x] = Tail(fifo[x]) /\ (\A c \in Cores : c # x => fifo'[c] = fifo[c])
  BY <1>0, <1>1
<1>4. fifo' \in [Cores -> Seq(Words)] /\ \A c \in Cores : Len(fifo'[c]) <= Depth
  BY <1>0, <1>1, <1>2, <1>3
<1> QED
  BY <1>0, <1>1, <1>3, <1>4

LEMMA InboxPush ==
  ASSUME MulticoreTypeOK, EntryInv, NEW x \in Cores, NEW word \in Words,
         Push(x, word), Entering' = Entering
  PROVE  /\ Inbox(Other(x))' = Append(Inbox(Other(x)), word) /\ Inbox(x)' = Inbox(x)
         /\ fifo[0] # << >> => fifo'[0] # << >> /\ Head(fifo'[0]) = Head(fifo[0])
<1> DEFINE y == Other(x)
<1>1. /\ y \in Cores /\ y # x /\ fifo[y] \in Seq(Words)
      /\ fifo'[y] = Append(fifo[y], word) /\ fifo'[x] = fifo[x]
  BY TypeFacts, OtherFacts, PushFacts
<1>2. y = 0 \/ x = 0
  BY OtherFacts, CoreFacts
<1> HIDE DEF y
<1>3. fifo[y] # << >> => /\ Append(fifo[y], word) # << >>
                         /\ Head(Append(fifo[y], word)) = Head(fifo[y])
                         /\ Tail(Append(fifo[y], word)) = Append(Tail(fifo[y]), word)
  BY <1>1
<1>4. Inbox(y)' = Append(Inbox(y), word)
  BY <1>1, <1>3 DEF Inbox, EntryInv
<1>5. Inbox(x)' = Inbox(x)
  BY <1>1 DEF Inbox
<1>6. fifo[0] # << >> => fifo'[0] # << >> /\ Head(fifo'[0]) = Head(fifo[0])
  BY <1>1, <1>2, <1>3
<1> QED
  BY <1>4, <1>5, <1>6 DEF y

LEMMA InboxPop ==
  ASSUME MulticoreTypeOK, NEW x \in Cores,
         Pop(x), x = 0 => ~Entering, Entering' = Entering
  PROVE  /\ Inbox(x) = fifo[x] /\ Inbox(x) # << >>
         /\ Inbox(x)' = Tail(Inbox(x)) /\ Inbox(Other(x))' = Inbox(Other(x))
         /\ x # 0 => fifo'[0] = fifo[0]
<1> DEFINE y == Other(x)
<1>1. /\ y \in Cores /\ y # x /\ fifo[x] # << >>
      /\ fifo'[x] = Tail(fifo[x]) /\ fifo'[y] = fifo[y]
  BY OtherFacts, PopFacts
<1>2. y = 0 \/ x = 0
  BY OtherFacts, CoreFacts
<1> HIDE DEF y
<1>3. Inbox(x) = fifo[x] /\ Inbox(x)' = Tail(fifo[x]) /\ Inbox(y)' = Inbox(y)
  BY <1>1 DEF Inbox
<1> QED
  BY <1>1, <1>2, <1>3 DEF y

\* A core is left alone.
LEMMA ThreadKept ==
  ASSUME NEW y \in Cores, ThreadOf(y),
         at'[y] = at[y], call'[y] = call[y], phase'[y] = phase[y], isr'[y] = isr[y],
         irq_enabled'[y] = irq_enabled[y], saved'[y] = saved[y],
         Other(y) \in victims => Other(y) \in victims',
         (y \in victims') = (y \in victims), (y \in timed') = (y \in timed),
         (lockout_mutex' = y) = (lockout_mutex = y)
  PROVE  ThreadOf(y)'
<1>1. (InHandshake(y) <=> InHandshake(y)') /\ (Locking(y) <=> Locking(y)')
  BY DEF InHandshake, Locking
<1>2. HasMutex(y) <=> HasMutex(y)'
  BY <1>1 DEF HasMutex
<1>3. StageOf(y)'
  BY <1>1, <1>2 DEF ThreadOf, StageOf
<1>4. PhaseOf(y)'
  BY <1>1 DEF ThreadOf, PhaseOf
<1>5. IrqOf(y)'
  BY <1>1 DEF ThreadOf, IrqOf
<1> QED
  BY <1>3, <1>4, <1>5 DEF ThreadOf

LEMMA CommonSplit ==
  ASSUME NEW x \in Cores, MulticoreTypeOK', ThreadOf(x)', ThreadOf(Other(x))'
  PROVE  Common'
<1>1. \A c \in Cores : ThreadOf(c)'
  BY OtherFacts
<1> QED
  BY <1>1 DEF Common

(* The handler *)

LEMMA HandlerCommon ==
  ASSUME Common, NEW x \in Cores, HandlerStep(x), UNCHANGED <<launchVars, resets>>
  PROVE  Common'
<1> DEFINE y == Other(x)
<1>1. /\ y \in Cores /\ y # x /\ MulticoreTypeOK /\ ThreadOf(x) /\ ThreadOf(y)
      /\ isr \in [Cores -> HandlerStages] /\ event \in [Cores -> BOOLEAN]
  BY OtherFacts, TypeFacts DEF Common
<1> HIDE DEF y
<1>2. /\ UNCHANGED <<at, call, irq_enabled, saved, victims, lockout_mutex,
                     lockout_in_progress, phase, timed, left>>
      /\ UNCHANGED <<seq, core1, got, answer, resets>>
  BY DEF HandlerStep, threadVars, launchVars
<1>3. /\ \E g \in HandlerStages : isr' = [isr EXCEPT ![x] = g]
      /\ isr[x] = "off" => irq_enabled[x]
  BY <1>1 DEF HandlerStep, IsrEnter, IsrDrain, IsrAck, IsrPop, IsrLeave, IsrGo, HandlerStages
<1>4. /\ fifo' \in [Cores -> Seq(Words)] /\ \A c \in Cores : Len(fifo'[c]) <= Depth
      /\ event' \in [Cores -> BOOLEAN]
  <2>1. CASE fifo' = fifo /\ \E b \in BOOLEAN : event' = [event EXCEPT ![x] = b]
    BY <1>1, <2>1, TypeFacts
  <2>2. CASE fifo' = fifo /\ event' = event
    BY <1>1, <2>2, TypeFacts
  <2>3. CASE Pop(x)
    BY <1>1, <2>3, TypeFacts, PopFacts
  <2>4. CASE \E word \in Words : Push(x, word)
    BY <1>1, <2>4, PushFacts
  <2> QED
    BY <2>1, <2>2, <2>3, <2>4, MagicWords
    DEF HandlerStep, IsrEnter, IsrDrain, IsrAck, IsrPop, IsrLeave, Wfe
<1>5. PICK g \in HandlerStages : isr' = [isr EXCEPT ![x] = g]
  BY <1>3
<1>6. isr' \in [Cores -> HandlerStages] /\ isr'[y] = isr[y] /\ isr'[x] = g
  BY <1>1, <1>5
<1>7. MulticoreTypeOK'
  BY <1>1, <1>2, <1>4, <1>6, TypeFacts, TypeNext
<1>8. ThreadOf(y)'
  BY <1>1, <1>2, <1>6, ThreadKept
<1>9. ThreadOf(x)'
  <2>1. (InHandshake(x) <=> InHandshake(x)') /\ (Locking(x) <=> Locking(x)')
    BY <1>2 DEF InHandshake, Locking
  <2>2. HasMutex(x) <=> HasMutex(x)'
    BY <1>2, <2>1 DEF HasMutex
  <2>3. StageOf(x)'
    BY <1>1, <1>2, <2>1, <2>2 DEF ThreadOf, StageOf
  <2>4. PhaseOf(x)'
    BY <1>1, <1>2, <2>1 DEF ThreadOf, PhaseOf
  <2>5. ~InHandshake(x) /\ call[x].op # "launch" /\ x \in victims
    BY <1>1, <1>3 DEF ThreadOf, IrqOf
  <2>6. IrqOf(x)'
    BY <1>1, <1>2, <2>1, <2>5 DEF ThreadOf, IrqOf
  <2> QED
    BY <2>3, <2>4, <2>6 DEF ThreadOf
<1> QED
  BY <1>1, <1>7, <1>8, <1>9, CommonSplit DEF y

LEMMA CountType ==
  ASSUME NEW h, NEW r \in Seq(Words), NEW a \in Seq(Words)
  PROVE  Count(h, r, a) \in Nat
  BY DEF Count

\* Neither core's thread moves, and no word is put under way.
LEMMA AsksOn ==
  ASSUME NEW c \in Cores, Asks(c), UNCHANGED <<at, call, phase, timed, lockout_in_progress>>,
         MulticoreTypeOK, EntryInv, MulticoreTypeOK', EntryInv',
         Drains(isr'[c]),
         Conversation(Progress(c), isr'[Other(c)], Inbox(Other(c))', Inbox(c)'),
         Count(isr'[Other(c)], Inbox(Other(c))', Inbox(c)') <=
           Count(isr[Other(c)], Inbox(Other(c)), Inbox(c)),
         Inbox(Other(c))' \in Seq(Words), Inbox(c)' \in Seq(Words)
  PROVE  Asks(c)'
<1> DEFINE d == Other(c)
<1>1. d \in Cores /\ d # c /\ Other(d) = c
  BY OtherFacts
<1>2. Count(isr[d], Inbox(d), Inbox(c)) \in Nat /\ Count(isr'[d], Inbox(d)', Inbox(c)') \in Nat
  BY <1>1, InboxType, CountType
<1>3. /\ (InHandshake(d) <=> InHandshake(d)') /\ (Awaits(c) <=> Awaits(c)')
      /\ Progress(c)' = Progress(c)
  BY DEF InHandshake, Awaits, Locking, Progress
<1>4. Waits(d)'
  BY <1>1, <1>3 DEF Asks, Waits
<1>5. ASSUME c \notin timed'
      PROVE  Count(isr'[d], Inbox(d)', Inbox(c)') <= IF Awaits(c)' THEN 1 ELSE 0
  BY <1>2, <1>3, <1>5 DEF Asks
<1>6. Conversation(Progress(c)', isr'[d], Inbox(d)', Inbox(c)')
  BY <1>3
<1>7. (lockout_in_progress' <=> phase'[c] \in {"held", "ending"}) /\ timed' \subseteq {c}
  BY DEF Asks
<1> QED
  BY <1>4, <1>5, <1>6, <1>7 DEF Asks

LEMMA AskerFacts ==
  ASSUME Common, EntryInv, NEW c \in Cores, Asks(c)
  PROVE  LET d == Other(c) IN
         /\ d \in Cores /\ d # c /\ Other(d) = c
         /\ Inbox(c) \in Seq(Words) /\ Inbox(d) \in Seq(Words)
         /\ Count(isr[d], Inbox(d), Inbox(c)) \in Nat
         /\ Conversation(Progress(c), isr[d], Inbox(d), Inbox(c))
         /\ Drains(isr[c]) /\ timed \subseteq {c}
         /\ isr \in [Cores -> HandlerStages] /\ ThreadOf(c) /\ ThreadOf(d)
         /\ MulticoreTypeOK
  BY OtherFacts, TypeFacts, InboxType, CountType DEF Common, Asks

LEMMA SequenceSteps ==
  ASSUME NEW s \in Seq(Words)
  PROVE  /\ s # << >> => Tail(s) \in Seq(Words)
         /\ \A word \in Words : Append(s, word) \in Seq(Words)
  OBVIOUS

LEMMA HandlerEntry ==
  ASSUME Common, EntryInv, NEW x \in Cores, HandlerStep(x), UNCHANGED <<launchVars, resets>>
  PROVE  EntryInv' /\ Entering' = Entering /\ (x = 0 => ~Entering)
<1>1. Common'
  BY HandlerCommon
<1>2. UNCHANGED <<at, call, seq>>
  BY DEF HandlerStep, launchVars
<1>3. Entering' = Entering /\ Launching' = Launching
  BY <1>2 DEF Entering, Launching
<1>4. ThreadOf(x) /\ MulticoreTypeOK /\ 0 \in Cores
  BY CoreFacts DEF Common
<1>5. x = 0 => ~Launching
  BY <1>4 DEF HandlerStep, IsrEnter, IsrDrain, IsrAck, IsrPop, IsrLeave, ThreadOf, IrqOf, Launching
<1>6. x = 0 => ~Entering
  BY <1>5 DEF Entering
<1>7. Entering => fifo'[0] # << >> /\ Head(fifo'[0]) = Head(fifo[0])
  <2>1. CASE fifo' = fifo
    BY <2>1 DEF EntryInv
  <2>2. CASE Pop(x)
    BY <1>3, <1>4, <1>6, <2>2, InboxPop DEF EntryInv
  <2>3. CASE \E word \in Words : Push(x, word)
    <3>1. PICK word \in Words : Push(x, word)
      BY <2>3
    <3>2. fifo[0] # << >> => fifo'[0] # << >> /\ Head(fifo'[0]) = Head(fifo[0])
      BY <1>3, <1>4, <3>1, InboxPush
    <3> QED
      BY <3>2 DEF EntryInv
  <2> QED
    BY <2>1, <2>2, <2>3, MagicWords
    DEF HandlerStep, IsrEnter, IsrDrain, IsrAck, IsrPop, IsrLeave, Wfe
<1>8. EntryInv'
  BY <1>2, <1>3, <1>7 DEF EntryInv
<1> QED
  BY <1>3, <1>6, <1>8

\* The handler of the core that is asked.
LEMMA HandlerAsked ==
  ASSUME Common, EntryInv, NEW c \in Cores, Asks(c),
         HandlerStep(Other(c)), UNCHANGED <<launchVars, resets>>
  PROVE  Asks(c)'
<1> DEFINE d == Other(c)
           r == Inbox(d)
           a == Inbox(c)
           e == Progress(c)
           rr == Inbox(d)'
           aa == Inbox(c)'
<1>1. /\ d \in Cores /\ d # c /\ Other(d) = c
      /\ r \in Seq(Words) /\ a \in Seq(Words) /\ Count(isr[d], r, a) \in Nat
      /\ Conversation(e, isr[d], r, a) /\ Drains(isr[c])
      /\ isr \in [Cores -> HandlerStages] /\ MulticoreTypeOK
  BY AskerFacts
<1>2. UNCHANGED <<at, call, phase, timed, lockout_in_progress>>
  BY DEF HandlerStep, threadVars
<1>3. MulticoreTypeOK' /\ EntryInv' /\ Entering' = Entering /\ (d = 0 => ~Entering)
  BY <1>1, HandlerCommon, HandlerEntry DEF Common
<1>4. SUFFICES /\ isr'[c] = isr[c] /\ Conversation(e, isr'[d], rr, aa)
               /\ Count(isr'[d], rr, aa) <= Count(isr[d], r, a)
               /\ rr \in Seq(Words) /\ aa \in Seq(Words)
  BY <1>1, <1>2, <1>3, AsksOn
<1>5. fifo' = fifo => rr = r /\ aa = a
  BY <1>1, <1>3, InboxKept
<1>6. Pop(d) => r = fifo[d] /\ r # << >> /\ rr = Tail(r) /\ aa = a
  BY <1>1, <1>3, InboxPop
<1>7. ASSUME NEW word \in Words, Push(d, word) PROVE rr = r /\ aa = Append(a, word)
  BY <1>1, <1>3, <1>7, InboxPush
<1>8. /\ r # << >> => Tail(r) \in Seq(Words)
      /\ \A word \in Words : Append(a, word) \in Seq(Words)
  BY <1>1, SequenceSteps
<1>9. "START" \in Words /\ "END" \in Words
  BY MagicWords
<1> HIDE DEF d, r, a, e, rr, aa
<1>10. ASSUME NEW g, isr' = [isr EXCEPT ![d] = g] PROVE isr'[c] = isr[c] /\ isr'[d] = g
  BY <1>1, <1>10
<1>11. CASE fifo' = fifo /\ \E g \in HandlerStages :
              /\ isr' = [isr EXCEPT ![d] = g]
              /\ (Drains(isr[d]) /\ Drains(g)) \/ (Spins(isr[d]) /\ Spins(g))
  <2>1. PICK g \in HandlerStages :
              /\ isr' = [isr EXCEPT ![d] = g]
              /\ (Drains(isr[d]) /\ Drains(g)) \/ (Spins(isr[d]) /\ Spins(g))
    BY <1>11
  <2>2. Conversation(e, g, r, a) /\ Count(g, r, a) = Count(isr[d], r, a)
    BY <1>1, <2>1, ConverseIsr
  <2> QED
    BY <1>1, <1>5, <1>10, <1>11, <2>1, <2>2
<1>12. CASE isr[d] = "drain" /\ Pop(d)
            /\ isr' = [isr EXCEPT ![d] = IF AsksLockout(Head(fifo[d])) THEN "ack" ELSE "drain"]
  <2> DEFINE g == IF AsksLockout(Head(r)) THEN "ack" ELSE "drain"
  <2>1. r # << >> /\ r = fifo[d] /\ rr = Tail(r) /\ aa = a
    BY <1>6, <1>12
  <2>2. isr' = [isr EXCEPT ![d] = g]
    BY <1>12, <2>1
  <2>3. Conversation(e, "drain", r, a)
    BY <1>1, <1>12
  <2>4. Conversation(e, g, Tail(r), a) /\ Count(g, Tail(r), a) <= Count("drain", r, a)
    BY <1>1, <2>1, <2>3, ConverseDrain
  <2> HIDE DEF g
  <2>5. isr'[c] = isr[c] /\ isr'[d] = g
    BY <1>10, <2>2
  <2>6. Count("drain", r, a) = Count(isr[d], r, a)
    BY <1>12
  <2>7. Conversation(e, isr'[d], rr, aa) /\ Count(isr'[d], rr, aa) <= Count(isr[d], r, a)
    BY <2>1, <2>4, <2>5, <2>6
  <2>8. rr \in Seq(Words) /\ aa \in Seq(Words)
    BY <1>1, <1>8, <2>1
  <2> QED
    BY <2>5, <2>7, <2>8
<1>13. CASE isr[d] = "ack" /\ Push(d, "START") /\ isr' = [isr EXCEPT ![d] = "pop"]
  <2>1. rr = r /\ aa = Append(a, "START") /\ isr'[c] = isr[c] /\ isr'[d] = "pop"
    BY <1>7, <1>9, <1>10, <1>13
  <2>2. Conversation(e, "ack", r, a)
    BY <1>1, <1>13
  <2>3. /\ Conversation(e, "pop", r, Append(a, "START"))
        /\ Count("pop", r, Append(a, "START")) = Count(isr[d], r, a)
    BY <1>1, <1>13, <2>2, ConverseAck
  <2> QED
    BY <1>1, <1>8, <1>9, <2>1, <2>3
<1>14. CASE isr[d] = "pop" /\ Pop(d)
            /\ isr' = [isr EXCEPT ![d] = IF EndsLockout(Head(fifo[d])) THEN "leave" ELSE "pop"]
  <2> DEFINE g == IF EndsLockout(Head(r)) THEN "leave" ELSE "pop"
  <2>1. r # << >> /\ r = fifo[d] /\ rr = Tail(r) /\ aa = a
    BY <1>6, <1>14
  <2>2. isr' = [isr EXCEPT ![d] = g]
    BY <1>14, <2>1
  <2>3. Conversation(e, "pop", r, a)
    BY <1>1, <1>14
  <2>4. Conversation(e, g, Tail(r), a) /\ Count(g, Tail(r), a) <= Count("pop", r, a)
    BY <1>1, <2>1, <2>3, ConversePop
  <2> HIDE DEF g
  <2>5. isr'[c] = isr[c] /\ isr'[d] = g
    BY <1>10, <2>2
  <2>6. Count("pop", r, a) = Count(isr[d], r, a)
    BY <1>14
  <2>7. Conversation(e, isr'[d], rr, aa) /\ Count(isr'[d], rr, aa) <= Count(isr[d], r, a)
    BY <2>1, <2>4, <2>5, <2>6
  <2>8. rr \in Seq(Words) /\ aa \in Seq(Words)
    BY <1>1, <1>8, <2>1
  <2> QED
    BY <2>5, <2>7, <2>8
<1>15. CASE isr[d] = "leave" /\ Push(d, "END") /\ isr' = [isr EXCEPT ![d] = "drain"]
  <2>1. rr = r /\ aa = Append(a, "END") /\ isr'[c] = isr[c] /\ isr'[d] = "drain"
    BY <1>7, <1>9, <1>10, <1>15
  <2>2. Conversation(e, "leave", r, a)
    BY <1>1, <1>15
  <2>3. /\ Conversation(e, "drain", r, Append(a, "END"))
        /\ Count("drain", r, Append(a, "END")) = Count(isr[d], r, a)
    BY <1>1, <1>15, <2>2, ConverseLeave
  <2> QED
    BY <1>1, <1>8, <1>9, <2>1, <2>3
<1>16. HandlerStep(d)
  BY DEF d
<1>17. CASE IsrEnter(d)
  <2>1. isr[d] = "off" /\ isr' = [isr EXCEPT ![d] = "drain"] /\ fifo' = fifo
    BY <1>17 DEF IsrEnter, IsrGo
  <2>2. Drains("off") /\ Drains("drain") /\ "drain" \in HandlerStages
    BY DEF Drains, HandlerStages
  <2>3. /\ "drain" \in HandlerStages
        /\ isr' = [isr EXCEPT ![d] = "drain"]
        /\ (Drains(isr[d]) /\ Drains("drain")) \/ (Spins(isr[d]) /\ Spins("drain"))
    BY <2>1, <2>2 DEF Drains
  <2> QED
    BY <1>11, <2>1, <2>3
<1>18. CASE IsrDrain(d)
  <2>1. Drains("off") /\ Drains("drain") /\ "off" \in HandlerStages
    BY DEF Drains, HandlerStages
  <2>2. CASE isr[d] = "drain" /\ isr' = [isr EXCEPT ![d] = "off"] /\ fifo' = fifo
    <3>1. /\ "off" \in HandlerStages
          /\ isr' = [isr EXCEPT ![d] = "off"]
          /\ (Drains(isr[d]) /\ Drains("off")) \/ (Spins(isr[d]) /\ Spins("off"))
      BY <2>1, <2>2 DEF Drains
    <3> QED
      BY <1>11, <2>2, <3>1
  <2> QED
    BY <1>12, <1>18, <2>2 DEF IsrDrain, IsrGo
<1>19. CASE IsrPop(d)
  BY <1>11, <1>14, <1>19 DEF IsrPop, IsrGo, Wfe, HandlerStages, Spins
<1> QED
  BY <1>13, <1>15, <1>16, <1>17, <1>18, <1>19 DEF HandlerStep, IsrAck, IsrLeave, IsrGo

\* The handler of the core that asks has nothing to read.
LEMMA HandlerAsking ==
  ASSUME Common, EntryInv, NEW c \in Cores, Asks(c),
         HandlerStep(c), UNCHANGED <<launchVars, resets>>
  PROVE  Asks(c)'
<1> DEFINE d == Other(c)
<1>1. /\ d \in Cores /\ d # c /\ Other(d) = c
      /\ Inbox(c) \in Seq(Words) /\ Inbox(d) \in Seq(Words)
      /\ Count(isr[d], Inbox(d), Inbox(c)) \in Nat
      /\ Conversation(Progress(c), isr[d], Inbox(d), Inbox(c)) /\ Drains(isr[c])
      /\ isr \in [Cores -> HandlerStages] /\ MulticoreTypeOK /\ ThreadOf(c)
  BY AskerFacts
<1>2. UNCHANGED <<at, call, phase, timed, lockout_in_progress>>
  BY DEF HandlerStep, threadVars
<1>3. MulticoreTypeOK' /\ EntryInv' /\ Entering' = Entering /\ (c = 0 => ~Entering)
  BY HandlerCommon, HandlerEntry DEF Common
<1>4. c \in victims /\ ~InHandshake(c)
  BY <1>1 DEF HandlerStep, IsrEnter, IsrDrain, IsrAck, IsrPop, IsrLeave, ThreadOf, IrqOf
<1>5. c \notin timed /\ ~Awaits(c)
  BY <1>1, <1>4 DEF ThreadOf, IrqOf, Awaits
<1>6. Count(isr[d], Inbox(d), Inbox(c)) <= 0
  BY <1>5 DEF Asks
<1>7. Inbox(c) = << >>
  BY <1>1, <1>6, SilentConversation
<1>8. fifo[c] = << >>
  BY <1>3, <1>7 DEF Inbox
<1>9. /\ fifo' = fifo
      /\ \E g \in HandlerStages : isr' = [isr EXCEPT ![c] = g] /\ Drains(g)
  BY <1>1, <1>8
  DEF HandlerStep, IsrEnter, IsrDrain, IsrAck, IsrPop, IsrLeave, IsrGo, Pop, RValid, Drains, HandlerStages
<1>10. Drains(isr'[c]) /\ isr'[d] = isr[d]
  BY <1>1, <1>9
<1>11. Inbox(c)' = Inbox(c) /\ Inbox(d)' = Inbox(d)
  BY <1>1, <1>3, <1>9, InboxKept
<1> QED
  BY <1>1, <1>2, <1>3, <1>10, <1>11, AsksOn

LEMMA HandlerApp ==
  ASSUME Common, AppInv, NEW x \in Cores, HandlerStep(x), UNCHANGED <<launchVars, resets>>
  PROVE  Common' /\ AppInv'
<1>1. Common' /\ EntryInv'
  BY HandlerCommon, HandlerEntry DEF AppInv
<1>2. core1' = core1 /\ got' = got
  BY DEF launchVars
<1>3. PICK c \in Cores : Asks(c)
  BY DEF AppInv
<1>4. Asks(c)'
  <2>1. CASE x = c
    BY <1>3, <2>1, HandlerAsking DEF AppInv
  <2>2. CASE x = Other(c)
    BY <1>3, <2>2, HandlerAsked DEF AppInv
  <2> QED
    BY <2>1, <2>2, OtherFacts
<1> QED
  BY <1>1, <1>2, <1>3, <1>4 DEF AppInv

(* The functions *)

\* The core has entered no mutex and the other one has not moved.
LEMMA ActorFacts ==
  ASSUME Common, NEW x \in Cores
  PROVE  LET y == Other(x) IN
         /\ y \in Cores /\ y # x /\ Other(y) = x /\ NoCore \notin Cores
         /\ MulticoreTypeOK /\ ThreadOf(x) /\ ThreadOf(y)
         /\ at \in [Cores -> Stages] /\ call \in [Cores -> Calls]
         /\ irq_enabled \in [Cores -> BOOLEAN] /\ saved \in [Cores -> BOOLEAN]
         /\ isr \in [Cores -> HandlerStages] /\ phase \in [Cores -> Phases]
         /\ victims \subseteq Cores /\ timed \subseteq Cores
         /\ left \in [Cores -> Nat] /\ lockout_in_progress \in BOOLEAN
         /\ NoCall \in Calls /\ NoCall.op = "none" /\ NoCall.time = Never
  BY OtherFacts, TypeFacts, LockoutAssumption
  DEF Common, NoCall, Calls, Never, Clock

LEMMA EnterMutexCommon ==
  ASSUME Common, NEW x \in Cores, ThreadRuns(x), EnterMutex(x), UNCHANGED <<launchVars, resets>>
  PROVE  Common'
<1> DEFINE y == Other(x)
<1>1. /\ y \in Cores /\ y # x /\ NoCore \notin Cores
      /\ MulticoreTypeOK /\ ThreadOf(x) /\ ThreadOf(y)
      /\ at \in [Cores -> Stages] /\ call \in [Cores -> Calls]
      /\ NoCall \in Calls /\ NoCall.op = "none" /\ NoCall.time = Never
  BY ActorFacts
<1> HIDE DEF y
<1>2. /\ at[x] = "mutex"
      /\ UNCHANGED <<fifo, event, irq_enabled, saved, isr, victims,
                     lockout_in_progress, phase, timed, left>>
      /\ UNCHANGED <<seq, core1, got, answer, resets>>
      /\ \/ /\ lockout_mutex = NoCore /\ lockout_mutex' = x /\ call' = call
            /\ at' = [at EXCEPT ![x] = "locked"]
         \/ /\ lockout_mutex # NoCore /\ lockout_mutex' = lockout_mutex /\ TimeReached(x)
            /\ at' = [at EXCEPT ![x] = "idle"] /\ call' = [call EXCEPT ![x] = NoCall]
  BY DEF EnterMutex, Go, launchVars
<1>3. "locked" \in Stages /\ "idle" \in Stages
  BY DEF Stages, ThreadStages
<1>4. MulticoreTypeOK'
  <2>1. at' \in [Cores -> Stages] /\ call' \in [Cores -> Calls]
    BY <1>1, <1>2, <1>3
  <2>2. lockout_mutex' \in Cores \cup {NoCore}
    BY <1>1, <1>2, TypeFacts
  <2> QED
    BY <1>1, <1>2, <2>1, <2>2, TypeFacts, TypeNext
<1>5. ThreadOf(y)'
  BY <1>1, <1>2, ThreadKept
<1>6. ThreadOf(x)'
  <2>1. Locking(x) /\ lockout_mutex # x
    BY <1>1, <1>2 DEF ThreadOf, StageOf, ThreadStages, HasMutex, InHandshake
  <2>2. CASE /\ lockout_mutex' = x /\ call' = call /\ at'[x] = "locked"
    BY <1>1, <1>2, <2>1, <2>2
    DEF ThreadOf, StageOf, PhaseOf, IrqOf, ThreadStages, HasMutex, InHandshake, Locking
  <2>3. CASE /\ lockout_mutex' # x /\ TimeReached(x) /\ call'[x] = NoCall /\ at'[x] = "idle"
    <3>1. x \in timed
      BY <1>1, <2>3 DEF ThreadOf, PhaseOf, TimeReached, Never
    <3> QED
      BY <1>1, <1>2, <2>1, <2>3, <3>1
      DEF ThreadOf, StageOf, PhaseOf, IrqOf, ThreadStages, HasMutex, InHandshake, Locking
  <2> QED
    BY <1>1, <1>2, <2>1, <2>2, <2>3
<1> QED
  BY <1>4, <1>5, <1>6, CommonSplit DEF y

LEMMA BeginHandshakeCommon ==
  ASSUME Common, NEW x \in Cores, ThreadRuns(x), BeginHandshake(x), UNCHANGED <<launchVars, resets>>
  PROVE  Common'
<1> DEFINE y == Other(x)
<1>1. /\ y \in Cores /\ y # x
      /\ MulticoreTypeOK /\ ThreadOf(x) /\ ThreadOf(y)
      /\ at \in [Cores -> Stages] /\ call \in [Cores -> Calls]
      /\ irq_enabled \in [Cores -> BOOLEAN] /\ saved \in [Cores -> BOOLEAN]
  BY ActorFacts
<1> HIDE DEF y
<1>2. /\ at[x] = "locked" /\ isr[x] = "off"
      /\ UNCHANGED <<fifo, event, call, isr, victims, lockout_mutex,
                     lockout_in_progress, phase, timed, left>>
      /\ UNCHANGED <<seq, core1, got, answer, resets>>
      /\ at' = [at EXCEPT ![x] = "head"]
      /\ saved' = [saved EXCEPT ![x] = irq_enabled[x]]
      /\ irq_enabled' = [irq_enabled EXCEPT ![x] = FALSE]
  BY DEF BeginHandshake, DisableIrq, Go, launchVars, lockoutVars, threadVars, ThreadRuns
<1>3. "head" \in Stages
  BY DEF Stages, ThreadStages
<1>4. MulticoreTypeOK'
  BY <1>1, <1>2, <1>3, TypeFacts, TypeNext
<1>5. ThreadOf(y)'
  BY <1>1, <1>2, ThreadKept
<1>6. ThreadOf(x)'
  <2>1. Locking(x) /\ lockout_mutex = x
    BY <1>1, <1>2 DEF ThreadOf, StageOf, ThreadStages, HasMutex, InHandshake
  <2>2. at'[x] = "head" /\ irq_enabled'[x] = FALSE /\ saved'[x] = irq_enabled[x]
    BY <1>1, <1>2
  <2> QED
    BY <1>1, <1>2, <2>1, <2>2
    DEF ThreadOf, StageOf, PhaseOf, IrqOf, ThreadStages, HasMutex, InHandshake, Locking
<1> QED
  BY <1>4, <1>5, <1>6, CommonSplit DEF y

\* A step inside the handshake, before it has ended.
LEMMA HandshakeCommon ==
  ASSUME Common, NEW x \in Cores, InHandshake(x),
         NEW s \in {"head", "push", "check", "pop", "wfe", "done", "failed"},
         at' = [at EXCEPT ![x] = s], s = "failed" => x \in timed,
         fifo' \in [Cores -> Seq(Words)], \A c \in Cores : Len(fifo'[c]) <= Depth,
         event' \in [Cores -> BOOLEAN],
         UNCHANGED <<call, irq_enabled, saved, lockoutVars, launchVars, resets>>
  PROVE  Common'
<1> DEFINE y == Other(x)
<1>1. /\ y \in Cores /\ y # x
      /\ MulticoreTypeOK /\ ThreadOf(x) /\ ThreadOf(y)
      /\ at \in [Cores -> Stages]
  BY ActorFacts
<1> HIDE DEF y
<1>2. /\ UNCHANGED <<call, irq_enabled, saved, isr, victims, lockout_mutex,
                     lockout_in_progress, phase, timed, left>>
      /\ UNCHANGED <<seq, core1, got, answer, resets>>
  BY DEF launchVars, lockoutVars, threadVars
<1>3. s \in Stages
  BY DEF Stages, ThreadStages
<1>4. MulticoreTypeOK'
  BY <1>1, <1>2, <1>3, TypeFacts, TypeNext
<1>5. ThreadOf(y)'
  BY <1>1, <1>2, ThreadKept
<1>6. ThreadOf(x)'
  <2>1. at'[x] = s /\ InHandshake(x)' /\ Locking(x) /\ Locking(x)'
    BY <1>1, <1>2 DEF InHandshake, Locking
  <2>2. HasMutex(x) /\ HasMutex(x)'
    BY <2>1 DEF HasMutex
  <2>3. StageOf(x)'
    BY <1>1, <1>2, <2>1, <2>2 DEF ThreadOf, StageOf, Locking
  <2>4. PhaseOf(x)'
    BY <1>1, <1>2, <2>1 DEF ThreadOf, PhaseOf, InHandshake, Locking
  <2>5. IrqOf(x)'
    BY <1>1, <1>2, <2>1 DEF ThreadOf, IrqOf
  <2> QED
    BY <2>3, <2>4, <2>5 DEF ThreadOf
<1> QED
  BY <1>4, <1>5, <1>6, CommonSplit DEF y

LEMMA EndHandshakeCommon ==
  ASSUME Common, NEW x \in Cores, ThreadRuns(x), EndHandshake(x), UNCHANGED <<launchVars, resets>>
  PROVE  Common'
<1> DEFINE y == Other(x)
<1>1. /\ y \in Cores /\ y # x
      /\ MulticoreTypeOK /\ ThreadOf(x) /\ ThreadOf(y)
      /\ at \in [Cores -> Stages] /\ call \in [Cores -> Calls]
      /\ irq_enabled \in [Cores -> BOOLEAN] /\ saved \in [Cores -> BOOLEAN]
      /\ phase \in [Cores -> Phases] /\ lockout_in_progress \in BOOLEAN
  BY ActorFacts
<1> HIDE DEF y
<1>2. /\ at[x] \in {"done", "failed"}
      /\ UNCHANGED <<fifo, event, call, saved, isr, victims, lockout_mutex, timed, left>>
      /\ UNCHANGED <<seq, core1, got, answer, resets>>
      /\ at' = [at EXCEPT ![x] = "unlock"]
      /\ irq_enabled' = [irq_enabled EXCEPT ![x] = saved[x]]
      /\ lockout_in_progress' = InProgressAfter(x, at[x] = "done")
      /\ phase' = [phase EXCEPT ![x] = Progress(x)]
  <2>1. (CASE ~(at[x] = "done") -> phase[x]
           [] at[x] = "done" /\ phase[x] = "asked" -> "held"
           [] OTHER -> "none") = Progress(x)
    BY DEF Progress
  <2> QED
    BY <2>1 DEF EndHandshake, Go, launchVars
<1>3. Progress(x) \in Phases
  BY <1>1 DEF Progress, Phases
<1>4. InProgressAfter(x, at[x] = "done") \in BOOLEAN
  BY <1>1 DEF InProgressAfter
<1>5. "unlock" \in Stages
  BY DEF Stages, ThreadStages
<1>6. MulticoreTypeOK'
  BY <1>1, <1>2, <1>3, <1>4, <1>5, TypeFacts, TypeNext
<1>7. ThreadOf(y)'
  BY <1>1, <1>2, ThreadKept
<1>8. ThreadOf(x)'
  <2>1. InHandshake(x) /\ Locking(x) /\ lockout_mutex = x
    BY <1>1, <1>2 DEF ThreadOf, StageOf, ThreadStages, HasMutex, InHandshake
  <2>2. /\ at'[x] = "unlock" /\ irq_enabled'[x] = saved[x] /\ phase'[x] = Progress(x)
        /\ call'[x] = call[x]
    BY <1>1, <1>2, <1>3
  <2>3. ~InHandshake(x)' /\ HasMutex(x)' /\ Locking(x)'
    BY <2>1, <2>2 DEF InHandshake, HasMutex, Locking
  <2>4. StageOf(x)'
    BY <1>1, <1>2, <2>1, <2>2, <2>3 DEF ThreadOf, StageOf, Locking
  <2>5. PhaseOf(x)'
    BY <1>1, <1>2, <2>1, <2>2 DEF ThreadOf, PhaseOf, Locking, Progress
  <2>6. IrqOf(x)'
    BY <1>1, <1>2, <2>1, <2>2, <2>3 DEF ThreadOf, IrqOf, Locking
  <2> QED
    BY <2>4, <2>5, <2>6 DEF ThreadOf
<1> QED
  BY <1>6, <1>7, <1>8, CommonSplit DEF y

LEMMA ExitMutexCommon ==
  ASSUME Common, NEW x \in Cores, ThreadRuns(x), ExitMutex(x), UNCHANGED <<launchVars, resets>>
  PROVE  Common'
<1> DEFINE y == Other(x)
<1>1. /\ y \in Cores /\ y # x /\ NoCore \notin Cores
      /\ MulticoreTypeOK /\ ThreadOf(x) /\ ThreadOf(y)
      /\ at \in [Cores -> Stages] /\ call \in [Cores -> Calls]
      /\ NoCall \in Calls /\ NoCall.op = "none" /\ NoCall.time = Never
  BY ActorFacts
<1> HIDE DEF y
<1>2. /\ at[x] = "unlock"
      /\ UNCHANGED <<fifo, event, irq_enabled, saved, isr, victims,
                     lockout_in_progress, phase, timed, left>>
      /\ UNCHANGED <<seq, core1, got, answer, resets>>
      /\ lockout_mutex' = NoCore
      /\ at' = [at EXCEPT ![x] = "idle"] /\ call' = [call EXCEPT ![x] = NoCall]
  BY DEF ExitMutex, Go, launchVars
<1>3. "idle" \in Stages
  BY DEF Stages
<1>4. MulticoreTypeOK'
  BY <1>1, <1>2, <1>3, TypeFacts, TypeNext
<1>5. lockout_mutex = x /\ Locking(x)
  BY <1>1, <1>2 DEF ThreadOf, StageOf, ThreadStages, HasMutex
<1>6. ThreadOf(y)'
  BY <1>1, <1>2, <1>5, ThreadKept
<1>7. ThreadOf(x)'
  <2>1. at'[x] = "idle" /\ call'[x] = NoCall
    BY <1>1, <1>2
  <2> QED
    BY <1>1, <1>2, <1>5, <2>1
    DEF ThreadOf, StageOf, PhaseOf, IrqOf, ThreadStages, HasMutex, InHandshake, Locking
<1> QED
  BY <1>4, <1>6, <1>7, CommonSplit DEF y

(* The functions while core 1 runs its program *)

LEMMA EntryKept ==
  ASSUME Common, NEW x \in Cores, call[x].op # "launch", call'[x].op # "launch",
         at'[Other(x)] = at[Other(x)], call'[Other(x)] = call[Other(x)]
  PROVE  Entering' = Entering /\ Launching' = Launching /\ (x = 0 => ~Launching)
<1>1. x = 0 \/ Other(x) = 0
  BY OtherFacts, CoreFacts
<1> QED
  BY <1>1 DEF Entering, Launching

LEMMA EntryOn ==
  ASSUME EntryInv, Entering' = Entering, Launching' = Launching, seq' = seq,
         at'[0] = at[0] \/ ~Launching,
         Entering => fifo'[0] # << >> /\ Head(fifo'[0]) = Head(fifo[0])
  PROVE  EntryInv'
  BY DEF EntryInv

\* A step that moves no word of the conversation.
LEMMA AsksSame ==
  ASSUME NEW c \in Cores, Asks(c), isr' = isr,
         Inbox(c)' = Inbox(c), Inbox(Other(c))' = Inbox(Other(c)),
         timed' = timed, phase' = phase, lockout_in_progress' = lockout_in_progress,
         Waits(Other(c))', (at'[c] = "done") = (at[c] = "done"),
         Awaits(c) => Awaits(c)' \/ c \in timed,
         EntryInv, MulticoreTypeOK
  PROVE  Asks(c)'
<1> DEFINE d == Other(c)
<1>1. d \in Cores /\ d # c
  BY OtherFacts
<1>2. Progress(c)' = Progress(c)
  BY <1>1 DEF Progress
<1>3. Count(isr[d], Inbox(d), Inbox(c)) \in Nat
  BY <1>1, InboxType, CountType
<1>4. ASSUME c \notin timed'
      PROVE  Count(isr'[d], Inbox(d)', Inbox(c)') <= IF Awaits(c)' THEN 1 ELSE 0
  BY <1>2, <1>3, <1>4 DEF Asks
<1> QED
  BY <1>1, <1>2, <1>4 DEF Asks

LEMMA AsksKept ==
  ASSUME NEW c \in Cores, Asks(c), fifo' = fifo, Entering' = Entering, isr' = isr,
         timed' = timed, phase' = phase, lockout_in_progress' = lockout_in_progress,
         Waits(Other(c))', (at'[c] = "done") = (at[c] = "done"),
         Awaits(c) => Awaits(c)' \/ c \in timed,
         EntryInv, MulticoreTypeOK
  PROVE  Asks(c)'
<1>1. Inbox(c)' = Inbox(c) /\ Inbox(Other(c))' = Inbox(Other(c))
  BY OtherFacts, InboxKept
<1> QED
  BY <1>1, AsksSame

LEMMA WaitsKept ==
  ASSUME NEW c \in Cores, Waits(Other(c)), at'[Other(c)] = at[Other(c)],
         call'[Other(c)] = call[Other(c)], phase' = phase
  PROVE  Waits(Other(c))'
  BY DEF Waits, InHandshake, Locking

\* No conversation is going on when another core has, or may take, the mutex.
LEMMA NobodyAsks ==
  ASSUME Common, EntryInv, NEW c \in Cores, Asks(c), ~HasMutex(c),
         c \in victims, isr[Other(c)] = "off"
  PROVE  /\ Inbox(c) = << >> /\ Inbox(Other(c)) = << >>
         /\ phase[c] \in {"none", "asked"} /\ timed = {} /\ ~lockout_in_progress
         /\ phase[c] = "asked" => at[c] = "mutex" /\ Locking(c)
         /\ ~InHandshake(c)
<1> DEFINE d == Other(c)
<1>1. /\ d \in Cores /\ d # c /\ Other(d) = c
      /\ Inbox(c) \in Seq(Words) /\ Inbox(d) \in Seq(Words)
      /\ Count(isr[d], Inbox(d), Inbox(c)) \in Nat
      /\ Conversation(Progress(c), isr[d], Inbox(d), Inbox(c)) /\ timed \subseteq {c}
      /\ ThreadOf(c) /\ MulticoreTypeOK
  BY AskerFacts
<1>2. c \notin timed /\ timed = {}
  BY <1>1 DEF ThreadOf, IrqOf
<1>3. ~InHandshake(c) /\ ~Awaits(c) /\ at[c] \notin {"locked", "unlock"}
  BY DEF HasMutex, Awaits
<1>4. Count(isr[d], Inbox(d), Inbox(c)) <= 0
  BY <1>2, <1>3 DEF Asks
<1>5. Inbox(c) = << >> /\ Inbox(d) = << >>
  BY <1>1, <1>4, SilentConversation
<1>6. at[c] # "done"
  BY <1>1, <1>3 DEF ThreadOf, StageOf, ThreadStages, InHandshake
<1>7. Progress(c) = phase[c]
  BY <1>6 DEF Progress
<1>8. phase[c] \in {"none", "asked"}
  BY <1>1, <1>5, <1>7 DEF Conversation, Drains, Spins
<1>9. ~lockout_in_progress
  BY <1>8 DEF Asks
<1>10. phase[c] = "asked" => at[c] = "mutex" /\ Locking(c)
  <2>1. phase[c] = "asked" => Locking(c) /\ call[c].op = "start" /\ at[c] # "idle"
    BY <1>1, <1>2, <1>8 DEF ThreadOf, PhaseOf, StageOf, Locking
  <2>2. at[c] \in Stages
    BY <1>1, TypeFacts
  <2> QED
    BY <1>1, <1>3, <2>1, <2>2 DEF ThreadOf, StageOf, InHandshake, Stages, ThreadStages
<1> QED
  BY <1>2, <1>3, <1>5, <1>8, <1>9, <1>10

LEMMA EnterMutexApp ==
  ASSUME Common, EntryInv, NEW c \in Cores, Asks(c), NEW x \in Cores,
         ThreadRuns(x), EnterMutex(x), UNCHANGED <<launchVars, resets>>
  PROVE  EntryInv' /\ \E b \in Cores : Asks(b)'
<1> DEFINE d == Other(c)
<1>1. /\ d \in Cores /\ d # c /\ Other(d) = c /\ (x = c \/ x = d)
      /\ timed \subseteq {c} /\ ThreadOf(x) /\ MulticoreTypeOK
      /\ at \in [Cores -> Stages] /\ call \in [Cores -> Calls]
  BY OtherFacts, TypeFacts DEF Common, Asks
<1>2. /\ at[x] = "mutex" /\ isr[x] = "off" /\ seq' = seq
      /\ UNCHANGED <<fifo, isr, lockout_in_progress, phase, timed, victims>>
      /\ \/ /\ lockout_mutex = NoCore /\ call' = call
            /\ at' = [at EXCEPT ![x] = "locked"]
         \/ /\ TimeReached(x)
            /\ at' = [at EXCEPT ![x] = "idle"] /\ call' = [call EXCEPT ![x] = NoCall]
  BY DEF EnterMutex, Go, launchVars, ThreadRuns
<1>3. Locking(x) /\ NoCall.op = "none" /\ NoCore \notin Cores
  BY <1>1, <1>2, LockoutAssumption DEF ThreadOf, StageOf, ThreadStages, NoCall
<1>4. /\ at'[Other(x)] = at[Other(x)] /\ call'[Other(x)] = call[Other(x)]
      /\ call'[x] = call[x] \/ call'[x] = NoCall
      /\ at'[x] \in {"locked", "idle"}
  BY <1>1, <1>2, OtherFacts
<1>5. Entering' = Entering /\ Launching' = Launching /\ (x = 0 => ~Launching)
  BY <1>3, <1>4, EntryKept DEF Locking
<1>6. at'[0] = at[0] \/ ~Launching
  BY <1>4, <1>5, OtherFacts, CoreFacts
<1>7. EntryInv'
  BY <1>2, <1>5, <1>6, EntryOn DEF EntryInv
<1>8. CASE x = c
  <2>1. Waits(d)'
    BY <1>2, <1>4, <1>8, WaitsKept DEF Asks
  <2>2. ~Awaits(c) /\ at[c] # "done" /\ at'[c] # "done"
    BY <1>2, <1>4, <1>8 DEF Awaits
  <2> QED
    BY <1>1, <1>2, <1>5, <1>7, <2>1, <2>2, AsksKept
<1>9. CASE x = d
  <2>1. c \in victims
    BY <1>1, <1>3, <1>9 DEF ThreadOf, PhaseOf
  <2>2. lockout_mutex = NoCore /\ at'[d] = "locked" /\ call'[d] = call[d]
    <3>1. TimeReached(x) => x \in timed
      BY <1>1 DEF ThreadOf, PhaseOf, TimeReached, Never
    <3> QED
      BY <1>1, <1>2, <1>9, <3>1
  <2>3. ~HasMutex(c)
    BY <1>3, <2>2 DEF Common, ThreadOf, StageOf
  <2>4. phase[c] \in {"none", "asked"}
    BY <1>2, <1>9, <2>1, <2>3, NobodyAsks
  <2>5. Waits(d)'
    BY <1>1, <1>2, <2>2, <2>4 DEF Asks, Waits, InHandshake
  <2>6. at'[c] = at[c] /\ call'[c] = call[c]
    BY <1>1, <1>4, <1>9
  <2>7. Awaits(c) => Awaits(c)'
    BY <2>6 DEF Awaits, InHandshake, Locking
  <2> QED
    BY <1>1, <1>2, <1>5, <1>7, <2>5, <2>6, <2>7, AsksKept
<1> QED
  BY <1>1, <1>7, <1>8, <1>9

LEMMA BeginHandshakeApp ==
  ASSUME Common, EntryInv, NEW c \in Cores, Asks(c), NEW x \in Cores,
         ThreadRuns(x), BeginHandshake(x), UNCHANGED <<launchVars, resets>>
  PROVE  EntryInv' /\ \E b \in Cores : Asks(b)'
<1> DEFINE d == Other(c)
<1>1. /\ d \in Cores /\ d # c /\ Other(d) = c /\ (x = c \/ x = d)
      /\ timed \subseteq {c} /\ ThreadOf(x) /\ MulticoreTypeOK /\ Drains(isr[c])
      /\ at \in [Cores -> Stages]
  BY OtherFacts, TypeFacts DEF Common, Asks
<1>2. /\ at[x] = "locked" /\ isr[x] = "off" /\ seq' = seq /\ call' = call
      /\ UNCHANGED <<fifo, isr, lockout_in_progress, phase, timed, victims>>
      /\ at' = [at EXCEPT ![x] = "head"]
  BY DEF BeginHandshake, Go, launchVars, lockoutVars, threadVars, ThreadRuns
<1>3. Locking(x) /\ lockout_mutex = x
  BY <1>1, <1>2 DEF ThreadOf, StageOf, ThreadStages, HasMutex
<1>4. at'[Other(x)] = at[Other(x)] /\ at'[x] = "head"
  BY <1>1, <1>2, OtherFacts
<1>5. Entering' = Entering /\ Launching' = Launching /\ (x = 0 => ~Launching)
  BY <1>2, <1>3, <1>4, EntryKept DEF Locking
<1>6. at'[0] = at[0] \/ ~Launching
  BY <1>4, <1>5, OtherFacts, CoreFacts
<1>7. EntryInv'
  BY <1>2, <1>5, <1>6, EntryOn DEF EntryInv
<1>8. CASE x = c
  <2>1. Waits(d)'
    BY <1>2, <1>4, <1>8, WaitsKept DEF Asks
  <2>2. ~Awaits(c) /\ at[c] # "done" /\ at'[c] # "done"
    BY <1>2, <1>4, <1>8 DEF Awaits
  <2> QED
    BY <1>1, <1>2, <1>5, <1>7, <2>1, <2>2, AsksKept
<1>9. CASE x = d
  <2>1. c \in victims
    BY <1>1, <1>3, <1>9 DEF ThreadOf, PhaseOf
  <2>2. ~HasMutex(c)
    BY <1>1, <1>3, <1>9 DEF Common, ThreadOf, StageOf
  <2>3. /\ Inbox(c) = << >> /\ Inbox(d) = << >>
        /\ phase[c] \in {"none", "asked"} /\ timed = {} /\ ~lockout_in_progress
        /\ phase[c] = "asked" => at[c] = "mutex" /\ Locking(c)
        /\ ~InHandshake(c)
    BY <1>2, <1>9, <2>1, <2>2, NobodyAsks
  <2>4. phase[d] = "asked"
    BY <1>1, <1>2, <1>3, <1>9 DEF Asks, Waits, ThreadOf, PhaseOf, Locking
  <2>5. at[c] # "locked" /\ at'[c] = at[c]
    BY <1>1, <1>4, <1>9, <2>2 DEF HasMutex
  <2>6. Waits(c)'
    BY <1>1, <1>2, <2>3, <2>5 DEF Waits, InHandshake, Locking
  <2>7. Inbox(c)' = << >> /\ Inbox(d)' = << >>
    BY <1>1, <1>2, <1>5, <2>3, InboxKept
  <2>8. Progress(d)' = "asked"
    BY <1>2, <1>4, <1>9, <2>4 DEF Progress
  <2>9. Conversation("asked", isr[c], << >>, << >>) /\ Drains("off")
    BY <1>1, ConverseStart DEF Drains
  <2>10. Count(isr[c], << >>, << >>) = 0
    BY <1>1 DEF Count, Drains
  <2>11. lockout_in_progress' <=> phase'[d] \in {"held", "ending"}
    BY <1>2, <2>3, <2>4
  <2>12. Asks(d)'
    BY <1>1, <1>2, <1>9, <2>3, <2>6, <2>7, <2>8, <2>9, <2>10, <2>11 DEF Asks
  <2> QED
    BY <1>1, <1>7, <2>12
<1> QED
  BY <1>1, <1>7, <1>8, <1>9

LEMMA AskerShakes ==
  ASSUME NEW c \in Cores, Asks(c), NEW x \in Cores, InHandshake(x)
  PROVE  x = c
  BY OtherFacts DEF Asks, Waits

\* The handshake looks at the time, or goes to sleep, or wakes up.
LEMMA QuietApp ==
  ASSUME Common, EntryInv, NEW c \in Cores, Asks(c), InHandshake(c),
         at[c] # "done",
         NEW s \in {"head", "push", "check", "pop", "wfe", "failed"},
         at' = [at EXCEPT ![c] = s],
         Awaits(c) => s \in {"check", "pop", "wfe"} \/ c \in timed,
         UNCHANGED <<fifo, call, lockoutVars, launchVars, resets>>
  PROVE  EntryInv' /\ Asks(c)'
<1> DEFINE d == Other(c)
<1>1. /\ d \in Cores /\ d # c /\ MulticoreTypeOK /\ at \in [Cores -> Stages]
  BY OtherFacts, TypeFacts DEF Common
<1>2. UNCHANGED <<seq, isr, lockout_in_progress, phase, timed>>
  BY DEF launchVars, lockoutVars, threadVars
<1>3. at'[d] = at[d] /\ at'[c] = s
  BY <1>1
<1>4. Entering' = Entering /\ Launching' = Launching /\ (c = 0 => ~Launching)
  BY <1>3, EntryKept DEF InHandshake, Locking
<1>5. at'[0] = at[0] \/ ~Launching
  BY <1>3, <1>4, OtherFacts, CoreFacts
<1>6. EntryInv'
  BY <1>2, <1>4, <1>5, EntryOn DEF EntryInv
<1>7. Waits(d)'
  BY <1>2, <1>3, WaitsKept DEF Asks
<1>8. Awaits(c) => Awaits(c)' \/ c \in timed
  BY <1>3 DEF Awaits, InHandshake, Locking
<1> QED
  BY <1>1, <1>2, <1>3, <1>4, <1>6, <1>7, <1>8, AsksKept

LEMMA SendApp ==
  ASSUME Common, EntryInv, NEW c \in Cores, Asks(c), at[c] = "push", InHandshake(c),
         Push(c, IF call[c].op = "start" THEN "START" ELSE "END"),
         at' = [at EXCEPT ![c] = "check"],
         UNCHANGED <<call, lockoutVars, launchVars, resets>>
  PROVE  EntryInv' /\ Asks(c)'
<1> DEFINE d == Other(c)
           word == IF call[c].op = "start" THEN "START" ELSE "END"
           r == Inbox(d)
           a == Inbox(c)
<1>1. /\ d \in Cores /\ d # c /\ Other(d) = c /\ MulticoreTypeOK
      /\ a \in Seq(Words) /\ r \in Seq(Words) /\ ThreadOf(c)
      /\ Count(isr[d], r, a) \in Nat
      /\ Conversation(Progress(c), isr[d], r, a) /\ Drains(isr[c]) /\ timed \subseteq {c}
      /\ at \in [Cores -> Stages]
  BY AskerFacts, TypeFacts
<1>2. UNCHANGED <<seq, isr, lockout_in_progress, phase, timed>>
  BY DEF launchVars, lockoutVars, threadVars
<1>3. at'[d] = at[d] /\ at'[c] = "check"
  BY <1>1
<1>4. Entering' = Entering /\ Launching' = Launching /\ (c = 0 => ~Launching)
  BY <1>3, EntryKept DEF InHandshake, Locking
<1>5. word \in Words
  BY MagicWords
<1>6. /\ Inbox(d)' = Append(r, word) /\ Inbox(c)' = a
      /\ fifo[0] # << >> => fifo'[0] # << >> /\ Head(fifo'[0]) = Head(fifo[0])
  BY <1>1, <1>4, <1>5, InboxPush
<1>7. EntryInv'
  <2>1. at'[0] = at[0] \/ ~Launching
    BY <1>3, <1>4, OtherFacts, CoreFacts
  <2> QED
    BY <1>2, <1>4, <1>6, <2>1, EntryOn DEF EntryInv
<1>8. Waits(d)'
  BY <1>2, <1>3, WaitsKept DEF Asks
<1>9. /\ Progress(c) = phase[c] /\ Progress(c)' = phase[c]
      /\ phase[c] \in {"asked", "ending"} /\ word = (IF phase[c] = "asked" THEN "START" ELSE "END")
  <2>1. Progress(c) = phase[c] /\ Progress(c)' = phase[c]
    BY <1>2, <1>3 DEF Progress
  <2>2. /\ call[c].op = "start" => phase[c] = "asked"
        /\ call[c].op = "end" => phase[c] = "ending"
        /\ call[c].op \in {"start", "end"}
    BY <1>1 DEF ThreadOf, PhaseOf, InHandshake, Locking
  <2> QED
    BY <2>1, <2>2
<1> HIDE DEF d, word, r, a
<1>10. /\ Conversation(phase[c], isr[d], Append(r, word), a)
       /\ Count(isr[d], Append(r, word), a) = Count(isr[d], r, a) + 1
  BY <1>1, <1>9, ConverseSend
<1>11. ~Awaits(c) /\ Awaits(c)'
  BY <1>3 DEF Awaits, InHandshake, Locking
<1>12. c \notin timed => Count(isr[d], r, a) <= 0
  BY <1>11 DEF Asks, d, r, a
<1>13. c \notin timed => Count(isr[d], Append(r, word), a) <= 1
  BY <1>1, <1>10, <1>12
<1>14. Waits(d)' /\ Drains(isr'[c]) /\ timed' \subseteq {c} /\ isr'[d] = isr[d]
  BY <1>1, <1>2, <1>8
<1>15. Conversation(Progress(c)', isr'[d], Inbox(d)', Inbox(c)')
  BY <1>2, <1>6, <1>9, <1>10
<1>16. c \notin timed' => Count(isr'[d], Inbox(d)', Inbox(c)') <= IF Awaits(c)' THEN 1 ELSE 0
  BY <1>2, <1>6, <1>11, <1>13
<1>17. lockout_in_progress' <=> phase'[c] \in {"held", "ending"}
  BY <1>2 DEF Asks
<1> QED
  BY <1>7, <1>14, <1>15, <1>16, <1>17 DEF Asks, d

LEMMA HandshakePushApp ==
  ASSUME Common, EntryInv, NEW c \in Cores, Asks(c), NEW x \in Cores,
         HandshakePush(x), UNCHANGED <<launchVars, resets>>
  PROVE  Common' /\ EntryInv' /\ Asks(c)'
<1>1. ThreadOf(x) /\ MulticoreTypeOK
  BY DEF Common
<1>2. InHandshake(x) /\ x = c
  <2>1. InHandshake(x)
    BY <1>1 DEF HandshakePush, InHandshake, ThreadOf, StageOf, ThreadStages, Locking
  <2> QED
    BY <2>1, AskerShakes
<1>3. UNCHANGED <<call, irq_enabled, saved, lockoutVars>>
  BY DEF HandshakePush
<1>4. Late(c) \/ TimeReached(c) => c \in timed
  BY <1>1, <1>2 DEF ThreadOf, PhaseOf, Late, TimeReached, Never
<1>5. /\ fifo \in [Cores -> Seq(Words)] /\ (\A b \in Cores : Len(fifo[b]) <= Depth)
      /\ event \in [Cores -> BOOLEAN]
  BY <1>1, TypeFacts
<1>6. CASE /\ at[c] = "push" /\ at' = [at EXCEPT ![c] = "check"]
           /\ Push(c, IF call[c].op = "start" THEN "START" ELSE "END")
  <2>1. EntryInv' /\ Asks(c)'
    BY <1>2, <1>3, <1>6, SendApp
  <2>2. (IF call[c].op = "start" THEN "START" ELSE "END") \in Words
    BY MagicWords
  <2>3. /\ fifo' \in [Cores -> Seq(Words)] /\ (\A b \in Cores : Len(fifo'[b]) <= Depth)
        /\ event' \in [Cores -> BOOLEAN]
    BY <1>1, <1>6, <2>2, PushFacts
  <2>4. Common'
    BY <1>2, <1>3, <1>6, <2>3, HandshakeCommon
  <2> QED
    BY <2>1, <2>4
<1>7. CASE /\ fifo' = fifo /\ event' = event
           /\ \E s \in {"push", "check", "pop", "failed"} :
                /\ at' = [at EXCEPT ![c] = s] /\ at[c] # "done"
                /\ s = "failed" => c \in timed
                /\ at[c] = "check" => s = "pop" \/ c \in timed
                /\ at[c] \in {"head", "push", "check"}
  <2>1. PICK s \in {"push", "check", "pop", "failed"} :
                /\ at' = [at EXCEPT ![c] = s] /\ at[c] # "done"
                /\ s = "failed" => c \in timed
                /\ at[c] = "check" => s = "pop" \/ c \in timed
                /\ at[c] \in {"head", "push", "check"}
    BY <1>7
  <2>2. Common'
    BY <1>2, <1>3, <1>5, <1>7, <2>1, HandshakeCommon
  <2>3. Awaits(c) => s \in {"check", "pop", "wfe"} \/ c \in timed
    BY <2>1 DEF Awaits
  <2>4. EntryInv' /\ Asks(c)'
    BY <1>2, <1>3, <1>7, <2>1, <2>3, QuietApp
  <2> QED
    BY <2>2, <2>4
<1> QED
  BY <1>2, <1>4, <1>6, <1>7 DEF HandshakePush, Go

LEMMA HandshakePopApp ==
  ASSUME Common, EntryInv, NEW c \in Cores, Asks(c), NEW x \in Cores,
         HandshakePop(x), UNCHANGED <<launchVars, resets>>
  PROVE  Common' /\ EntryInv' /\ Asks(c)'
<1> DEFINE d == Other(c)
           r == Inbox(d)
           a == Inbox(c)
<1>1. InHandshake(x) /\ x = c
  <2>1. InHandshake(x)
    BY DEF HandshakePop, InHandshake, Locking
  <2> QED
    BY <2>1, AskerShakes
<1>2. /\ d \in Cores /\ d # c /\ Other(d) = c /\ MulticoreTypeOK
      /\ a \in Seq(Words) /\ r \in Seq(Words) /\ ThreadOf(c)
      /\ Count(isr[d], r, a) \in Nat
      /\ Conversation(Progress(c), isr[d], r, a) /\ Drains(isr[c]) /\ timed \subseteq {c}
      /\ at \in [Cores -> Stages]
  BY AskerFacts, TypeFacts
<1>3. /\ at[c] = "pop" /\ Pop(c)
      /\ at' = [at EXCEPT ![c] = IF Answers(c, Head(fifo[c])) THEN "done" ELSE "head"]
      /\ UNCHANGED <<call, irq_enabled, saved, lockoutVars>>
      /\ UNCHANGED <<seq, isr, lockout_in_progress, phase, timed>>
  BY <1>1 DEF HandshakePop, Go, launchVars, lockoutVars, threadVars
<1>4. at'[d] = at[d] /\ at'[c] = IF Answers(c, Head(fifo[c])) THEN "done" ELSE "head"
  BY <1>2, <1>3
<1>5. Entering' = Entering /\ Launching' = Launching /\ (c = 0 => ~Launching)
  BY <1>1, <1>2, <1>3, <1>4, EntryKept DEF InHandshake, Locking
<1>6. /\ a = fifo[c] /\ a # << >> /\ Inbox(c)' = Tail(a) /\ Inbox(d)' = r
      /\ c # 0 => fifo'[0] = fifo[0]
  <2>1. c = 0 => ~Entering
    BY <1>5 DEF Entering
  <2> QED
    BY <1>2, <1>3, <1>5, <2>1, InboxPop
<1>7. EntryInv'
  <2>1. at'[0] = at[0] \/ ~Launching
    BY <1>4, <1>5, OtherFacts, CoreFacts
  <2>2. Entering => fifo'[0] # << >> /\ Head(fifo'[0]) = Head(fifo[0])
    BY <1>5, <1>6 DEF Entering, EntryInv
  <2> QED
    BY <1>3, <1>5, <2>1, <2>2, EntryOn
<1>8. Common'
  <2>1. /\ fifo' \in [Cores -> Seq(Words)] /\ (\A b \in Cores : Len(fifo'[b]) <= Depth)
        /\ event' \in [Cores -> BOOLEAN]
    BY <1>2, <1>3, PopFacts, TypeFacts
  <2>2. PICK s \in {"done", "head"} : at' = [at EXCEPT ![c] = s]
    BY <1>3
  <2> QED
    BY <1>1, <1>3, <2>1, <2>2, HandshakeCommon
<1>9. Waits(d)'
  BY <1>3, <1>4, WaitsKept DEF Asks
<1>10. Progress(c) = phase[c]
  BY <1>3 DEF Progress
<1> HIDE DEF d, r, a
<1>11. /\ Count(isr[d], r, Tail(a)) = Count(isr[d], r, a) - 1
       /\ \/ phase[c] = "asked" /\ Head(a) = "START" /\ Conversation("held", isr[d], r, Tail(a))
          \/ phase[c] = "ending" /\ Head(a) = "END" /\ Conversation("none", isr[d], r, Tail(a))
  BY <1>2, <1>6, <1>10, ConverseAnswer
<1>12. call[c].op = (IF phase[c] = "asked" THEN "start" ELSE "end")
  BY <1>1, <1>2, <1>3, <1>11 DEF ThreadOf, PhaseOf, InHandshake, Locking
<1>13. Answers(c, Head(fifo[c]))
  BY <1>6, <1>11, <1>12 DEF Answers
<1>14. at'[c] = "done"
  BY <1>4, <1>13
<1>15. Conversation(Progress(c)', isr'[d], Inbox(d)', Inbox(c)')
  BY <1>3, <1>6, <1>11, <1>14 DEF Progress
<1>16. c \notin timed' => Count(isr'[d], Inbox(d)', Inbox(c)') <= IF Awaits(c)' THEN 1 ELSE 0
  <2>1. c \notin timed => Count(isr[d], r, a) <= IF Awaits(c) THEN 1 ELSE 0
    BY DEF Asks, d, r, a
  <2>2. c \notin timed => Count(isr[d], r, Tail(a)) <= 0
    BY <1>2, <1>11, <2>1
  <2>3. 0 <= IF Awaits(c)' THEN 1 ELSE 0
    OBVIOUS
  <2> QED
    BY <1>2, <1>3, <1>6, <1>11, <2>2, <2>3
<1>17. lockout_in_progress' <=> phase'[c] \in {"held", "ending"}
  BY <1>3 DEF Asks
<1>18. Drains(isr'[c]) /\ timed' \subseteq {c}
  BY <1>2, <1>3
<1> QED
  BY <1>7, <1>8, <1>9, <1>15, <1>16, <1>17, <1>18 DEF Asks, d

LEMMA EndHandshakeApp ==
  ASSUME Common, EntryInv, NEW c \in Cores, Asks(c), NEW x \in Cores,
         ThreadRuns(x), EndHandshake(x), UNCHANGED <<launchVars, resets>>
  PROVE  EntryInv' /\ Asks(c)'
<1> DEFINE d == Other(c)
<1>1. InHandshake(x) /\ x = c
  <2>1. InHandshake(x)
    BY DEF Common, EndHandshake, InHandshake, ThreadOf, StageOf, ThreadStages
  <2> QED
    BY <2>1, AskerShakes
<1>2. /\ d \in Cores /\ d # c /\ Other(d) = c /\ MulticoreTypeOK
      /\ ThreadOf(c) /\ ThreadOf(d) /\ Drains(isr[c]) /\ timed \subseteq {c}
      /\ Conversation(Progress(c), isr[d], Inbox(d), Inbox(c))
      /\ at \in [Cores -> Stages] /\ phase \in [Cores -> Phases]
      /\ Count(isr[d], Inbox(d), Inbox(c)) \in Nat
  BY AskerFacts, TypeFacts
<1>3. /\ at[c] \in {"done", "failed"}
      /\ UNCHANGED <<fifo, call, isr, lockout_mutex, timed, seq>>
      /\ at' = [at EXCEPT ![c] = "unlock"]
      /\ lockout_in_progress' = InProgressAfter(c, at[c] = "done")
      /\ phase' = [phase EXCEPT ![c] = Progress(c)]
  <2>1. (CASE ~(at[c] = "done") -> phase[c]
           [] at[c] = "done" /\ phase[c] = "asked" -> "held"
           [] OTHER -> "none") = Progress(c)
    BY DEF Progress
  <2> QED
    BY <1>1, <2>1 DEF EndHandshake, Go, launchVars
<1>4. /\ at'[d] = at[d] /\ at'[c] = "unlock" /\ phase'[c] = Progress(c) /\ phase'[d] = phase[d]
  BY <1>2, <1>3
<1>5. Entering' = Entering /\ Launching' = Launching /\ (c = 0 => ~Launching)
  BY <1>1, <1>3, <1>4, EntryKept DEF InHandshake, Locking
<1>6. EntryInv'
  <2>1. at'[0] = at[0] \/ ~Launching
    BY <1>4, <1>5, OtherFacts, CoreFacts
  <2> QED
    BY <1>3, <1>5, <2>1, EntryOn DEF EntryInv
<1>7. at[d] # "locked"
  BY <1>1, <1>2 DEF ThreadOf, StageOf, HasMutex
<1>8. Waits(d)'
  BY <1>2, <1>3, <1>4, <1>7 DEF Asks, Waits, InHandshake, Locking
<1>9. Progress(c)' = Progress(c) /\ ~Awaits(c)
  BY <1>3, <1>4 DEF Progress, Awaits
<1>10. Inbox(c)' = Inbox(c) /\ Inbox(d)' = Inbox(d)
  BY <1>2, <1>3, <1>5, InboxKept
<1>11. c \notin timed' => Count(isr'[d], Inbox(d)', Inbox(c)') <= IF Awaits(c)' THEN 1 ELSE 0
  <2>1. c \notin timed => Count(isr[d], Inbox(d), Inbox(c)) <= 0
    BY <1>9 DEF Asks
  <2>2. 0 <= IF Awaits(c)' THEN 1 ELSE 0
    OBVIOUS
  <2> QED
    BY <1>2, <1>3, <1>10, <2>1, <2>2
<1>12. lockout_in_progress' <=> phase'[c] \in {"held", "ending"}
  <2>1. lockout_in_progress <=> phase[c] \in {"held", "ending"}
    BY DEF Asks
  <2>2. /\ call[c].op = "start" => phase[c] = "asked"
        /\ call[c].op = "end" => phase[c] = "ending"
        /\ call[c].op \in {"start", "end"}
    BY <1>1, <1>2, <1>3 DEF ThreadOf, PhaseOf, InHandshake, Locking
  <2>3. CASE at[c] = "done" /\ phase[c] = "asked"
    BY <1>3, <1>4, <2>2, <2>3 DEF Progress, InProgressAfter
  <2>4. CASE at[c] = "done" /\ phase[c] = "ending"
    <3>1. InProgressAfter(c, at[c] = "done") <=> lockout_in_progress /\ at[c] # "done"
      BY <2>2, <2>4 DEF InProgressAfter
    <3>2. ~lockout_in_progress' /\ phase'[c] = "none"
      BY <1>3, <1>4, <2>4, <3>1 DEF Progress
    <3> QED
      BY <3>2
  <2>5. CASE at[c] # "done" /\ phase[c] = "asked"
    BY <1>3, <1>4, <2>2, <2>5 DEF Progress, InProgressAfter
  <2>6. CASE at[c] # "done" /\ phase[c] = "ending"
    BY <1>3, <1>4, <2>1, <2>2, <2>6 DEF Progress, InProgressAfter
  <2> QED
    BY <2>2, <2>3, <2>4, <2>5, <2>6
<1> QED
  BY <1>2, <1>3, <1>6, <1>8, <1>9, <1>10, <1>11, <1>12 DEF Asks

LEMMA ExitMutexApp ==
  ASSUME Common, EntryInv, NEW c \in Cores, Asks(c), NEW x \in Cores,
         ThreadRuns(x), ExitMutex(x), UNCHANGED <<launchVars, resets>>
  PROVE  EntryInv' /\ Asks(c)'
<1> DEFINE d == Other(c)
<1>1. /\ d \in Cores /\ d # c /\ Other(d) = c /\ (x = c \/ x = d)
      /\ ThreadOf(x) /\ MulticoreTypeOK
      /\ at \in [Cores -> Stages] /\ call \in [Cores -> Calls]
  BY OtherFacts, TypeFacts DEF Common, Asks
<1>2. /\ at[x] = "unlock" /\ seq' = seq
      /\ UNCHANGED <<fifo, isr, lockout_in_progress, phase, timed>>
      /\ at' = [at EXCEPT ![x] = "idle"] /\ call' = [call EXCEPT ![x] = NoCall]
  BY DEF ExitMutex, Go, launchVars
<1>3. Locking(x) /\ NoCall.op = "none"
  BY <1>1, <1>2 DEF ThreadOf, StageOf, ThreadStages, NoCall
<1>4. /\ at'[Other(x)] = at[Other(x)] /\ call'[Other(x)] = call[Other(x)]
      /\ call'[x] = NoCall /\ at'[x] = "idle"
  BY <1>1, <1>2, OtherFacts
<1>5. Entering' = Entering /\ Launching' = Launching /\ (x = 0 => ~Launching)
  BY <1>3, <1>4, EntryKept DEF Locking
<1>6. EntryInv'
  <2>1. at'[0] = at[0] \/ ~Launching
    BY <1>4, <1>5, OtherFacts, CoreFacts
  <2> QED
    BY <1>2, <1>5, <2>1, EntryOn DEF EntryInv
<1>7. CASE x = c
  <2>1. Waits(d)'
    BY <1>2, <1>4, <1>7, WaitsKept DEF Asks
  <2>2. ~Awaits(c) /\ at[c] # "done" /\ at'[c] # "done"
    BY <1>2, <1>4, <1>7 DEF Awaits
  <2> QED
    BY <1>1, <1>2, <1>5, <1>6, <2>1, <2>2, AsksKept
<1>8. CASE x = d
  <2>1. Waits(d)'
    BY <1>1, <1>2, <1>3, <1>4, <1>8 DEF Asks, Waits, InHandshake, Locking
  <2>2. at'[c] = at[c] /\ call'[c] = call[c]
    BY <1>1, <1>4, <1>8
  <2>3. Awaits(c) => Awaits(c)'
    BY <2>2 DEF Awaits, InHandshake, Locking
  <2> QED
    BY <1>1, <1>2, <1>5, <1>6, <2>1, <2>2, <2>3, AsksKept
<1> QED
  BY <1>1, <1>7, <1>8

LEMMA PopWaitApp ==
  ASSUME Common, EntryInv, NEW c \in Cores, Asks(c), NEW x \in Cores, Locking(x),
         PopWait(x), UNCHANGED <<lockoutVars, launchVars, resets>>
  PROVE  Common' /\ EntryInv' /\ Asks(c)'
<1>1. InHandshake(x) /\ x = c
  <2>1. InHandshake(x)
    BY DEF PopWait, InHandshake
  <2> QED
    BY <2>1, AskerShakes
<1>2. /\ ThreadOf(c) /\ MulticoreTypeOK /\ event \in [Cores -> BOOLEAN]
      /\ fifo \in [Cores -> Seq(Words)] /\ (\A b \in Cores : Len(fifo[b]) <= Depth)
  BY TypeFacts DEF Common
<1>3. /\ at[c] \in {"pop", "wfe"} /\ fifo' = fifo /\ UNCHANGED <<call, irq_enabled, saved>>
      /\ event' = event \/ event' = [event EXCEPT ![c] = FALSE]
      /\ \E s \in {"wfe", "failed", "pop"} :
           at' = [at EXCEPT ![c] = s] /\ (s = "failed" => TimeReached(c))
  BY <1>1 DEF PopWait, Wfe, Go
<1>4. PICK s \in {"wfe", "failed", "pop"} :
           at' = [at EXCEPT ![c] = s] /\ (s = "failed" => TimeReached(c))
  BY <1>3
<1>5. TimeReached(c) => c \in timed
  BY <1>2 DEF ThreadOf, PhaseOf, TimeReached, Never
<1>6. event' \in [Cores -> BOOLEAN]
  BY <1>2, <1>3
<1>7. Common'
  BY <1>1, <1>2, <1>3, <1>4, <1>5, <1>6, HandshakeCommon
<1>8. at[c] # "done" /\ (s \in {"check", "pop", "wfe"} \/ c \in timed)
  BY <1>3, <1>4, <1>5
<1>9. EntryInv' /\ Asks(c)'
  BY <1>1, <1>3, <1>4, <1>8, QuietApp
<1> QED
  BY <1>7, <1>9

LEMMA LockoutApp ==
  ASSUME Common, AppInv, NEW x \in Cores, LockoutThreadStep(x), UNCHANGED <<launchVars, resets>>
  PROVE  Common' /\ AppInv'
<1>1. core1' = core1 /\ got' = got /\ EntryInv
  BY DEF launchVars, AppInv
<1>2. PICK c \in Cores : Asks(c)
  BY DEF AppInv
<1>3. SUFFICES Common' /\ EntryInv' /\ \E b \in Cores : Asks(b)'
  BY <1>1 DEF AppInv
<1>4. ThreadRuns(x)
  BY DEF LockoutThreadStep
<1>5. CASE EnterMutex(x)
  BY <1>1, <1>2, <1>4, <1>5, EnterMutexCommon, EnterMutexApp
<1>6. CASE BeginHandshake(x)
  BY <1>1, <1>2, <1>4, <1>6, BeginHandshakeCommon, BeginHandshakeApp
<1>7. CASE HandshakePush(x)
  BY <1>1, <1>2, <1>7, HandshakePushApp
<1>8. CASE HandshakePop(x)
  BY <1>1, <1>2, <1>8, HandshakePopApp
<1>9. CASE EndHandshake(x)
  BY <1>1, <1>2, <1>4, <1>9, EndHandshakeCommon, EndHandshakeApp
<1>10. CASE ExitMutex(x)
  BY <1>1, <1>2, <1>4, <1>10, ExitMutexCommon, ExitMutexApp
<1>11. CASE call[x].op \in {"start", "end"} /\ PopWait(x) /\ UNCHANGED lockoutVars
  BY <1>1, <1>2, <1>11, PopWaitApp DEF Locking
<1> QED
  BY <1>5, <1>6, <1>7, <1>8, <1>9, <1>10, <1>11 DEF LockoutThreadStep

LEMMA CallCommon ==
  ASSUME Common, ~TimedVictims, NEW x \in Cores, NEW op \in {"start", "end"},
         NEW time \in {Never, "ahead"}, Call(x, op, time), UNCHANGED <<launchVars, resets>>
  PROVE  Common'
<1> DEFINE y == Other(x)
           new == [op |-> op, time |-> time]
<1>1. /\ y \in Cores /\ y # x
      /\ MulticoreTypeOK /\ ThreadOf(x) /\ ThreadOf(y)
      /\ at \in [Cores -> Stages] /\ call \in [Cores -> Calls]
      /\ phase \in [Cores -> Phases] /\ left \in [Cores -> Nat] /\ timed \subseteq Cores
  BY ActorFacts
<1>2. new \in Calls /\ new.op = op /\ new.time = time /\ "mutex" \in Stages
  BY DEF Calls, Clock, Never, Stages, ThreadStages
<1> HIDE DEF y, new
<1>3. /\ at[x] = "idle" /\ isr[x] = "off" /\ Other(x) \in victims
      /\ time = Never \/ x \notin victims
      /\ UNCHANGED <<fifo, event, irq_enabled, saved, isr, victims, lockout_mutex,
                     lockout_in_progress>>
      /\ UNCHANGED <<seq, core1, got, answer, resets>>
      /\ at' = [at EXCEPT ![x] = "mutex"] /\ call' = [call EXCEPT ![x] = new]
      /\ timed' = IF time = Never THEN timed ELSE timed \cup {x}
  BY DEF Call, Go, launchVars, ThreadRuns, new
<1>4. \/ op = "start" /\ phase' = [phase EXCEPT ![x] = "asked"]
         /\ left[x] > 0 /\ left' = [left EXCEPT ![x] = left[x] - 1]
      \/ op = "end" /\ phase' = [phase EXCEPT ![x] = "ending"] /\ left' = left
  BY DEF Call
<1>5. "asked" \in Phases /\ "ending" \in Phases
  BY DEF Phases
<1>6. /\ at' \in [Cores -> Stages] /\ call' \in [Cores -> Calls] /\ timed' \subseteq Cores
      /\ phase' \in [Cores -> Phases] /\ left' \in [Cores -> Nat]
  <2>1. left' \in [Cores -> Nat]
    <3>1. left[x] > 0 => left[x] - 1 \in Nat
      BY <1>1
    <3> QED
      BY <1>1, <1>4, <3>1
  <2> QED
    BY <1>1, <1>2, <1>3, <1>4, <1>5, <2>1
<1>7. MulticoreTypeOK'
  BY <1>1, <1>3, <1>6, TypeFacts, TypeNext
<1>8. /\ at'[x] = "mutex" /\ call'[x].op = op /\ call'[x].time = time
      /\ phase'[x] = (IF op = "start" THEN "asked" ELSE "ending")
      /\ at'[y] = at[y] /\ call'[y] = call[y] /\ phase'[y] = phase[y]
  BY <1>1, <1>2, <1>3, <1>4
<1>9. ThreadOf(y)'
  <2>1. (y \in timed') = (y \in timed)
    BY <1>1, <1>3
  <2> QED
    BY <1>1, <1>3, <1>8, <2>1, ThreadKept
<1>10. ThreadOf(x)'
  <2>1. Locking(x)' /\ ~InHandshake(x)' /\ ~HasMutex(x)'
    BY <1>8 DEF Locking, InHandshake, HasMutex
  <2>2. lockout_mutex # x
    BY <1>1, <1>3 DEF ThreadOf, StageOf, HasMutex, InHandshake
  <2>3. StageOf(x)'
    BY <1>3, <1>8, <2>1, <2>2 DEF StageOf
  <2>4. PhaseOf(x)'
    BY <1>3, <1>8, <2>1 DEF PhaseOf
  <2>5. x \in timed' => x \notin victims'
    BY <1>1, <1>3 DEF ThreadOf, IrqOf
  <2>6. IrqOf(x)'
    BY <1>1, <1>3, <1>8, <2>1, <2>5 DEF ThreadOf, IrqOf
  <2> QED
    BY <2>3, <2>4, <2>6 DEF ThreadOf
<1> QED
  BY <1>7, <1>9, <1>10, CommonSplit DEF y

LEMMA CallApp ==
  ASSUME Common, AppInv, ~TimedVictims, NEW x \in Cores, NEW op \in {"start", "end"},
         NEW time \in {Never, "ahead"}, Call(x, op, time), UNCHANGED <<launchVars, resets>>
  PROVE  AppInv'
<1>0. PICK c \in Cores : Asks(c)
  BY DEF AppInv
<1> DEFINE d == Other(c)
<1>1. /\ d \in Cores /\ d # c /\ Other(d) = c /\ (x = c \/ x = d) /\ EntryInv
      /\ ThreadOf(c) /\ ThreadOf(d) /\ MulticoreTypeOK
      /\ at \in [Cores -> Stages] /\ call \in [Cores -> Calls] /\ phase \in [Cores -> Phases]
      /\ Inbox(c) \in Seq(Words) /\ Inbox(d) \in Seq(Words)
      /\ Conversation(Progress(c), isr[d], Inbox(d), Inbox(c))
      /\ Drains(isr[c]) /\ timed \subseteq {c} /\ Waits(d)
  BY <1>0, OtherFacts, TypeFacts, AskerFacts DEF AppInv, Asks
<1>2. /\ at[x] = "idle" /\ isr[x] = "off" /\ Other(x) \in victims
      /\ time = Never \/ x \notin victims
      /\ UNCHANGED <<fifo, isr, victims, lockout_in_progress, seq, core1, got>>
      /\ at' = [at EXCEPT ![x] = "mutex"]
      /\ call' = [call EXCEPT ![x] = [op |-> op, time |-> time]]
      /\ timed' = (IF time = Never THEN timed ELSE timed \cup {x})
      /\ \/ op = "start" /\ phase[x] \in {"none", "asked"} /\ phase' = [phase EXCEPT ![x] = "asked"]
         \/ op = "end" /\ phase[x] \in {"held", "ending"} /\ phase' = [phase EXCEPT ![x] = "ending"]
  BY DEF Call, Go, launchVars, ThreadRuns
<1>3. /\ at'[x] = "mutex" /\ call'[x].op = op /\ call[x].op = "none"
      /\ phase'[x] = (IF op = "start" THEN "asked" ELSE "ending")
      /\ at'[Other(x)] = at[Other(x)] /\ call'[Other(x)] = call[Other(x)]
      /\ phase'[Other(x)] = phase[Other(x)]
  <2>1. call[x].op = "none"
    BY <1>1, <1>2 DEF ThreadOf, StageOf
  <2> QED
    BY <1>1, <1>2, <2>1, OtherFacts
<1>4. Entering' = Entering /\ Launching' = Launching /\ (x = 0 => ~Launching)
  BY <1>3, EntryKept
<1>5. EntryInv'
  <2>1. at'[0] = at[0] \/ ~Launching
    BY <1>3, <1>4, OtherFacts, CoreFacts
  <2> QED
    BY <1>1, <1>2, <1>4, <2>1, EntryOn DEF EntryInv
<1>6. Inbox(c)' = Inbox(c) /\ Inbox(d)' = Inbox(d)
  BY <1>1, <1>2, <1>4, InboxKept
<1>7. SUFFICES \E b \in Cores : Asks(b)'
  BY <1>2, <1>5 DEF AppInv
<1>8. CASE x = c
  <2>1. Progress(c) = phase[c] /\ Progress(c)' = phase'[c] /\ ~Awaits(c)
    BY <1>2, <1>3, <1>8 DEF Progress, Awaits
  <2>2. Conversation("asked", isr[d], Inbox(d), Inbox(c)) \/ op = "end"
    BY <1>1, <1>2, <1>8, <2>1, ConverseAsk
  <2>3. Conversation("ending", isr[d], Inbox(d), Inbox(c)) \/ op = "start"
    BY <1>1, <1>2, <1>8, <2>1, ConverseEnd
  <2>4. Conversation(Progress(c)', isr'[d], Inbox(d)', Inbox(c)')
    BY <1>2, <1>3, <1>6, <1>8, <2>1, <2>2, <2>3
  <2>5. Waits(d)'
    BY <1>1, <1>2, <1>3, <1>8 DEF Waits, InHandshake, Locking
  <2>6. c \notin timed' => Count(isr'[d], Inbox(d)', Inbox(c)') <= IF Awaits(c)' THEN 1 ELSE 0
    <3>1. c \notin timed' => c \notin timed
      BY <1>2
    <3>2. c \notin timed => Count(isr[d], Inbox(d), Inbox(c)) <= 0
      BY <1>0, <2>1 DEF Asks
    <3>3. 0 <= IF Awaits(c)' THEN 1 ELSE 0
      OBVIOUS
    <3>4. Count(isr[d], Inbox(d), Inbox(c)) \in Nat
      BY <1>1, CountType
    <3> QED
      BY <1>2, <1>6, <3>1, <3>2, <3>3, <3>4
  <2>7. lockout_in_progress' <=> phase'[c] \in {"held", "ending"}
    <3>1. lockout_in_progress <=> phase[c] \in {"held", "ending"}
      BY <1>0 DEF Asks
    <3> QED
      BY <1>2, <1>3, <1>8, <3>1
  <2>8. Drains(isr'[c]) /\ timed' \subseteq {c}
    BY <1>1, <1>2, <1>8
  <2> QED
    BY <1>1, <2>4, <2>5, <2>6, <2>7, <2>8 DEF Asks
<1>9. CASE x = d /\ time = Never
  <2>1. op = "start" /\ phase'[d] = "asked" /\ timed' = timed /\ isr' = isr
    BY <1>1, <1>2, <1>3, <1>9 DEF Waits
  <2>2. at'[c] = at[c] /\ call'[c] = call[c] /\ phase'[c] = phase[c]
    BY <1>1, <1>3, <1>9
  <2>3. Waits(d)'
    BY <1>1, <1>3, <1>9, <2>1 DEF Waits, InHandshake
  <2>4. /\ Progress(c)' = Progress(c) /\ (Awaits(c) <=> Awaits(c)')
        /\ isr'[d] = isr[d] /\ isr'[c] = isr[c] /\ lockout_in_progress' = lockout_in_progress
    BY <1>2, <2>2 DEF Progress, Awaits, InHandshake, Locking
  <2>5. /\ c \notin timed => Count(isr[d], Inbox(d), Inbox(c)) <= IF Awaits(c) THEN 1 ELSE 0
        /\ lockout_in_progress <=> phase[c] \in {"held", "ending"}
    BY <1>0 DEF Asks
  <2>6. c \notin timed' => Count(isr'[d], Inbox(d)', Inbox(c)') <= IF Awaits(c)' THEN 1 ELSE 0
    BY <1>6, <2>1, <2>4, <2>5
  <2>7. Asks(c)'
    BY <1>1, <1>6, <2>1, <2>2, <2>3, <2>4, <2>5, <2>6 DEF Asks
  <2> QED
    BY <2>7
<1>10. CASE x = d /\ time # Never
  <2>1. c \in victims /\ d \notin victims /\ timed' = timed \cup {d} /\ isr[d] = "off"
    BY <1>1, <1>2, <1>10
  <2>2. ~Locking(c) /\ ~HasMutex(c) /\ at[c] # "locked"
    BY <1>1, <2>1 DEF ThreadOf, PhaseOf, StageOf, ThreadStages, HasMutex, InHandshake
  <2>3. /\ Inbox(c) = << >> /\ Inbox(d) = << >>
        /\ phase[c] \in {"none", "asked"} /\ timed = {} /\ ~lockout_in_progress
        /\ phase[c] = "asked" => at[c] = "mutex" /\ Locking(c)
        /\ ~InHandshake(c)
    BY <1>0, <1>1, <2>1, <2>2, NobodyAsks
  <2>4. phase'[d] = "asked"
    BY <1>1, <1>2, <1>3, <1>10 DEF Waits
  <2>5. at'[c] = at[c] /\ call'[c] = call[c] /\ phase'[c] = phase[c]
    BY <1>1, <1>3, <1>10
  <2>6. Waits(c)'
    BY <1>1, <2>2, <2>3, <2>5 DEF Waits, InHandshake, Locking
  <2>7. Progress(d)' = "asked"
    BY <1>3, <1>10, <2>4 DEF Progress
  <2>8. Drains(isr[d]) /\ Conversation("asked", isr[c], << >>, << >>)
    BY <1>1, <2>1, ConverseStart DEF Drains
  <2>9. lockout_in_progress' <=> phase'[d] \in {"held", "ending"}
    BY <1>2, <2>3, <2>4
  <2>10. timed' = {d} /\ isr' = isr
    BY <1>2, <2>1, <2>3
  <2>11. Asks(d)'
    BY <1>1, <1>6, <2>3, <2>6, <2>7, <2>8, <2>9, <2>10 DEF Asks
  <2> QED
    BY <1>1, <2>11
<1> QED
  BY <1>1, <1>8, <1>9, <1>10

LEMMA VictimInitCommon ==
  ASSUME Common, ~TimedVictims, NEW x \in Cores, VictimInit(x), UNCHANGED <<launchVars, resets>>
  PROVE  Common'
<1> DEFINE y == Other(x)
<1>1. /\ y \in Cores /\ y # x /\ Other(y) = x
      /\ MulticoreTypeOK /\ ThreadOf(x) /\ ThreadOf(y)
      /\ irq_enabled \in [Cores -> BOOLEAN] /\ victims \subseteq Cores
  BY ActorFacts
<1> HIDE DEF y
<1>2. /\ at[x] = "idle" /\ isr[x] = "off" /\ x \notin timed
      /\ victims' = victims \cup {x} /\ irq_enabled' = [irq_enabled EXCEPT ![x] = TRUE]
      /\ UNCHANGED <<fifo, event, at, call, saved, isr, lockout_mutex,
                     lockout_in_progress, phase, timed, left>>
      /\ UNCHANGED <<seq, core1, got, answer, resets>>
  BY DEF VictimInit, ThreadRuns, launchVars
<1>3. MulticoreTypeOK'
  BY <1>1, <1>2, TypeFacts, TypeNext
<1>4. ThreadOf(y)'
  <2>1. /\ (y \in victims') = (y \in victims) /\ Other(y) \in victims'
        /\ irq_enabled'[y] = irq_enabled[y]
    BY <1>1, <1>2
  <2> QED
    BY <1>1, <1>2, <2>1, ThreadKept
<1>5. ThreadOf(x)'
  <2>1. x \in victims' /\ call[x].op = "none" /\ \A c : c \in victims => c \in victims'
    BY <1>1, <1>2 DEF ThreadOf, StageOf
  <2>2. StageOf(x)'
    BY <1>1, <1>2 DEF ThreadOf, StageOf, HasMutex, InHandshake, Locking
  <2>3. PhaseOf(x)'
    BY <1>1, <1>2, <2>1 DEF ThreadOf, PhaseOf, Locking
  <2>4. IrqOf(x)'
    BY <1>2, <2>1 DEF IrqOf, InHandshake, Locking
  <2> QED
    BY <2>2, <2>3, <2>4 DEF ThreadOf
<1> QED
  BY <1>3, <1>4, <1>5, CommonSplit DEF y

LEMMA TimePassesCommon ==
  ASSUME Common, NEW x \in Cores, TimePasses(x), UNCHANGED <<launchVars, lockoutVars, resets>>
  PROVE  /\ Common' /\ call[x].op # "launch"
         /\ \A c \in Cores : call'[c].op = call[c].op
<1> DEFINE y == Other(x)
<1>1. /\ y \in Cores /\ y # x
      /\ MulticoreTypeOK /\ ThreadOf(x) /\ ThreadOf(y)
      /\ call \in [Cores -> Calls]
  BY ActorFacts
<1>2. /\ call[x].time \in {"ahead", "now"}
      /\ UNCHANGED <<fifo, event, at, irq_enabled, saved, isr, victims, lockout_mutex,
                     lockout_in_progress, phase, timed, left>>
      /\ UNCHANGED <<seq, core1, got, answer, resets>>
  BY DEF TimePasses, launchVars, lockoutVars, threadVars
<1>3. PICK time \in {"now", "past"} : call' = [call EXCEPT ![x] = [call[x] EXCEPT !.time = time]]
  BY DEF TimePasses
<1>4. PICK p \in Calls : p = call[x]
  BY <1>1
<1>5. /\ [p EXCEPT !.time = time] \in Calls /\ [p EXCEPT !.time = time].op = p.op
      /\ [p EXCEPT !.time = time].time = time
  BY DEF Calls, Clock
<1>6. /\ call' \in [Cores -> Calls] /\ call'[x].op = call[x].op /\ call'[x].time = time
      /\ call'[y] = call[y]
  BY <1>1, <1>3, <1>4, <1>5
<1>7. MulticoreTypeOK'
  BY <1>1, <1>2, <1>6, TypeFacts, TypeNext
<1>8. ThreadOf(y)'
  BY <1>1, <1>2, <1>6, ThreadKept
<1>9. call[x].time # Never /\ time # Never
  BY <1>2 DEF Never
<1>10. call[x].op # "launch" /\ call[x].op # "none"
  BY <1>1, <1>9 DEF ThreadOf, StageOf
<1>11. ThreadOf(x)'
  <2>1. (InHandshake(x) <=> InHandshake(x)') /\ (Locking(x) <=> Locking(x)')
    BY <1>2, <1>6 DEF InHandshake, Locking
  <2>2. HasMutex(x) <=> HasMutex(x)'
    BY <1>2, <2>1 DEF HasMutex
  <2>3. StageOf(x)'
    BY <1>1, <1>2, <1>6, <1>10, <2>1, <2>2 DEF ThreadOf, StageOf
  <2>4. PhaseOf(x)'
    BY <1>1, <1>2, <1>6, <1>9, <2>1 DEF ThreadOf, PhaseOf
  <2>5. IrqOf(x)'
    BY <1>1, <1>2, <1>6, <2>1 DEF ThreadOf, IrqOf
  <2> QED
    BY <2>3, <2>4, <2>5 DEF ThreadOf
<1>12. \A c \in Cores : call'[c].op = call[c].op
  BY <1>6, OtherFacts
<1> QED
  BY <1>7, <1>8, <1>10, <1>11, <1>12, CommonSplit

\* A step that changes no stage of a thread and no function it calls.
LEMMA StillApp ==
  ASSUME Common, AppInv, \A c \in Cores : call'[c].op = call[c].op,
         UNCHANGED <<fifo, at, isr, timed, phase, lockout_in_progress, seq, core1, got>>
  PROVE  AppInv'
<1>1. PICK c \in Cores : Asks(c)
  BY DEF AppInv
<1>2. Other(c) \in Cores /\ 0 \in Cores
  BY OtherFacts, CoreFacts
<1>3. Launching' = Launching /\ Entering' = Entering /\ EntryInv'
  BY <1>2 DEF AppInv, EntryInv, Launching, Entering
<1>4. Waits(Other(c))'
  BY <1>1, <1>2, OtherFacts DEF Asks, Waits, InHandshake, Locking
<1>5. Awaits(c) => Awaits(c)'
  BY DEF Awaits, InHandshake, Locking
<1>6. Asks(c)'
  BY <1>1, <1>3, <1>4, <1>5, AsksKept DEF Common, AppInv
<1> QED
  BY <1>3, <1>6 DEF AppInv

LEMMA OthersApp ==
  ASSUME Common, AppInv, ~TimedVictims, NEW x \in Cores,
         \/ VictimInit(x) /\ UNCHANGED <<launchVars, resets>>
         \/ TimePasses(x) /\ UNCHANGED <<launchVars, lockoutVars, resets>>
  PROVE  Common' /\ AppInv'
<1>1. CASE VictimInit(x) /\ UNCHANGED <<launchVars, resets>>
  <2>1. /\ UNCHANGED <<fifo, at, isr, timed, phase, lockout_in_progress, seq, core1, got>>
        /\ \A c \in Cores : call'[c].op = call[c].op
    BY <1>1 DEF VictimInit, launchVars
  <2> QED
    BY <1>1, <2>1, VictimInitCommon, StillApp
<1>2. CASE TimePasses(x) /\ UNCHANGED <<launchVars, lockoutVars, resets>>
  <2>1. /\ Common'
        /\ UNCHANGED <<fifo, at, isr, timed, phase, lockout_in_progress, seq, core1, got>>
        /\ \A c \in Cores : call'[c].op = call[c].op
    BY <1>2, TimePassesCommon DEF TimePasses, launchVars, lockoutVars, threadVars
  <2> QED
    BY <2>1, StillApp
<1> QED
  BY <1>1, <1>2

(* The launch *)

\* A step of multicore_launch_core1_raw before its end.
LEMMA LaunchCommon ==
  ASSUME Common, Launching, NEW s \in {"send", "push", "pop", "wfe", "launched"},
         at' = [at EXCEPT ![0] = s],
         fifo' \in [Cores -> Seq(Words)], \A c \in Cores : Len(fifo'[c]) <= Depth,
         event' \in [Cores -> BOOLEAN], seq' \in 1..6,
         UNCHANGED <<call, irq_enabled, saved, core1, got, answer, lockoutVars, resets>>
  PROVE  Common'
<1>1. /\ 0 \in Cores /\ 1 \in Cores /\ Other(0) = 1 /\ MulticoreTypeOK
      /\ ThreadOf(0) /\ ThreadOf(1) /\ at \in [Cores -> Stages]
  BY CoreFacts, TypeFacts DEF Common
<1>2. /\ UNCHANGED <<isr, victims, lockout_mutex,
                     lockout_in_progress, phase, timed, left>>
      /\ UNCHANGED <<call, irq_enabled, saved, core1, got, answer, resets>>
  BY DEF lockoutVars, threadVars
<1>3. s \in Stages
  BY DEF Stages
<1>4. MulticoreTypeOK'
  BY <1>1, <1>2, <1>3, TypeFacts, TypeNext
<1>5. at'[0] = s /\ at'[1] = at[1]
  BY <1>1
<1>6. ThreadOf(1)'
  BY <1>1, <1>2, <1>5, ThreadKept
<1>7. ThreadOf(0)'
  <2>1. ~Locking(0) /\ ~Locking(0)' /\ ~InHandshake(0) /\ ~InHandshake(0)'
    BY <1>2 DEF Launching, Locking, InHandshake
  <2>2. ~HasMutex(0) /\ ~HasMutex(0)'
    BY <1>1, <1>5, <2>1 DEF HasMutex, ThreadOf, StageOf, ThreadStages
  <2>3. StageOf(0)'
    BY <1>1, <1>2, <1>5, <2>1, <2>2 DEF ThreadOf, StageOf, ThreadStages, Launching
  <2>4. PhaseOf(0)'
    BY <1>1, <1>2, <1>5, <2>1 DEF ThreadOf, PhaseOf, Launching
  <2>5. IrqOf(0)'
    BY <1>1, <1>2, <2>1 DEF ThreadOf, IrqOf
  <2> QED
    BY <2>3, <2>4, <2>5 DEF ThreadOf
<1> QED
  BY <1>1, <1>4, <1>6, <1>7, CommonSplit

LEMMA LaunchReturnCommon ==
  ASSUME Common, LaunchReturn, UNCHANGED <<lockoutVars, resets>>
  PROVE  Common'
<1>1. /\ 0 \in Cores /\ 1 \in Cores /\ Other(0) = 1 /\ MulticoreTypeOK
      /\ ThreadOf(0) /\ ThreadOf(1) /\ at \in [Cores -> Stages] /\ call \in [Cores -> Calls]
      /\ irq_enabled \in [Cores -> BOOLEAN] /\ saved \in [Cores -> BOOLEAN]
      /\ NoCall \in Calls /\ NoCall.op = "none" /\ NoCall.time = Never
  BY CoreFacts, ActorFacts DEF Common
<1>2. /\ UNCHANGED <<isr, victims, lockout_mutex,
                     lockout_in_progress, phase, timed, left>>
      /\ UNCHANGED <<fifo, event, saved, seq, core1, got, answer, resets>>
      /\ at[0] = "launched" /\ at' = [at EXCEPT ![0] = "idle"]
      /\ call' = [call EXCEPT ![0] = NoCall]
      /\ irq_enabled' = [irq_enabled EXCEPT ![0] = saved[0]]
  BY DEF LaunchReturn, Go, launchVars, lockoutVars, threadVars
<1>3. "idle" \in Stages
  BY DEF Stages
<1>4. MulticoreTypeOK'
  BY <1>1, <1>2, <1>3, TypeFacts, TypeNext
<1>5. /\ at'[0] = "idle" /\ at'[1] = at[1] /\ call'[0] = NoCall /\ call'[1] = call[1]
      /\ irq_enabled'[0] = saved[0] /\ irq_enabled'[1] = irq_enabled[1]
  BY <1>1, <1>2
<1>6. ThreadOf(1)'
  BY <1>1, <1>2, <1>5, ThreadKept
<1>7. ThreadOf(0)'
  <2>1. /\ call[0].op = "launch" /\ ~Locking(0) /\ ~Locking(0)'
        /\ ~InHandshake(0) /\ ~InHandshake(0)'
    BY <1>1, <1>2, <1>5 DEF ThreadOf, StageOf, Locking, InHandshake
  <2>2. ~HasMutex(0) /\ ~HasMutex(0)'
    BY <1>2, <1>5, <2>1 DEF HasMutex
  <2>3. StageOf(0)'
    BY <1>1, <1>2, <1>5, <2>1, <2>2 DEF ThreadOf, StageOf, ThreadStages
  <2>4. PhaseOf(0)'
    BY <1>1, <1>2, <1>5, <2>1 DEF ThreadOf, PhaseOf
  <2>5. IrqOf(0)'
    BY <1>1, <1>2, <1>5, <2>1 DEF ThreadOf, IrqOf
  <2> QED
    BY <2>3, <2>4, <2>5 DEF ThreadOf
<1> QED
  BY <1>1, <1>4, <1>6, <1>7, CommonSplit

\* The launch takes its last echo, and returns.
LEMMA LaunchStepApp ==
  ASSUME Common, AppInv, LaunchStep, UNCHANGED <<lockoutVars, resets>>
  PROVE  Common' /\ AppInv'
<1>1. /\ 0 \in Cores /\ 1 \in Cores /\ Other(0) = 1 /\ Other(1) = 0 /\ MulticoreTypeOK
      /\ ThreadOf(0) /\ ThreadOf(1) /\ at \in [Cores -> Stages] /\ call \in [Cores -> Calls]
      /\ event \in [Cores -> BOOLEAN] /\ fifo \in [Cores -> Seq(Words)]
      /\ (\A c \in Cores : Len(fifo[c]) <= Depth) /\ seq \in 1..6 /\ EntryInv
      /\ NoCall.op = "none"
  BY CoreFacts, TypeFacts DEF Common, AppInv, NoCall
<1>2. Launching
  BY <1>1 DEF LaunchStep, Send, LaunchPush, LaunchPop, LaunchReturn, Launching, ThreadOf, StageOf
<1>3. /\ UNCHANGED <<isr, victims, timed, phase, lockout_in_progress>>
  BY DEF lockoutVars, threadVars
<1>4. core1' = core1 /\ got' = got
  BY DEF LaunchStep, Send, LaunchPush, LaunchPop, LaunchReturn, launchVars
<1>5. PICK c \in Cores : Asks(c)
  BY DEF AppInv
<1>6. (~Locking(0) /\ phase[0] # "asked") \/ c = 0
  <2>1. CASE c = 1
    BY <1>1, <1>2, <1>5, <2>1 DEF Asks, Waits, Launching, Locking, ThreadOf, StageOf, ThreadStages
  <2> QED
    BY <2>1, CoreFacts
<1>7. ASSUME NEW s \in {"pop", "wfe", "launched", "idle"}, at' = [at EXCEPT ![0] = s],
             call'[0].op \in {"launch", "none"}, call'[1] = call[1],
             Inbox(0)' = Inbox(0), Inbox(1)' = Inbox(1)
      PROVE  Asks(c)'
  <2>1. at'[0] = s /\ at'[1] = at[1] /\ ~Locking(0)' /\ ~Locking(0)
    BY <1>1, <1>2, <1>7 DEF Locking, Launching
  <2>2. Waits(Other(c))'
    <3>1. CASE c = 0
      BY <1>1, <1>3, <1>5, <1>7, <2>1, <3>1 DEF Asks, Waits, InHandshake, Locking
    <3>2. CASE c = 1
      BY <1>1, <1>3, <1>5, <1>6, <2>1, <3>2 DEF Asks, Waits, InHandshake
    <3> QED
      BY <3>1, <3>2, CoreFacts
  <2>3. (at'[c] = "done") = (at[c] = "done")
    <3>1. at[0] # "done"
      BY <1>1, <1>2 DEF ThreadOf, StageOf, ThreadStages, Locking, Launching
    <3> QED
      BY <2>1, <3>1, CoreFacts
  <2>4. Awaits(c) => Awaits(c)'
    BY <1>7, <2>1, CoreFacts DEF Awaits, InHandshake, Locking
  <2>5. Inbox(c)' = Inbox(c) /\ Inbox(Other(c))' = Inbox(Other(c))
    BY <1>1, <1>7, CoreFacts
  <2> QED
    BY <1>1, <1>3, <1>5, <2>2, <2>3, <2>4, <2>5, AsksSame
<1>8. CASE LaunchPop
  <2>1. /\ at[0] = "pop" /\ Pop(0) /\ Entering
        /\ UNCHANGED <<call, irq_enabled, saved, core1, got, answer>>
    BY <1>2, <1>8 DEF LaunchPop, Entering
  <2>2. seq = 6 /\ Head(fifo[0]) = "entry"
    BY <1>1, <2>1 DEF EntryInv
  <2>3. Len(cmd_sequence) = 6 /\ cmd_sequence[6] = "entry"
    BY DEF cmd_sequence
  <2>4. NextSeq(Head(fifo[0])) = 7
    BY <2>2, <2>3 DEF NextSeq
  <2>5. at' = [at EXCEPT ![0] = "launched"] /\ seq' = seq
    BY <1>8, <2>3, <2>4 DEF LaunchPop, Go
  <2>6. /\ fifo' \in [Cores -> Seq(Words)] /\ (\A b \in Cores : Len(fifo'[b]) <= Depth)
        /\ event' = event /\ fifo'[0] = Tail(fifo[0]) /\ fifo'[1] = fifo[1]
    BY <1>1, <2>1, PopFacts
  <2>7. Common'
    BY <1>1, <1>2, <2>1, <2>5, <2>6, LaunchCommon
  <2>8. at'[0] = "launched" /\ ~Entering' /\ Launching'
    BY <1>1, <1>2, <2>1, <2>5 DEF Entering, Launching
  <2>9. Inbox(0)' = Inbox(0) /\ Inbox(1)' = Inbox(1)
    BY <2>1, <2>6, <2>8 DEF Inbox
  <2>10. Asks(c)'
    BY <1>2, <1>7, <2>1, <2>5, <2>9 DEF Launching
  <2>11. EntryInv'
    BY <2>8 DEF EntryInv
  <2> QED
    BY <1>4, <2>7, <2>10, <2>11 DEF AppInv
<1>9. CASE LaunchReturn
  <2>1. /\ at[0] = "launched" /\ at' = [at EXCEPT ![0] = "idle"] /\ fifo' = fifo
        /\ call' = [call EXCEPT ![0] = NoCall]
    BY <1>9 DEF LaunchReturn, Go
  <2>2. at'[0] = "idle" /\ call'[0] = NoCall /\ call'[1] = call[1]
    BY <1>1, <2>1
  <2>3. ~Entering /\ ~Entering' /\ ~Launching'
    BY <1>1, <2>1, <2>2 DEF Entering, Launching
  <2>4. Inbox(0)' = Inbox(0) /\ Inbox(1)' = Inbox(1)
    BY <2>1, <2>3 DEF Inbox
  <2>5. Asks(c)'
    BY <1>1, <1>7, <2>1, <2>2, <2>4
  <2>6. EntryInv'
    BY <2>3 DEF EntryInv
  <2> QED
    BY <1>4, <1>9, <2>5, <2>6, LaunchReturnCommon DEF AppInv
<1>10. CASE call[0].op = "launch" /\ PopWait(0) /\ UNCHANGED launchVars
  <2>1. call[0].time = Never
    BY <1>1, <1>10 DEF ThreadOf, StageOf
  <2>2. ~TimeReached(0)
    BY <2>1 DEF TimeReached, Never
  <2>3. /\ at[0] \in {"pop", "wfe"} /\ fifo' = fifo /\ UNCHANGED <<call, irq_enabled, saved>>
        /\ event' = event \/ event' = [event EXCEPT ![0] = FALSE]
        /\ \E s \in {"wfe", "pop"} : at' = [at EXCEPT ![0] = s]
    BY <1>10, <2>2 DEF PopWait, Wfe, Go
  <2>4. PICK s \in {"wfe", "pop"} : at' = [at EXCEPT ![0] = s]
    BY <2>3
  <2>5. event' \in [Cores -> BOOLEAN] /\ seq' = seq /\ answer' = answer
    BY <1>1, <1>10, <2>3 DEF launchVars
  <2>6. Common'
    BY <1>1, <1>2, <1>4, <2>3, <2>4, <2>5, LaunchCommon
  <2>7. at'[0] \in {"wfe", "pop"} /\ Entering' = Entering /\ Launching' = Launching
    BY <1>1, <2>3, <2>4 DEF Entering, Launching
  <2>8. Inbox(0)' = Inbox(0) /\ Inbox(1)' = Inbox(1)
    BY <1>1, <2>3, <2>7, InboxKept
  <2>9. Asks(c)'
    BY <1>7, <1>10, <2>3, <2>4, <2>8
  <2>10. EntryInv'
    BY <1>1, <2>3, <2>5, <2>7 DEF EntryInv
  <2> QED
    BY <1>4, <2>6, <2>9, <2>10 DEF AppInv
<1>11. ~Send /\ ~LaunchPush
  BY <1>1, <1>2 DEF Send, LaunchPush, EntryInv
<1> QED
  BY <1>8, <1>9, <1>10, <1>11 DEF LaunchStep

(* The bootrom *)

\* What core 1 sends next whatever it is sent, and what the launch has still
\* to read if core 1 echoes every word: those in the FIFO of core 1 come back,
\* except that it is about to drain it.
Due == CASE core1 \in {"drain", "hello"} -> << "0" >>
         [] core1 = "echo" -> << answer >>
         [] OTHER -> << >>
Coming == IF core1 = "drain" THEN Due ELSE Due \o fifo[1]
Stream == fifo[0] \o Coming

\* When the launch has the n-th word to send, at most one word of an earlier
\* attempt comes; when it has sent it, its echo follows.
Strays(n) == CASE n = 1 -> {"0", "1"} [] n \in {2, 3} -> {"0"} [] OTHER -> {}
Before(n, heard) ==
  Len(heard) <= 1 /\ (Len(heard) = 1 => heard[1] \in Strays(n))
After(n, heard) ==
  /\ Len(heard) > 0 /\ Len(heard) <= 2 /\ heard[Len(heard)] = cmd_sequence[n]
  /\ Len(heard) = 2 => heard[1] \in Strays(n)

\* Core 1 has accepted the first k words of the program.
Accepts(accepted, k) ==
  Len(accepted) = k /\ \A i \in 1..k : accepted[i] = Program[i]

\* What it has accepted, while inbox is in its FIFO, agrees with that.
AgreesBefore(n, inbox, accepted) ==
  /\ n > 3 => Accepts(accepted, n - 3)
  /\ n <= 3 =>
       /\ Accepts(accepted, 0) \/ Accepts(accepted, 1)
       /\ inbox # << >> /\ Head(inbox) = "1" => Accepts(accepted, 0)
       /\ n > 1 /\ inbox = << >> => Accepts(accepted, 0)
AgreesAfter(n, inbox, accepted) ==
  /\ n > 3 => IF inbox = << >> THEN Accepts(accepted, n - 2) ELSE Accepts(accepted, n - 3)
  /\ n <= 3 =>
       /\ Accepts(accepted, 0) \/ Accepts(accepted, 1)
       /\ inbox # << >> /\ Head(inbox) = "1" => Accepts(accepted, 0)
       /\ inbox = << >> => IF n = 3 THEN Accepts(accepted, 1) ELSE Accepts(accepted, 0)

\* A 0 is sent behind a drain.
DialogueInv ==
  /\ at[0] = "send" =>
       /\ Before(seq, IF cmd_sequence[seq] = "0" THEN Coming ELSE Stream)
       /\ AgreesBefore(seq, fifo[1], got)
  /\ at[0] = "push" => Before(seq, Stream) /\ AgreesBefore(seq, fifo[1], got)
  /\ at[0] \in {"pop", "wfe"} => After(seq, Stream) /\ AgreesAfter(seq, fifo[1], got)
  /\ at[0] \in {"send", "push", "pop", "wfe"}
  /\ core1 = "drain" => seq = 1 /\ (at[0] # "send" => fifo[0] = << >>)

NoStart == \A k \in 1..Len(fifo[0]) : fifo[0][k] # "START"

QuietInv ==
  /\ \A c \in Cores : phase[c] = "none" /\ ~Locking(c)
  /\ 1 \notin victims /\ Drains(isr[0]) /\ ~lockout_in_progress
  /\ \E c \in Cores : timed \subseteq {c}

\* Core 1 is in the bootrom.
BootInv ==
  /\ core1 # "app" /\ QuietInv /\ NoStart
  /\ core1 = "drain" => got = << >>
  /\ got = Program => core1 = "echo"
  /\ IF Launching THEN DialogueInv
     ELSE got = << >> /\ core1 # "echo" /\ (core1 # "drain" => fifo[1] = << >>)

LEMMA CommandFacts ==
  /\ cmd_sequence[1] = "0" /\ cmd_sequence[2] = "0" /\ cmd_sequence[3] = "1"
  /\ cmd_sequence[4] = "vector" /\ cmd_sequence[5] = "sp" /\ cmd_sequence[6] = "entry"
  /\ Len(cmd_sequence) = 6
BY DEF cmd_sequence

LEMMA ProgramFacts ==
  /\ Program[1] = "1" /\ Program[2] = "vector" /\ Program[3] = "sp" /\ Program[4] = "entry"
  /\ Len(Program) = 4 /\ Program \in Seq(BootWords)
<1>1. BootWords = {cmd_sequence[k] : k \in 1..6}
  BY CommandFacts DEF BootWords
<1>2. {"1", "vector", "sp", "entry"} \subseteq BootWords
  BY <1>1, CommandFacts
<1> QED
  BY <1>2 DEF Program

LEMMA CommandWords == ASSUME NEW n \in 1..6 PROVE cmd_sequence[n] \in BootWords
  BY CommandFacts DEF BootWords

LEMMA StrayFacts ==
  /\ Strays(1) = {"0", "1"} /\ Strays(2) = {"0"} /\ Strays(3) = {"0"}
  /\ Strays(4) = {} /\ Strays(5) = {} /\ Strays(6) = {}
  BY DEF Strays

LEMMA StageFacts ==
  ASSUME NEW n \in 1..6
  PROVE  n = 1 \/ n = 2 \/ n = 3 \/ n = 4 \/ n = 5 \/ n = 6
  OBVIOUS

(* Two sequences, one behind the other *)

LEMMA Joined ==
  ASSUME NEW s \in Seq(Words), NEW t \in Seq(Words)
  PROVE  /\ s \o t \in Seq(Words) /\ Len(s \o t) = Len(s) + Len(t)
         /\ \A i \in 1..Len(s) : (s \o t)[i] = s[i]
         /\ \A i \in 1..Len(t) : (s \o t)[Len(s) + i] = t[i]
  OBVIOUS

LEMMA SameWords ==
  ASSUME NEW s \in Seq(Words), NEW t \in Seq(Words), Len(s) = Len(t),
         \A i \in 1..Len(s) : s[i] = t[i]
  PROVE  s = t
  OBVIOUS

LEMMA JoinedNone ==
  ASSUME NEW s \in Seq(Words)
  PROVE  s \o << >> = s /\ << >> \o s = s
  BY SMT, SameWords

LEMMA JoinedAppend ==
  ASSUME NEW s \in Seq(Words), NEW t \in Seq(Words), NEW w \in Words
  PROVE  s \o Append(t, w) = Append(s \o t, w)
<1>1. s \o Append(t, w) \in Seq(Words) /\ Append(s \o t, w) \in Seq(Words)
  OBVIOUS
<1>2. Len(s \o Append(t, w)) = Len(Append(s \o t, w))
  OBVIOUS
<1>3. \A i \in 1..Len(s \o Append(t, w)) : (s \o Append(t, w))[i] = Append(s \o t, w)[i]
  OBVIOUS
<1> QED
  BY <1>1, <1>2, <1>3, SameWords

LEMMA JoinedTail ==
  ASSUME NEW s \in Seq(Words), NEW t \in Seq(Words), s # << >>
  PROVE  /\ Tail(s) \o t = Tail(s \o t) /\ Head(s \o t) = Head(s) /\ s \o t # << >>
<1>1. Tail(s) \o t \in Seq(Words) /\ Tail(s \o t) \in Seq(Words) /\ s \o t # << >>
  OBVIOUS
<1>2. Len(Tail(s) \o t) = Len(Tail(s \o t))
  OBVIOUS
<1>3. \A i \in 1..Len(Tail(s) \o t) : (Tail(s) \o t)[i] = Tail(s \o t)[i]
  OBVIOUS
<1>4. Head(s \o t) = Head(s)
  OBVIOUS
<1> QED
  BY <1>1, <1>2, <1>3, <1>4, SameWords

LEMMA JoinedMoved ==
  ASSUME NEW s \in Seq(Words), NEW t \in Seq(Words), NEW w \in Words
  PROVE  Append(s, w) \o t = s \o (<< w >> \o t)
<1>0. << w >> \in Seq(Words) /\ Len(<< w >>) = 1 /\ << w >>[1] = w
  OBVIOUS
<1>1. Append(s, w) \o t \in Seq(Words) /\ s \o (<< w >> \o t) \in Seq(Words)
  BY <1>0
<1>2. Len(Append(s, w) \o t) = Len(s \o (<< w >> \o t))
  BY <1>0
<1>3. \A i \in 1..Len(Append(s, w) \o t) : (Append(s, w) \o t)[i] = (s \o (<< w >> \o t))[i]
  BY <1>0
<1> QED
  BY <1>1, <1>2, <1>3, SameWords

LEMMA JoinedHead ==
  ASSUME NEW s \in Seq(Words), s # << >>
  PROVE  << Head(s) >> \o Tail(s) = s
<1>1. << Head(s) >> \o Tail(s) \in Seq(Words) /\ Len(<< Head(s) >> \o Tail(s)) = Len(s)
  OBVIOUS
<1>2. \A i \in 1..Len(<< Head(s) >> \o Tail(s)) : (<< Head(s) >> \o Tail(s))[i] = s[i]
  OBVIOUS
<1> QED
  BY <1>1, <1>2, SameWords

LEMMA JoinedEmpty ==
  ASSUME NEW s \in Seq(Words), NEW t \in Seq(Words), s \o t = << >>
  PROVE  s = << >> /\ t = << >>
<1>1. Len(s) + Len(t) = 0 /\ Len(s) \in Nat /\ Len(t) \in Nat
  BY Joined
<1>2. Len(s) = 0 /\ Len(t) = 0
  BY <1>1
<1> QED
  BY <1>2

LEMMA ProgramSome == << >> # Program
  BY DEF Program

(* The dialogue *)

\* The launch sends its word.
LEMMA DialogueSend ==
  ASSUME NEW n \in 1..6, NEW heard \in Seq(Words), Before(n, heard)
  PROVE  After(n, Append(heard, cmd_sequence[n]))
<1>1. cmd_sequence[n] \in Words
  BY CommandWords, MagicWords
<1>2. Len(heard) <= 1 /\ (Len(heard) = 1 => heard[1] \in Strays(n))
  BY DEF Before
<1> DEFINE t == Append(heard, cmd_sequence[n])
<1>3. t \in Seq(Words) /\ Len(t) = Len(heard) + 1 /\ t[Len(t)] = cmd_sequence[n]
      /\ (Len(heard) = 1 => t[1] = heard[1])
  BY <1>1, <1>2
<1> HIDE DEF t
<1>4. Len(t) > 0 /\ Len(t) <= 2 /\ (Len(t) = 2 => Len(heard) = 1)
  <2> DEFINE k == Len(heard)
             m == Len(t)
  <2>1. k \in Nat /\ k <= 1 /\ m = k + 1
    BY <1>2, <1>3
  <2> HIDE DEF k, m
  <2>2. m > 0 /\ m <= 2 /\ (m = 2 => k = 1)
    BY <2>1
  <2> QED
    BY <2>2 DEF k, m
<1>5. Len(t) = 2 => t[1] \in Strays(n)
  BY <1>2, <1>3, <1>4
<1> QED
  BY <1>3, <1>4, <1>5 DEF After, t

LEMMA AgreesSend ==
  ASSUME NEW n \in 1..6, NEW inbox \in Seq(Words), NEW accepted, AgreesBefore(n, inbox, accepted)
  PROVE  AgreesAfter(n, Append(inbox, cmd_sequence[n]), accepted)
<1>1. cmd_sequence[n] \in Words
  BY CommandWords, MagicWords
<1> DEFINE t == Append(inbox, cmd_sequence[n])
<1>2. /\ t # << >> /\ (inbox # << >> => Head(t) = Head(inbox))
      /\ inbox = << >> => Head(t) = cmd_sequence[n]
  <2> DEFINE w == cmd_sequence[n]
  <2>1. w \in Words
    BY <1>1
  <2>2. t = Append(inbox, w)
    OBVIOUS
  <2> HIDE DEF w, t
  <2>3. t \in Seq(Words) /\ Len(t) = Len(inbox) + 1 /\ Len(inbox) \in Nat
    BY <2>1, <2>2
  <2>4. t[Len(t)] = w /\ \A k \in 1..Len(inbox) : t[k] = inbox[k]
    BY <2>1, <2>2
  <2>5. t # << >> /\ Head(t) = t[1]
    BY <2>3
  <2>6. /\ Len(t) = Len(inbox) + 1 /\ Len(inbox) \in Nat /\ t[Len(t)] = cmd_sequence[n]
        /\ \A k \in 1..Len(inbox) : t[k] = inbox[k]
        /\ t # << >> /\ Head(t) = t[1]
    BY <2>3, <2>4, <2>5 DEF w
  <2>7. inbox # << >> => Len(inbox) > 0 /\ Head(inbox) = inbox[1]
    OBVIOUS
  <2>8. inbox = << >> => Len(inbox) = 0
    OBVIOUS
  <2> QED
    BY <2>6, <2>7, <2>8
<1> HIDE DEF t
<1>3. CASE n > 3
  <2> QED
    BY <1>2, <1>3 DEF AgreesBefore, AgreesAfter, t
<1>4. CASE n <= 3
  <2>1. n = 1 \/ n = 2 \/ n = 3
    BY <1>4, StageFacts
  <2>2. inbox = << >> /\ Head(t) = "1" => Accepts(accepted, 0)
    BY <1>2, <1>4, <2>1, CommandFacts DEF AgreesBefore
  <2>3. inbox # << >> /\ Head(t) = "1" => Accepts(accepted, 0)
    BY <1>2, <1>4 DEF AgreesBefore
  <2>4. Accepts(accepted, 0) \/ Accepts(accepted, 1)
    BY <1>4 DEF AgreesBefore
  <2>5. AgreesAfter(n, t, accepted)
    BY <1>2, <1>4, <2>2, <2>3, <2>4 DEF AgreesAfter
  <2> QED
    BY <2>5 DEF t
<1> QED
  BY <1>3, <1>4

\* The launch reads a word: the echo leads on, a stray word may start it over.
LEMMA DialogueHear ==
  ASSUME NEW n \in 1..6, NEW heard \in Seq(Words), After(n, heard)
  PROVE  \/ Head(heard) = cmd_sequence[n] /\ Tail(heard) = << >>
         \/ Head(heard) = cmd_sequence[n] /\ n < 3 /\ Before(n + 1, Tail(heard))
         \/ Head(heard) # cmd_sequence[n] /\ n <= 3 /\ Before(1, Tail(heard))
<1> DEFINE t == Tail(heard)
<1>1. /\ Len(heard) > 0 /\ Len(heard) <= 2 /\ heard[Len(heard)] = cmd_sequence[n]
      /\ Len(heard) = 2 => heard[1] \in Strays(n)
  BY DEF After
<1>2. /\ Head(heard) = heard[1] /\ t \in Seq(Words) /\ Len(t) = Len(heard) - 1
      /\ (Len(heard) = 2 => t[1] = heard[2])
  BY <1>1
<1> HIDE DEF t
<1>3. CASE Len(heard) = 1
  <2>1. t = << >>
    BY <1>2, <1>3
  <2> QED
    BY <1>1, <1>2, <1>3, <2>1 DEF t
<1>4. CASE Len(heard) = 2
  <2>1. Len(t) = 1 /\ t[1] = cmd_sequence[n] /\ Head(heard) \in Strays(n)
    BY <1>1, <1>2, <1>4
  <2>2. CASE n = 1
    <3>1. Before(2, t) /\ n + 1 = 2
      BY <2>1, <2>2, CommandFacts, StrayFacts DEF Before
    <3>2. Head(heard) # cmd_sequence[n] => Before(1, t)
      BY <2>1, <2>2, CommandFacts, StrayFacts DEF Before
    <3> QED
      BY <2>2, <3>1, <3>2 DEF t
  <2>3. CASE n = 2
    <3>1. Head(heard) = cmd_sequence[n] /\ Before(3, t) /\ n + 1 = 3
      BY <2>1, <2>3, CommandFacts, StrayFacts DEF Before
    <3> QED
      BY <2>3, <3>1 DEF t
  <2>4. CASE n = 3
    <3>1. Head(heard) # cmd_sequence[n] /\ Before(1, t)
      BY <2>1, <2>4, CommandFacts, StrayFacts DEF Before
    <3> QED
      BY <2>4, <3>1 DEF t
  <2>5. n \notin {4, 5, 6}
    BY <2>1, StrayFacts
  <2> QED
    BY <2>2, <2>3, <2>4, <2>5, StageFacts
<1>5. Len(heard) = 1 \/ Len(heard) = 2
  <2> DEFINE k == Len(heard)
  <2>1. k \in Nat /\ k > 0 /\ k <= 2
    BY <1>1
  <2> HIDE DEF k
  <2>2. k = 1 \/ k = 2
    BY <2>1
  <2> QED
    BY <2>2 DEF k
<1> QED
  BY <1>3, <1>4, <1>5

\* What may come may come without the first words.
LEMMA BeforeSuffix ==
  ASSUME NEW n \in 1..6, NEW s \in Seq(Words), NEW t \in Seq(Words), Before(n, s \o t)
  PROVE  Before(n, t)
<1> DEFINE u == s \o t
<1>1. Len(u) <= 1 /\ (Len(u) = 1 => u[1] \in Strays(n))
  BY DEF Before
<1>2. /\ Len(u) = Len(s) + Len(t) /\ \A i \in 1..Len(t) : u[Len(s) + i] = t[i]
  BY Joined
<1>3. Len(s) \in Nat /\ Len(t) \in Nat
  OBVIOUS
<1> HIDE DEF u
<1>4. Len(t) <= 1 /\ (Len(t) = 1 => Len(s) = 0)
  <2> DEFINE k == Len(s)
             m == Len(t)
  <2>1. k \in Nat /\ m \in Nat /\ k + m <= 1
    BY <1>1, <1>2, <1>3
  <2> HIDE DEF k, m
  <2>2. m <= 1 /\ (m = 1 => k = 0)
    BY <2>1
  <2> QED
    BY <2>2 DEF k, m
<1>5. Len(t) = 1 => u[1] = t[1] /\ Len(u) = 1
  BY <1>2, <1>4
<1> QED
  BY <1>1, <1>4, <1>5 DEF Before

LEMMA BeforeNone == ASSUME NEW n PROVE Before(n, << >>)
  BY DEF Before

LEMMA BeforeZero == Before(1, << "0" >>) /\ After(1, << "0" >>)
<1>1. Len(<< "0" >>) = 1 /\ << "0" >>[1] = "0"
  OBVIOUS
<1> QED
  BY <1>1, CommandFacts, StrayFacts DEF Before, After

LEMMA AcceptsNone ==
  ASSUME NEW accepted \in Seq(BootWords)
  PROVE  Accepts(accepted, 0) <=> accepted = << >>
<1>1. accepted = << >> => Accepts(accepted, 0)
  BY DEF Accepts
<1>2. Len(accepted) = 0 => accepted = << >>
  OBVIOUS
<1> QED
  BY <1>1, <1>2 DEF Accepts

LEMMA AcceptsNext ==
  ASSUME NEW accepted \in Seq(BootWords), NEW k \in 0..3, Accepts(accepted, k)
  PROVE  Accepts(Append(accepted, Program[k + 1]), k + 1)
<1>1. Program[k + 1] \in BootWords
  <2>1. Program \in Seq(BootWords) /\ k + 1 \in 1..Len(Program)
    BY ProgramFacts
  <2> QED
    BY <2>1
<1> DEFINE w == Program[k + 1]
           t == Append(accepted, w)
<1>2. Len(accepted) = k /\ \A i \in 1..k : accepted[i] = Program[i]
  BY DEF Accepts
<1>3. /\ Len(t) = Len(accepted) + 1 /\ t[Len(accepted) + 1] = w
      /\ \A i \in 1..Len(accepted) : t[i] = accepted[i]
  BY <1>1
<1>4. Len(t) = k + 1 /\ t[k + 1] = Program[k + 1] /\ \A i \in 1..k : t[i] = Program[i]
  BY <1>2, <1>3
<1> HIDE DEF t
<1>5. \A i \in 1..(k + 1) : t[i] = Program[i]
  BY <1>4
<1> QED
  BY <1>4, <1>5 DEF Accepts, t

LEMMA AcceptsAll ==
  ASSUME NEW accepted \in Seq(BootWords), Accepts(accepted, 4)
  PROVE  accepted = Program
<1>1. accepted \in Seq(Words) /\ Program \in Seq(Words)
  BY ProgramFacts, MagicWords
<1>2. Len(accepted) = Len(Program) /\ \A i \in 1..Len(accepted) : accepted[i] = Program[i]
  BY ProgramFacts DEF Accepts
<1> QED
  BY <1>1, <1>2, SameWords

\* The echo has come: the launch goes on with the next word.
LEMMA AgreesOn ==
  ASSUME NEW n \in 1..5, NEW inbox, NEW accepted,
         AgreesAfter(n, inbox, accepted), n < 3 \/ inbox = << >>
  PROVE  AgreesBefore(n + 1, inbox, accepted)
<1>1. CASE n > 3
  <2>1. Accepts(accepted, n - 2) /\ (n + 1) - 3 = n - 2 /\ n + 1 > 3
    BY <1>1 DEF AgreesAfter
  <2> QED
    BY <2>1 DEF AgreesBefore
<1>2. CASE n = 3
  <2>1. Accepts(accepted, 1) /\ (n + 1) - 3 = 1 /\ n + 1 > 3
    BY <1>2 DEF AgreesAfter
  <2> QED
    BY <2>1 DEF AgreesBefore
<1>3. CASE n < 3
  BY <1>3 DEF AgreesBefore, AgreesAfter
<1> QED
  BY <1>1, <1>2, <1>3

LEMMA AgreesAgain ==
  ASSUME NEW n \in 1..3, NEW inbox, NEW accepted, AgreesAfter(n, inbox, accepted)
  PROVE  AgreesBefore(1, inbox, accepted)
  BY DEF AgreesBefore, AgreesAfter

\* Core 1 reads a word, accepts it, and will echo it.
Accepted(accepted, word) == word = "0" \/ (accepted = << >> /\ word = "1") \/ accepted # << >>
AcceptedThen(accepted, word) == IF word = "0" THEN << >> ELSE Append(accepted, word)

LEMMA BehindFacts ==
  ASSUME NEW s \in Seq(Words), NEW f \in Seq(Words), f # << >>
  PROVE  /\ Len(s \o f) = Len(s) + Len(f) /\ Len(s) \in Nat /\ Len(f) \in Nat /\ Len(f) > 0
         /\ Head(f) = f[1] /\ Tail(f) \in Seq(Words) /\ Len(Tail(f)) = Len(f) - 1
         /\ \A i \in 1..Len(f) : (s \o f)[Len(s) + i] = f[i]
         /\ (Tail(f) = << >> <=> Len(f) = 1)
         /\ Len(f) = 2 => Head(Tail(f)) = f[2]
<1>1. /\ Len(f) \in Nat /\ Len(f) > 0 /\ Head(f) = f[1] /\ Tail(f) \in Seq(Words)
      /\ Len(Tail(f)) = Len(f) - 1 /\ Len(s) \in Nat
      /\ Len(s \o f) = Len(s) + Len(f)
      /\ \A i \in 1..Len(f) : (s \o f)[Len(s) + i] = f[i]
  OBVIOUS
<1>2. Tail(f) = << >> <=> Len(f) = 1
  <2> DEFINE t == Tail(f)
  <2>1. t \in Seq(Words) /\ Len(f) = Len(t) + 1 /\ Len(t) \in Nat
    BY <1>1
  <2> HIDE DEF t
  <2>2. t = << >> <=> Len(t) = 0
    BY <2>1
  <2> QED
    BY <2>1, <2>2 DEF t
<1>3. Len(f) = 2 => Head(Tail(f)) = f[2]
  <2>1. ASSUME Len(f) = 2 PROVE Tail(f)[1] = f[1 + 1]
    BY <1>1, <2>1
  <2>2. Len(f) = 2 => Tail(f) # << >>
    BY <1>2
  <2> QED
    BY <1>1, <2>1, <2>2
<1> QED
  BY <1>1, <1>2, <1>3

LEMMA BehindBefore ==
  ASSUME NEW n \in 1..6, NEW s \in Seq(Words), NEW f \in Seq(Words), f # << >>,
         Before(n, s \o f)
  PROVE  n \in 1..3 /\ Tail(f) = << >> /\ Head(f) \in Strays(n)
<1> DEFINE k == Len(s)
           m == Len(f)
<1>1. /\ k \in Nat /\ m \in Nat /\ m > 0 /\ k + m <= 1
      /\ Len(s \o f) = k + m /\ f[1] = Head(f) /\ (s \o f)[k + 1] = f[1]
      /\ (Tail(f) = << >> <=> m = 1)
      /\ k + m = 1 => (s \o f)[1] \in Strays(n)
  BY BehindFacts DEF Before
<1> HIDE DEF k, m
<1>2. k = 0 /\ m = 1 /\ k + 1 = 1 /\ k + m = 1
  BY <1>1
<1>3. Head(f) \in Strays(n) /\ Tail(f) = << >>
  BY <1>1, <1>2
<1>4. n \notin {4, 5, 6}
  BY <1>3, StrayFacts
<1> QED
  BY <1>3, <1>4, StageFacts

LEMMA BehindAfter ==
  ASSUME NEW n \in 1..6, NEW s \in Seq(Words), NEW f \in Seq(Words), f # << >>,
         After(n, s \o f)
  PROVE  \/ Tail(f) = << >> /\ Head(f) = cmd_sequence[n]
         \/ /\ n \in 1..3 /\ Tail(f) # << >> /\ Head(Tail(f)) = cmd_sequence[n]
            /\ Head(f) \in Strays(n)
<1> DEFINE k == Len(s)
           m == Len(f)
           h == s \o f
<1>1. /\ k \in Nat /\ m \in Nat /\ m > 0 /\ k + m <= 2
      /\ h[k + m] = cmd_sequence[n] /\ f[1] = Head(f)
      /\ h[k + 1] = f[1] /\ h[k + m] = f[m]
      /\ (Tail(f) = << >> <=> m = 1) /\ (m = 2 => Head(Tail(f)) = f[2])
      /\ k + m = 2 => h[1] \in Strays(n)
  BY BehindFacts DEF After
<1> HIDE DEF k, m, h
<1>2. m = 1 \/ (m = 2 /\ k = 0 /\ k + m = 2 /\ k + 1 = 1)
  BY <1>1
<1>3. CASE m = 1
  BY <1>1, <1>3
<1>4. CASE m = 2 /\ k = 0 /\ k + m = 2 /\ k + 1 = 1
  <2>1. Head(f) \in Strays(n) /\ Head(Tail(f)) = cmd_sequence[n] /\ Tail(f) # << >>
    BY <1>1, <1>4
  <2>2. n \notin {4, 5, 6}
    BY <2>1, StrayFacts
  <2> QED
    BY <2>1, <2>2, StageFacts
<1> QED
  BY <1>2, <1>3, <1>4

LEMMA ZeroOne == "0" \in BootWords /\ "1" \in BootWords
  BY CommandFacts, CommandWords

LEMMA AcceptsOne ==
  ASSUME NEW accepted \in Seq(BootWords), Accepts(accepted, 0)
  PROVE  /\ accepted = << >> /\ Accepts(AcceptedThen(accepted, "1"), 1)
         /\ AcceptedThen(accepted, "1") \in Seq(BootWords)
<1>1. accepted = << >>
  BY AcceptsNone
<1>2. Accepts(Append(accepted, Program[0 + 1]), 0 + 1) /\ Program[0 + 1] = "1"
  BY AcceptsNext, ProgramFacts
<1>3. Append(accepted, "1") \in Seq(BootWords)
  BY ZeroOne
<1> QED
  BY <1>1, <1>2, <1>3 DEF AcceptedThen

LEMMA AcceptsZero ==
  ASSUME NEW accepted
  PROVE  AcceptedThen(accepted, "0") = << >> /\ Accepts(<< >>, 0) /\ << >> \in Seq(BootWords)
  BY DEF AcceptedThen, Accepts

LEMMA AcceptsShort ==
  ASSUME NEW accepted, NEW k \in 0..4, Accepts(accepted, k)
  PROVE  Len(accepted) <= 4
  BY DEF Accepts

LEMMA AcceptBefore ==
  ASSUME NEW n \in 1..6, NEW s \in Seq(Words), NEW f \in Seq(Words), f # << >>,
         NEW accepted \in Seq(BootWords), Before(n, s \o f), AgreesBefore(n, f, accepted)
  PROVE  LET then == AcceptedThen(accepted, Head(f)) IN
         /\ Accepted(accepted, Head(f)) /\ Head(f) \in BootWords
         /\ AgreesBefore(n, Tail(f), then) /\ then \in Seq(BootWords) /\ Len(then) <= 4
<1> DEFINE then == AcceptedThen(accepted, Head(f))
<1>1. n \in 1..3 /\ Tail(f) = << >> /\ Head(f) \in Strays(n)
  BY BehindBefore
<1>2. Head(f) = "0" \/ (Head(f) = "1" /\ n = 1)
  BY <1>1, StrayFacts
<1>3. CASE Head(f) = "0"
  <2>1. Accepts(then, 0) /\ then \in Seq(BootWords)
    BY <1>3, AcceptsZero
  <2> HIDE DEF then
  <2>2. AgreesBefore(n, Tail(f), then)
    BY <1>1, <2>1 DEF AgreesBefore
  <2>3. Len(then) <= 4
    BY <2>1, AcceptsShort
  <2> QED
    BY <1>3, <2>1, <2>2, <2>3, ZeroOne DEF then, Accepted
<1>4. CASE Head(f) = "1" /\ n = 1
  <2>1. Accepts(accepted, 0)
    BY <1>4 DEF AgreesBefore
  <2>2. accepted = << >> /\ Accepts(then, 1) /\ then \in Seq(BootWords)
    BY <1>4, <2>1, AcceptsOne
  <2> HIDE DEF then
  <2>3. AgreesBefore(n, Tail(f), then)
    BY <1>1, <1>4, <2>2 DEF AgreesBefore
  <2>4. Len(then) <= 4
    BY <2>2, AcceptsShort
  <2> QED
    BY <1>4, <2>2, <2>3, <2>4, ZeroOne DEF then, Accepted
<1> QED
  BY <1>2, <1>3, <1>4

LEMMA AcceptAfter ==
  ASSUME NEW n \in 1..6, NEW s \in Seq(Words), NEW f \in Seq(Words), f # << >>,
         NEW accepted \in Seq(BootWords), After(n, s \o f), AgreesAfter(n, f, accepted)
  PROVE  LET then == AcceptedThen(accepted, Head(f)) IN
         /\ Accepted(accepted, Head(f)) /\ Head(f) \in BootWords
         /\ AgreesAfter(n, Tail(f), then) /\ then \in Seq(BootWords) /\ Len(then) <= 4
<1> DEFINE then == AcceptedThen(accepted, Head(f))
<1>1. \/ Tail(f) = << >> /\ Head(f) = cmd_sequence[n]
      \/ /\ n \in 1..3 /\ Tail(f) # << >> /\ Head(Tail(f)) = cmd_sequence[n]
         /\ Head(f) \in Strays(n)
  BY BehindAfter
<1>2. CASE n > 3
  <2>1. Tail(f) = << >> /\ Head(f) = cmd_sequence[n] /\ Head(f) \in BootWords
    BY <1>1, <1>2, CommandWords
  <2>2. Accepts(accepted, n - 3) /\ n - 3 \in 1..3
    BY <1>2 DEF AgreesAfter
  <2>3. cmd_sequence[n] = Program[n - 2] /\ cmd_sequence[n] # "0" /\ (n - 3) + 1 = n - 2
    <3>1. n = 4 \/ n = 5 \/ n = 6
      BY <1>2, StageFacts
    <3> QED
      BY <3>1, CommandFacts, ProgramFacts
  <2>4. accepted # << >>
    BY <2>2 DEF Accepts
  <2>5. Accepts(then, n - 2)
    <3>1. Accepts(Append(accepted, Program[(n - 3) + 1]), (n - 3) + 1)
      BY <2>2, AcceptsNext
    <3> QED
      BY <2>1, <2>3, <3>1 DEF AcceptedThen
  <2>6. then \in Seq(BootWords)
    BY <2>1 DEF AcceptedThen
  <2> HIDE DEF then
  <2>7. AgreesAfter(n, Tail(f), then)
    BY <1>2, <2>1, <2>5 DEF AgreesAfter
  <2>8. Len(then) <= 4
    <3>1. n - 2 \in 0..4
      BY <1>2
    <3> QED
      BY <2>5, <3>1, AcceptsShort
  <2> QED
    BY <2>1, <2>4, <2>6, <2>7, <2>8 DEF then, Accepted
<1>3. CASE n <= 3
  <2>1. n = 1 \/ n = 2 \/ n = 3
    BY <1>3, StageFacts
  <2>2. CASE Head(f) = "0"
    <3>1. Accepts(then, 0) /\ then \in Seq(BootWords)
      BY <2>2, AcceptsZero
    <3> HIDE DEF then
    <3>2. Tail(f) = << >> => n # 3
      BY <1>1, <2>2, CommandFacts
    <3>3. AgreesAfter(n, Tail(f), then)
      BY <1>3, <3>1, <3>2 DEF AgreesAfter
    <3>4. Len(then) <= 4
      BY <3>1, AcceptsShort
    <3> QED
      BY <2>2, <3>1, <3>3, <3>4, ZeroOne DEF then, Accepted
  <2>3. CASE Head(f) = "1"
    <3>1. Accepts(accepted, 0)
      BY <1>3, <2>3 DEF AgreesAfter
    <3>2. accepted = << >> /\ Accepts(then, 1) /\ then \in Seq(BootWords)
      BY <2>3, <3>1, AcceptsOne
    <3> HIDE DEF then
    <3>3. \/ Tail(f) = << >> /\ n = 3
          \/ Tail(f) # << >> /\ n = 1 /\ Head(Tail(f)) = "0"
      BY <1>1, <2>1, <2>3, CommandFacts, StrayFacts
    <3>4. AgreesAfter(n, Tail(f), then)
      BY <1>3, <3>2, <3>3 DEF AgreesAfter
    <3>5. Len(then) <= 4
      BY <3>2, AcceptsShort
    <3> QED
      BY <2>3, <3>2, <3>4, <3>5, ZeroOne DEF then, Accepted
  <2>4. Head(f) = "0" \/ Head(f) = "1"
    BY <1>1, <2>1, CommandFacts, StrayFacts
  <2> QED
    BY <2>2, <2>3, <2>4
<1> QED
  BY <1>2, <1>3

(* The steps of the launch while core 1 is in the bootrom *)

LEMMA StreamType ==
  ASSUME MulticoreTypeOK
  PROVE  /\ fifo[0] \in Seq(Words) /\ fifo[1] \in Seq(Words)
         /\ Due \in Seq(Words) /\ Coming \in Seq(Words) /\ Stream \in Seq(Words)
<1>1. fifo[0] \in Seq(Words) /\ fifo[1] \in Seq(Words) /\ answer \in BootWords
  BY TypeFacts, CoreFacts
<1>2. "0" \in Words /\ answer \in Words
  BY <1>1, ZeroOne, MagicWords
<1>3. << "0" >> \in Seq(Words) /\ << answer >> \in Seq(Words) /\ << >> \in Seq(Words)
  BY <1>2
<1>4. Due \in Seq(Words)
  BY <1>3 DEF Due
<1>5. Coming \in Seq(Words)
  BY <1>1, <1>4, Joined DEF Coming
<1> QED
  BY <1>1, <1>4, <1>5, Joined DEF Stream

LEMMA BootTypes ==
  ASSUME Common
  PROVE  /\ 0 \in Cores /\ 1 \in Cores /\ Other(0) = 1 /\ Other(1) = 0 /\ MulticoreTypeOK
         /\ ThreadOf(0) /\ ThreadOf(1) /\ at \in [Cores -> Stages] /\ call \in [Cores -> Calls]
         /\ fifo \in [Cores -> Seq(Words)] /\ event \in [Cores -> BOOLEAN]
         /\ (\A c \in Cores : Len(fifo[c]) <= Depth) /\ seq \in 1..6
         /\ got \in Seq(BootWords) /\ answer \in BootWords
         /\ cmd_sequence[seq] \in BootWords /\ cmd_sequence[seq] \in Words
  BY CoreFacts, TypeFacts, CommandWords, MagicWords DEF Common

LEMMA LaunchKeeps ==
  ASSUME BootInv, Launching, UNCHANGED <<call, core1, got, lockoutVars>>, NoStart', DialogueInv'
  PROVE  BootInv'
<1>1. UNCHANGED <<isr, victims, timed, phase, lockout_in_progress>>
  BY DEF lockoutVars, threadVars
<1>2. Launching' /\ QuietInv'
  BY <1>1 DEF BootInv, QuietInv, Launching, Locking
<1> QED
  BY <1>2 DEF BootInv

LEMMA SendBoot ==
  ASSUME Common, BootInv, Launching, Send, UNCHANGED <<lockoutVars, resets>>
  PROVE  Common' /\ BootInv'
<1>1. /\ 0 \in Cores /\ 1 \in Cores /\ at \in [Cores -> Stages] /\ seq \in 1..6
      /\ fifo \in [Cores -> Seq(Words)] /\ event \in [Cores -> BOOLEAN]
      /\ (\A c \in Cores : Len(fifo[c]) <= Depth) /\ Depth \in Nat
  BY BootTypes, FifoAssumption
<1>2. DialogueInv /\ NoStart
  BY DEF BootInv
<1>3. /\ at[0] = "send" /\ at' = [at EXCEPT ![0] = "push"]
      /\ UNCHANGED <<call, irq_enabled, saved, seq, core1, got, answer>>
  BY DEF Send, Go, launchVars
<1>4. at'[0] = "push"
  BY <1>1, <1>3
<1>5. AgreesBefore(seq, fifo[1], got)
  BY <1>2, <1>3 DEF DialogueInv
<1>6. CASE cmd_sequence[seq] = "0"
  <2>1. fifo' = [fifo EXCEPT ![0] = << >>] /\ event' = [c \in Cores |-> TRUE]
    BY <1>6 DEF Send, Sev
  <2>2. fifo'[0] = << >> /\ fifo'[1] = fifo[1]
    BY <1>1, <2>1
  <2>3. /\ fifo' \in [Cores -> Seq(Words)] /\ (\A c \in Cores : Len(fifo'[c]) <= Depth)
        /\ event' \in [Cores -> BOOLEAN]
    BY <1>1, <2>1
  <2>4. Common'
    BY <1>1, <1>3, <2>3, LaunchCommon
  <2>5. Coming' = Coming
    BY <1>3, <2>2 DEF Coming, Due
  <2>6. Stream' = Coming
    <3>1. << >> \o Coming = Coming
      BY StreamType, JoinedNone, BootTypes
    <3> QED
      BY <2>2, <2>5, <3>1 DEF Stream
  <2>7. Before(seq, Coming)
    BY <1>2, <1>3, <1>6 DEF DialogueInv
  <2>8. DialogueInv'
    BY <1>2, <1>3, <1>4, <1>5, <2>2, <2>6, <2>7 DEF DialogueInv
  <2>9. NoStart'
    BY <2>2 DEF NoStart
  <2> QED
    BY <1>3, <2>4, <2>8, <2>9, LaunchKeeps
<1>7. CASE cmd_sequence[seq] # "0"
  <2>1. fifo' = fifo /\ event' = event
    BY <1>7 DEF Send
  <2>2. Common'
    BY <1>1, <1>3, <2>1, LaunchCommon
  <2>3. Stream' = Stream
    BY <1>3, <2>1 DEF Stream, Coming, Due
  <2>4. Before(seq, Stream)
    BY <1>2, <1>3, <1>7 DEF DialogueInv
  <2>5. core1 # "drain"
    BY <1>2, <1>7, CommandFacts DEF DialogueInv
  <2>6. DialogueInv'
    BY <1>3, <1>4, <1>5, <2>1, <2>3, <2>4, <2>5 DEF DialogueInv
  <2>7. NoStart'
    BY <1>2, <2>1 DEF NoStart
  <2> QED
    BY <1>3, <2>2, <2>6, <2>7, LaunchKeeps
<1> QED
  BY <1>6, <1>7

LEMMA PushBoot ==
  ASSUME Common, BootInv, Launching, LaunchPush, UNCHANGED <<lockoutVars, resets>>
  PROVE  Common' /\ BootInv'
<1> DEFINE w == cmd_sequence[seq]
<1>1. /\ 0 \in Cores /\ 1 \in Cores /\ Other(0) = 1 /\ at \in [Cores -> Stages] /\ seq \in 1..6
      /\ MulticoreTypeOK /\ w \in Words
  BY BootTypes
<1>2. DialogueInv /\ NoStart
  BY DEF BootInv
<1>3. /\ at[0] = "push" /\ at' = [at EXCEPT ![0] = "pop"] /\ Push(0, w)
      /\ UNCHANGED <<call, irq_enabled, saved, seq, core1, got, answer>>
  BY DEF LaunchPush, Go, launchVars
<1>4. /\ fifo' \in [Cores -> Seq(Words)] /\ (\A c \in Cores : Len(fifo'[c]) <= Depth)
      /\ event' \in [Cores -> BOOLEAN] /\ fifo'[1] = Append(fifo[1], w) /\ fifo'[0] = fifo[0]
  BY <1>1, <1>3, PushFacts
<1>5. at'[0] = "pop"
  BY <1>1, <1>3
<1>6. Common'
  BY <1>1, <1>3, <1>4, LaunchCommon
<1>7. /\ fifo[0] \in Seq(Words) /\ fifo[1] \in Seq(Words)
      /\ Due \in Seq(Words) /\ Coming \in Seq(Words) /\ Stream \in Seq(Words)
  BY <1>1, StreamType
<1>8. Before(seq, Stream) /\ AgreesBefore(seq, fifo[1], got)
  BY <1>2, <1>3 DEF DialogueInv
<1>9. AgreesAfter(seq, fifo'[1], got)
  BY <1>1, <1>4, <1>7, <1>8, AgreesSend
<1>10. Due' = Due
  BY <1>3 DEF Due
<1>11. After(seq, Stream')
  <2>1. CASE core1 = "drain"
    <3>1. seq = 1 /\ fifo[0] = << >>
      BY <1>2, <1>3, <2>1 DEF DialogueInv
    <3>2. Coming' = << "0" >>
      BY <1>3, <2>1 DEF Coming, Due
    <3>3. << >> \o << "0" >> = << "0" >>
      BY ZeroOne, MagicWords, JoinedNone
    <3>4. Stream' = << "0" >>
      BY <1>4, <3>1, <3>2, <3>3 DEF Stream
    <3> QED
      BY <3>1, <3>4, BeforeZero
  <2>2. CASE core1 # "drain"
    <3>1. Coming = Due \o fifo[1] /\ Coming' = Due \o Append(fifo[1], w)
      BY <1>3, <1>4, <1>10, <2>2 DEF Coming
    <3>2. Coming' = Append(Coming, w)
      BY <1>1, <1>7, <3>1, JoinedAppend
    <3>3. Stream' = Append(Stream, w)
      <4>1. Stream' = fifo[0] \o Append(Coming, w)
        BY <1>4, <3>2 DEF Stream
      <4>2. fifo[0] \o Append(Coming, w) = Append(fifo[0] \o Coming, w)
        BY <1>1, <1>7, JoinedAppend
      <4> QED
        BY <4>1, <4>2 DEF Stream
    <3> QED
      BY <1>1, <1>7, <1>8, <3>3, DialogueSend
  <2> QED
    BY <2>1, <2>2
<1>12. DialogueInv'
  BY <1>2, <1>3, <1>4, <1>5, <1>9, <1>11 DEF DialogueInv
<1>13. NoStart'
  BY <1>2, <1>4 DEF NoStart
<1> QED
  BY <1>3, <1>6, <1>12, <1>13, LaunchKeeps

\* The echo of "entry" comes after core 1 has left the bootrom.
LEMMA LastEchoLate ==
  ASSUME Common, BootInv, AgreesAfter(6, fifo[1], got), Stream # << >>, Tail(Stream) = << >>,
         fifo[0] # << >>, core1 # "drain"
  PROVE  FALSE
<1>1. /\ fifo[0] \in Seq(Words) /\ fifo[1] \in Seq(Words)
      /\ Due \in Seq(Words) /\ Coming \in Seq(Words) /\ Stream \in Seq(Words)
      /\ got \in Seq(BootWords)
  BY BootTypes, StreamType
<1>2. Tail(fifo[0]) \o Coming = << >> /\ Tail(fifo[0]) \in Seq(Words)
  BY <1>1, JoinedTail DEF Stream
<1>3. Coming = << >>
  BY <1>1, <1>2, JoinedEmpty
<1>4. Coming = Due \o fifo[1]
  BY DEF Coming
<1>5. Due = << >> /\ fifo[1] = << >>
  BY <1>1, <1>3, <1>4, JoinedEmpty
<1>6. Accepts(got, 4)
  BY <1>5 DEF AgreesAfter
<1>7. got = Program
  BY <1>1, <1>6, AcceptsAll
<1>8. core1 = "echo"
  BY <1>7 DEF BootInv
<1>9. Due = << answer >>
  BY <1>8 DEF Due
<1> QED
  BY <1>5, <1>9

LEMMA PopBoot ==
  ASSUME Common, BootInv, Launching, LaunchPop, UNCHANGED <<lockoutVars, resets>>
  PROVE  Common' /\ BootInv'
<1> DEFINE word == Head(fifo[0])
<1>1. /\ 0 \in Cores /\ 1 \in Cores /\ Other(0) = 1 /\ at \in [Cores -> Stages] /\ seq \in 1..6
      /\ MulticoreTypeOK /\ event \in [Cores -> BOOLEAN]
  BY BootTypes
<1>2. DialogueInv /\ NoStart
  BY DEF BootInv
<1>3. /\ at[0] = "pop" /\ Pop(0)
      /\ UNCHANGED <<call, irq_enabled, saved, core1, got, answer>>
  BY DEF LaunchPop
<1>4. /\ fifo' \in [Cores -> Seq(Words)] /\ (\A c \in Cores : Len(fifo'[c]) <= Depth)
      /\ event' = event /\ fifo[0] # << >> /\ fifo'[0] = Tail(fifo[0]) /\ fifo'[1] = fifo[1]
  BY <1>1, <1>3, PopFacts
<1>5. core1 # "drain"
  BY <1>2, <1>3, <1>4 DEF DialogueInv
<1>6. After(seq, Stream) /\ AgreesAfter(seq, fifo[1], got)
  BY <1>2, <1>3 DEF DialogueInv
<1>7. /\ fifo[0] \in Seq(Words) /\ fifo[1] \in Seq(Words) /\ Tail(fifo[0]) \in Seq(Words)
      /\ Due \in Seq(Words) /\ Coming \in Seq(Words) /\ Stream \in Seq(Words)
  BY <1>1, <1>4, StreamType
<1>8. Coming' = Coming /\ Due' = Due
  BY <1>3, <1>4 DEF Coming, Due
<1>9. Stream' = Tail(Stream) /\ Head(Stream) = word /\ Stream # << >>
      /\ Stream' = Tail(fifo[0]) \o Coming
  <2>1. Stream' = Tail(fifo[0]) \o Coming
    BY <1>4, <1>8 DEF Stream
  <2>2. /\ Tail(fifo[0]) \o Coming = Tail(fifo[0] \o Coming)
        /\ Head(fifo[0] \o Coming) = Head(fifo[0]) /\ fifo[0] \o Coming # << >>
    BY <1>4, <1>7, JoinedTail
  <2> QED
    BY <2>1, <2>2 DEF Stream
<1>10. NoStart'
  BY <1>2, <1>4, <1>7 DEF NoStart
<1>11. SUFFICES ASSUME NEW n \in 1..6, at' = [at EXCEPT ![0] = "send"], seq' = n,
                       Before(n, Stream'), AgreesBefore(n, fifo[1], got)
                PROVE  Common' /\ BootInv'
  <2>1. ASSUME NEW n \in 1..6, NextSeq(word) = n,
               Before(n, Stream'), AgreesBefore(n, fifo[1], got)
        PROVE  Common' /\ BootInv'
    <3>1. ~(n > Len(cmd_sequence))
      BY CommandFacts
    <3>2. at' = [at EXCEPT ![0] = "send"] /\ seq' = n
      BY <2>1, <3>1 DEF LaunchPop, Go
    <3> QED
      BY <1>11, <2>1, <3>2
  <2>2. CASE word = cmd_sequence[seq] /\ Tail(Stream) = << >>
    <3>1. seq # 6
      BY <1>4, <1>5, <1>6, <1>9, <2>2, LastEchoLate
    <3>2. seq \in 1..5 /\ seq + 1 \in 1..6
      BY <1>1, <3>1
    <3>3. fifo[1] = << >>
      <4>1. Coming = << >>
        BY <1>7, <1>9, <2>2, JoinedEmpty
      <4> QED
        BY <1>5, <1>7, <4>1, JoinedEmpty DEF Coming
    <3>4. AgreesBefore(seq + 1, fifo[1], got)
      BY <1>6, <3>2, <3>3, AgreesOn
    <3>5. Before(seq + 1, Stream')
      BY <1>9, <2>2, BeforeNone
    <3> QED
      BY <2>1, <2>2, <3>2, <3>4, <3>5 DEF NextSeq
  <2>3. CASE word = cmd_sequence[seq] /\ seq < 3 /\ Before(seq + 1, Tail(Stream))
    <3>1. seq \in 1..5 /\ seq + 1 \in 1..6
      BY <1>1, <2>3
    <3>2. AgreesBefore(seq + 1, fifo[1], got)
      BY <1>6, <2>3, <3>1, AgreesOn
    <3> QED
      BY <1>9, <2>1, <2>3, <3>1, <3>2 DEF NextSeq
  <2>4. CASE word # cmd_sequence[seq] /\ seq <= 3 /\ Before(1, Tail(Stream))
    <3>1. seq \in 1..3
      BY <1>1, <2>4
    <3>2. AgreesBefore(1, fifo[1], got)
      BY <1>6, <3>1, AgreesAgain
    <3> QED
      BY <1>9, <2>1, <2>4, <3>2 DEF NextSeq
  <2> QED
    BY <1>1, <1>6, <1>7, <1>9, <2>2, <2>3, <2>4, DialogueHear
<1>12. at'[0] = "send"
  BY <1>1, <1>11
<1>13. Common'
  BY <1>1, <1>3, <1>4, <1>11, LaunchCommon
<1>14. Before(n, Coming')
  BY <1>7, <1>8, <1>9, <1>11, BeforeSuffix
<1>15. DialogueInv'
  BY <1>3, <1>4, <1>5, <1>11, <1>12, <1>14 DEF DialogueInv
<1> QED
  BY <1>3, <1>10, <1>13, <1>15, LaunchKeeps

LEMMA PopWaitBoot ==
  ASSUME Common, BootInv, Launching, PopWait(0), UNCHANGED <<launchVars, lockoutVars, resets>>
  PROVE  Common' /\ BootInv'
<1>1. /\ 0 \in Cores /\ at \in [Cores -> Stages] /\ seq \in 1..6
      /\ fifo \in [Cores -> Seq(Words)] /\ event \in [Cores -> BOOLEAN]
      /\ (\A c \in Cores : Len(fifo[c]) <= Depth) /\ ThreadOf(0)
  BY BootTypes
<1>2. call[0].time = Never
  BY <1>1 DEF ThreadOf, StageOf, Launching
<1>3. ~TimeReached(0)
  BY <1>2 DEF TimeReached, Never
<1>4. /\ at[0] \in {"pop", "wfe"} /\ fifo' = fifo
      /\ UNCHANGED <<call, irq_enabled, saved, seq, core1, got, answer>>
      /\ event' = event \/ event' = [event EXCEPT ![0] = FALSE]
      /\ \E s \in {"wfe", "pop"} : at' = [at EXCEPT ![0] = s]
  BY <1>3 DEF PopWait, Wfe, Go, launchVars
<1>5. PICK s \in {"wfe", "pop"} : at' = [at EXCEPT ![0] = s]
  BY <1>4
<1>6. event' \in [Cores -> BOOLEAN]
  BY <1>1, <1>4
<1>7. Common'
  BY <1>1, <1>4, <1>5, <1>6, LaunchCommon
<1>8. at'[0] \in {"wfe", "pop"}
  BY <1>1, <1>5
<1>9. Stream' = Stream
  BY <1>4 DEF Stream, Coming, Due
<1>10. DialogueInv' /\ NoStart'
  BY <1>4, <1>8, <1>9 DEF BootInv, DialogueInv, NoStart
<1> QED
  BY <1>4, <1>7, <1>10, LaunchKeeps

LEMMA LaunchStepBoot ==
  ASSUME Common, BootInv, LaunchStep, UNCHANGED <<lockoutVars, resets>>
  PROVE  Common' /\ BootInv'
<1>1. Launching
  BY BootTypes DEF LaunchStep, Send, LaunchPush, LaunchPop, LaunchReturn, Launching, ThreadOf, StageOf
<1>2. ~LaunchReturn
  BY <1>1 DEF LaunchReturn, BootInv, DialogueInv
<1> QED
  BY <1>1, <1>2, SendBoot, PushBoot, PopBoot, PopWaitBoot DEF LaunchStep

(* The steps of core 1 in the bootrom *)

LEMMA BootCommon ==
  ASSUME Common, UNCHANGED <<at, call, irq_enabled, saved, lockoutVars, resets, seq>>,
         fifo' \in [Cores -> Seq(Words)], \A c \in Cores : Len(fifo'[c]) <= Depth,
         event' \in [Cores -> BOOLEAN], core1' \in {"drain", "hello", "wait", "echo", "app"},
         got' \in Seq(BootWords), Len(got') <= 4, answer' \in BootWords
  PROVE  Common'
<1>1. 0 \in Cores /\ Other(0) = 1 /\ 1 \in Cores /\ MulticoreTypeOK /\ ThreadOf(0) /\ ThreadOf(1)
  BY BootTypes
<1>2. UNCHANGED <<isr, victims, lockout_mutex, lockout_in_progress, phase, timed, left>>
  BY DEF lockoutVars, threadVars
<1>3. MulticoreTypeOK'
  BY <1>1, <1>2, TypeFacts, TypeNext
<1>4. ThreadOf(0)' /\ ThreadOf(1)'
  BY <1>1, <1>2, ThreadKept
<1> QED
  BY <1>1, <1>3, <1>4, CommonSplit

\* Core 1 stays in the bootrom.
LEMMA BootKeeps ==
  ASSUME BootInv, UNCHANGED <<at, call, irq_enabled, saved, lockoutVars, resets, seq>>,
         core1' \in {"hello", "wait", "echo"}, got' = Program => core1' = "echo", NoStart',
         Launching => DialogueInv',
         ~Launching => got' = << >> /\ core1' # "echo" /\ fifo'[1] = << >>
  PROVE  BootInv'
<1>1. UNCHANGED <<isr, victims, timed, phase, lockout_in_progress>>
  BY DEF lockoutVars, threadVars
<1>2. Launching' = Launching /\ QuietInv'
  BY <1>1 DEF BootInv, QuietInv, Launching, Locking
<1> QED
  BY <1>2 DEF BootInv

LEMMA DialogueKeeps ==
  ASSUME DialogueInv, UNCHANGED <<at, seq>>, core1' # "drain", Stream' = Stream,
         Before(seq, Coming) => Before(seq, Coming'),
         at[0] \in {"send", "push"} => AgreesBefore(seq, fifo'[1], got'),
         at[0] \in {"pop", "wfe"} => AgreesAfter(seq, fifo'[1], got')
  PROVE  DialogueInv'
  BY DEF DialogueInv

LEMMA DrainBoot ==
  ASSUME Common, BootInv, core1 = "drain", core1' = "hello",
         fifo' = [fifo EXCEPT ![1] = << >>], UNCHANGED <<event, seq, got, answer>>,
         UNCHANGED <<at, call, irq_enabled, saved, lockoutVars, resets>>
  PROVE  Common' /\ BootInv'
<1>1. /\ 0 \in Cores /\ 1 \in Cores /\ fifo \in [Cores -> Seq(Words)] /\ MulticoreTypeOK
      /\ (\A c \in Cores : Len(fifo[c]) <= Depth) /\ Depth \in Nat /\ seq \in 1..6
      /\ event \in [Cores -> BOOLEAN] /\ got \in Seq(BootWords) /\ answer \in BootWords
      /\ Len(got) <= 4
  BY BootTypes, TypeFacts, FifoAssumption
<1>2. /\ fifo'[1] = << >> /\ fifo'[0] = fifo[0] /\ fifo' \in [Cores -> Seq(Words)]
      /\ \A c \in Cores : Len(fifo'[c]) <= Depth
  BY <1>1
<1>3. Common'
  BY <1>1, <1>2, BootCommon
<1>4. got = << >> /\ got # Program
  BY DEF BootInv
<1>5. NoStart'
  BY <1>2 DEF BootInv, NoStart
<1>6. ASSUME Launching PROVE DialogueInv'
  <2>1. DialogueInv /\ seq = 1
    BY <1>6 DEF BootInv, DialogueInv
  <2>2. Coming = << "0" >> /\ Coming' = << "0" >> \o << >>
    BY <1>2 DEF Coming, Due
  <2>3. << "0" >> \o << >> = << "0" >>
    BY ZeroOne, MagicWords, JoinedNone
  <2>4. Coming' = Coming /\ Stream' = Stream
    BY <1>2, <2>2, <2>3 DEF Stream
  <2>5. Accepts(got, 0)
    BY <1>4, AcceptsZero
  <2>6. AgreesBefore(seq, fifo'[1], got') /\ AgreesAfter(seq, fifo'[1], got')
    BY <1>2, <2>1, <2>5 DEF AgreesBefore, AgreesAfter
  <2> QED
    BY <2>1, <2>4, <2>6, DialogueKeeps
<1> QED
  BY <1>2, <1>3, <1>4, <1>5, <1>6, BootKeeps

\* Core 1 sends the word that is due.
LEMMA SayBoot ==
  ASSUME Common, BootInv, NEW word \in BootWords, Push(1, word), Due = << word >>,
         core1 # "drain", core1' = "wait", got # Program, UNCHANGED <<seq, got, answer>>,
         UNCHANGED <<at, call, irq_enabled, saved, lockoutVars, resets>>
  PROVE  Common' /\ BootInv'
<1>1. /\ 0 \in Cores /\ 1 \in Cores /\ Other(1) = 0 /\ MulticoreTypeOK /\ seq \in 1..6
      /\ got \in Seq(BootWords) /\ answer \in BootWords /\ Len(got) <= 4 /\ word \in Words
  BY BootTypes, TypeFacts, MagicWords
<1>2. /\ fifo' \in [Cores -> Seq(Words)] /\ (\A c \in Cores : Len(fifo'[c]) <= Depth)
      /\ event' \in [Cores -> BOOLEAN] /\ fifo'[0] = Append(fifo[0], word) /\ fifo'[1] = fifo[1]
  BY <1>1, PushFacts
<1>3. Common'
  BY <1>1, <1>2, BootCommon
<1>4. fifo[0] \in Seq(Words) /\ fifo[1] \in Seq(Words) /\ Coming \in Seq(Words)
  BY <1>1, StreamType
<1>5. NoStart'
  <2>1. word # "START"
    BY CommandFacts, StageFacts DEF BootWords
  <2>2. NoStart
    BY DEF BootInv
  <2> DEFINE t == Append(fifo[0], word)
  <2>3. Len(t) = Len(fifo[0]) + 1 /\ \A k \in 1..Len(t) : t[k] = IF k = Len(fifo[0]) + 1 THEN word ELSE fifo[0][k]
    BY <1>1, <1>4
  <2>4. Len(fifo[0]) \in Nat
    BY <1>4
  <2> HIDE DEF t
  <2>5. \A k \in 1..Len(t) : t[k] # "START"
    BY <2>1, <2>2, <2>3, <2>4 DEF NoStart
  <2> QED
    BY <1>2, <2>5 DEF NoStart, t
<1>6. /\ Coming = << word >> \o fifo[1] /\ Coming' = fifo[1]
  <2>1. Coming' = << >> \o fifo[1]
    BY <1>2 DEF Coming, Due
  <2> QED
    BY <1>4, <2>1, JoinedNone DEF Coming
<1>7. Stream' = Stream
  <2>1. Stream' = Append(fifo[0], word) \o fifo[1]
    BY <1>2, <1>6 DEF Stream
  <2>2. Append(fifo[0], word) \o fifo[1] = fifo[0] \o (<< word >> \o fifo[1])
    BY <1>1, <1>4, JoinedMoved
  <2> QED
    BY <1>6, <2>1, <2>2 DEF Stream
<1>8. Before(seq, Coming) => Before(seq, Coming')
  <2>1. << word >> \in Seq(Words)
    BY <1>1
  <2> QED
    BY <1>1, <1>4, <1>6, <2>1, BeforeSuffix
<1>9. Launching => DialogueInv'
  BY <1>2, <1>7, <1>8, DialogueKeeps DEF BootInv, DialogueInv
<1>10. ~Launching => got' = << >> /\ fifo'[1] = << >>
  BY <1>2 DEF BootInv
<1> QED
  BY <1>3, <1>5, <1>9, <1>10, BootKeeps

LEMMA HearBoot ==
  ASSUME Common, BootInv, BootPop, UNCHANGED <<at, call, irq_enabled, saved, lockoutVars, resets>>
  PROVE  Common' /\ BootInv'
<1> DEFINE word == Head(fifo[1])
           then == AcceptedThen(got, word)
<1>1. /\ 0 \in Cores /\ 1 \in Cores /\ Other(1) = 0 /\ MulticoreTypeOK /\ seq \in 1..6
      /\ got \in Seq(BootWords) /\ event \in [Cores -> BOOLEAN]
  BY BootTypes
<1>2. core1 = "wait" /\ Pop(1) /\ core1' = "echo" /\ seq' = seq
  BY DEF BootPop
<1>3. /\ fifo' \in [Cores -> Seq(Words)] /\ (\A c \in Cores : Len(fifo'[c]) <= Depth)
      /\ event' = event /\ fifo[1] # << >> /\ fifo'[1] = Tail(fifo[1]) /\ fifo'[0] = fifo[0]
  BY <1>1, <1>2, PopFacts
<1>4. Launching /\ DialogueInv
  BY <1>2, <1>3 DEF BootInv
<1>5. fifo[0] \in Seq(Words) /\ fifo[1] \in Seq(Words) /\ << >> \in Seq(Words)
  BY <1>1, StreamType
<1>6. Coming = fifo[1] /\ Stream = fifo[0] \o fifo[1]
  BY <1>2, <1>5, JoinedNone DEF Coming, Due, Stream
<1>7. /\ at[0] \in {"send", "push"} => AgreesBefore(seq, fifo[1], got)
      /\ at[0] \in {"pop", "wfe"} => AgreesAfter(seq, fifo[1], got)
      /\ at[0] \in {"send", "push", "pop", "wfe"}
  BY <1>4 DEF DialogueInv
<1>8. /\ Accepted(got, word) /\ word \in BootWords /\ then \in Seq(BootWords) /\ Len(then) <= 4
      /\ at[0] \in {"send", "push"} => AgreesBefore(seq, Tail(fifo[1]), then)
      /\ at[0] \in {"pop", "wfe"} => AgreesAfter(seq, Tail(fifo[1]), then)
  <2>1. CASE at[0] \in {"send", "push"}
    <3>1. \E s \in Seq(Words) : Before(seq, s \o fifo[1])
      <4>1. CASE Before(seq, Stream)
        BY <1>5, <1>6, <4>1
      <4>2. CASE Before(seq, Coming)
        BY <1>5, <1>6, <4>2, JoinedNone
      <4> QED
        BY <1>4, <2>1, <4>1, <4>2 DEF DialogueInv
    <3> QED
      BY <1>1, <1>3, <1>5, <1>7, <2>1, <3>1, AcceptBefore
  <2>2. CASE at[0] \in {"pop", "wfe"}
    <3>1. After(seq, fifo[0] \o fifo[1])
      BY <1>4, <1>6, <2>2 DEF DialogueInv
    <3> QED
      BY <1>1, <1>3, <1>5, <1>7, <2>2, <3>1, AcceptAfter
  <2> QED
    BY <1>7, <2>1, <2>2
<1>9. got' = then /\ answer' = word
  BY <1>8 DEF BootPop, Accepted, AcceptedThen
<1>10. Common'
  BY <1>1, <1>2, <1>3, <1>8, <1>9, BootCommon
<1>11. NoStart'
  BY <1>3 DEF BootInv, NoStart
<1>12. Coming' = Coming /\ Stream' = Stream
  <2>1. Coming' = << word >> \o Tail(fifo[1])
    BY <1>2, <1>3, <1>9 DEF Coming, Due
  <2>2. Coming' = fifo[1]
    BY <1>3, <1>5, <2>1, JoinedHead
  <2> QED
    BY <1>3, <1>6, <2>2 DEF Stream
<1>13. DialogueInv'
  BY <1>2, <1>3, <1>4, <1>8, <1>9, <1>12, DialogueKeeps
<1> QED
  BY <1>2, <1>4, <1>10, <1>11, <1>13, BootKeeps

\* Core 1 has all words of the program and leaves the bootrom.
LEMMA WholeProgram ==
  ASSUME Common, BootInv, Launching, core1 = "echo", Len(got) = 4
  PROVE  /\ seq = 6 /\ at[0] \in {"pop", "wfe"} /\ got = Program
         /\ fifo[0] = << >> /\ fifo[1] = << >> /\ answer = "entry"
<1>1. /\ fifo[0] \in Seq(Words) /\ fifo[1] \in Seq(Words) /\ seq \in 1..6
      /\ got \in Seq(BootWords) /\ answer \in BootWords
  BY BootTypes, StreamType
<1>2. DialogueInv
  BY DEF BootInv
<1>3. ~AgreesBefore(seq, fifo[1], got)
  <2>1. seq > 3 => ~Accepts(got, seq - 3)
    BY <1>1 DEF Accepts
  <2>2. ~Accepts(got, 0) /\ ~Accepts(got, 1)
    BY DEF Accepts
  <2>3. seq > 3 \/ seq <= 3
    BY <1>1
  <2> QED
    BY <2>1, <2>2, <2>3 DEF AgreesBefore
<1>4. at[0] \in {"pop", "wfe"} /\ After(seq, Stream) /\ AgreesAfter(seq, fifo[1], got)
  BY <1>2, <1>3 DEF DialogueInv
<1>5. seq = 6 /\ fifo[1] = << >>
  <2>1. ~Accepts(got, 0) /\ ~Accepts(got, 1)
    BY DEF Accepts
  <2>2. seq > 3
    BY <1>1, <1>4, <2>1 DEF AgreesAfter
  <2>3. ~Accepts(got, seq - 3)
    BY <1>1 DEF Accepts
  <2>4. fifo[1] = << >> /\ Accepts(got, seq - 2)
    BY <1>4, <2>2, <2>3 DEF AgreesAfter
  <2>5. seq - 2 = 4
    BY <2>4 DEF Accepts
  <2> QED
    BY <1>1, <2>4, <2>5
<1>6. got = Program
  <2>1. Accepts(got, 4)
    <3>1. 6 > 3 /\ 6 - 2 = 4
      OBVIOUS
    <3> QED
      BY <1>4, <1>5, <3>1 DEF AgreesAfter
  <2> QED
    BY <1>1, <2>1, AcceptsAll
<1>7. fifo[0] = << >> /\ answer = "entry"
  <2>1. answer \in Words /\ << answer >> \in Seq(Words)
    BY <1>1, MagicWords
  <2>2. Stream = fifo[0] \o << answer >>
    <3>1. << answer >> \o << >> = << answer >>
      BY <2>1, JoinedNone
    <3> QED
      BY <1>5, <3>1 DEF Stream, Coming, Due
  <2> DEFINE h == fifo[0] \o << answer >>
             k == Len(fifo[0])
  <2>3. /\ Len(h) > 0 /\ Len(h) <= 2 /\ h[Len(h)] = "entry" /\ Len(h) # 2
    BY <1>4, <1>5, <2>2, CommandFacts, StrayFacts DEF After
  <2>4. Len(h) = k + 1 /\ k \in Nat /\ h[k + 1] = answer
    BY <1>1, <2>1
  <2>5. k = 0 => fifo[0] = << >>
    BY <1>1
  <2> HIDE DEF h, k
  <2>6. k = 0 /\ answer = "entry"
    BY <2>3, <2>4
  <2> QED
    BY <2>5, <2>6
<1> QED
  BY <1>4, <1>5, <1>6, <1>7

LEMMA EnterApp ==
  ASSUME Common, BootInv, core1 = "echo", Push(1, answer), Len(got) = 4, core1' = "app",
         UNCHANGED <<seq, got, answer>>,
         UNCHANGED <<at, call, irq_enabled, saved, lockoutVars, resets>>
  PROVE  Common' /\ AppInv'
<1>1. /\ 0 \in Cores /\ 1 \in Cores /\ Other(0) = 1 /\ Other(1) = 0 /\ MulticoreTypeOK
      /\ got \in Seq(BootWords) /\ answer \in BootWords /\ Len(got) <= 4 /\ answer \in Words
      /\ ThreadOf(0) /\ ThreadOf(1) /\ isr \in [Cores -> HandlerStages]
  BY BootTypes, TypeFacts, MagicWords
<1>2. /\ fifo' \in [Cores -> Seq(Words)] /\ (\A c \in Cores : Len(fifo'[c]) <= Depth)
      /\ event' \in [Cores -> BOOLEAN] /\ fifo'[0] = Append(fifo[0], answer) /\ fifo'[1] = fifo[1]
  BY <1>1, PushFacts
<1>3. Common'
  BY <1>1, <1>2, BootCommon
<1>4. Launching /\ QuietInv
  BY DEF BootInv
<1>5. /\ seq = 6 /\ at[0] \in {"pop", "wfe"} /\ got = Program
      /\ fifo[0] = << >> /\ fifo[1] = << >> /\ answer = "entry"
  BY <1>4, WholeProgram
<1>6. fifo'[0] = << "entry" >> /\ fifo'[1] = << >>
  BY <1>2, <1>5
<1>7. Head(<< "entry" >>) = "entry" /\ Tail(<< "entry" >>) = << >>
  OBVIOUS
<1>8. Entering' /\ Launching' /\ EntryInv'
  BY <1>4, <1>5, <1>6, <1>7 DEF Entering, Launching, EntryInv
<1>9. \A c \in Cores : Inbox(c)' = << >>
  BY <1>6, <1>7, <1>8, CoreFacts DEF Inbox
<1>10. \A c \in Cores : Drains(isr[c]) /\ isr[c] \notin {"ack", "leave"}
  BY <1>1, <1>4, CoreFacts DEF QuietInv, Drains, ThreadOf, IrqOf
<1>11. UNCHANGED <<isr, victims, timed, phase, lockout_in_progress, at, call>>
  BY DEF lockoutVars, threadVars
<1>12. PICK c \in Cores : timed \subseteq {c}
  BY <1>4 DEF QuietInv
<1>13. Asks(c)'
  <2>1. Other(c) \in Cores /\ Other(Other(c)) = c
    BY OtherFacts
  <2>2. Waits(Other(c))'
    BY <1>4, <1>11, <2>1 DEF QuietInv, Waits, InHandshake, Locking
  <2>3. Progress(c)' = "none"
    BY <1>4, <1>11 DEF QuietInv, Progress
  <2>4. Conversation("none", isr[Other(c)], << >>, << >>)
    BY <1>10, <2>1, AllOfEmpty DEF Conversation
  <2>5. Count(isr[Other(c)], << >>, << >>) = 0
    BY <1>10, <2>1 DEF Count
  <2>6. Count(isr'[Other(c)], Inbox(Other(c))', Inbox(c)') <= IF Awaits(c)' THEN 1 ELSE 0
    BY <1>9, <1>11, <2>1, <2>5
  <2>7. lockout_in_progress' <=> phase'[c] \in {"held", "ending"}
    BY <1>4, <1>11 DEF QuietInv
  <2>8. Conversation(Progress(c)', isr'[Other(c)], Inbox(Other(c))', Inbox(c)')
    BY <1>9, <1>11, <2>1, <2>3, <2>4
  <2> QED
    BY <1>10, <1>11, <1>12, <2>2, <2>6, <2>7, <2>8 DEF Asks
<1> QED
  BY <1>3, <1>5, <1>8, <1>13 DEF AppInv

LEMMA BootStepBoot ==
  ASSUME Common, BootInv, BootStep, UNCHANGED <<lockoutVars, resets>>
  PROVE  Common' /\ (AppInv' \/ BootInv')
<1>1. UNCHANGED <<at, call, irq_enabled, saved, lockoutVars, resets>>
  BY DEF BootStep
<1>2. CASE BootPop
  BY <1>1, <1>2, HearBoot
<1>3. CASE /\ core1 = "drain" /\ core1' = "hello"
           /\ fifo' = [fifo EXCEPT ![1] = << >>]
           /\ UNCHANGED <<event, seq, got, answer>>
  BY <1>1, <1>3, DrainBoot
<1>4. CASE core1 = "hello" /\ Push(1, "0") /\ core1' = "wait" /\ UNCHANGED <<seq, got, answer>>
  <2>1. Due = << "0" >> /\ "0" \in BootWords
    BY <1>4, ZeroOne DEF Due
  <2>2. got # Program
    BY <1>4 DEF BootInv
  <2> QED
    BY <1>1, <1>4, <2>1, <2>2, SayBoot
<1>5. CASE /\ core1 = "echo" /\ Push(1, answer)
           /\ core1' = IF Len(got) = Len(Program) THEN "app" ELSE "wait"
           /\ UNCHANGED <<seq, got, answer>>
  <2>1. Due = << answer >> /\ answer \in BootWords /\ Len(Program) = 4
    BY <1>5, BootTypes, ProgramFacts DEF Due
  <2>2. CASE Len(got) = 4
    BY <1>1, <1>5, <2>1, <2>2, EnterApp
  <2>3. CASE Len(got) # 4
    <3>1. got # Program /\ core1' = "wait"
      BY <1>5, <2>1, <2>3
    <3> QED
      BY <1>1, <1>5, <2>1, <3>1, SayBoot
  <2> QED
    BY <2>2, <2>3
<1> QED
  BY <1>2, <1>3, <1>4, <1>5 DEF BootStep

(* The other steps while core 1 is in the bootrom *)

LEMMA CallLaunchBoot ==
  ASSUME Common, BootInv, ThreadRuns(0), CallLaunch, UNCHANGED <<lockoutVars, resets>>
  PROVE  Common' /\ BootInv'
<1>1. /\ 0 \in Cores /\ 1 \in Cores /\ Other(0) = 1 /\ MulticoreTypeOK
      /\ ThreadOf(0) /\ ThreadOf(1) /\ at \in [Cores -> Stages] /\ call \in [Cores -> Calls]
      /\ irq_enabled \in [Cores -> BOOLEAN] /\ saved \in [Cores -> BOOLEAN]
  BY BootTypes, ActorFacts
<1>2. /\ UNCHANGED <<isr, victims, lockout_mutex,
                     lockout_in_progress, phase, timed, left>>
      /\ UNCHANGED <<fifo, event, core1, got, answer, resets>>
      /\ at[0] = "idle" /\ at' = [at EXCEPT ![0] = "send"] /\ seq' = 1 /\ isr[0] = "off"
      /\ saved' = [saved EXCEPT ![0] = irq_enabled[0]]
      /\ irq_enabled' = [irq_enabled EXCEPT ![0] = FALSE]
  BY DEF CallLaunch, Go, lockoutVars, threadVars, ThreadRuns
<1>3. call' = [call EXCEPT ![0] = [call[0] EXCEPT !.op = "launch"]]
  BY DEF CallLaunch
<1>4. PICK p \in Calls : p = call[0]
  BY <1>1
<1>5. /\ [p EXCEPT !.op = "launch"] \in Calls /\ [p EXCEPT !.op = "launch"].op = "launch"
      /\ [p EXCEPT !.op = "launch"].time = p.time
  BY DEF Calls
<1>6. /\ call' \in [Cores -> Calls] /\ call'[0].op = "launch" /\ call'[0].time = call[0].time
      /\ call'[1] = call[1]
  BY <1>1, <1>3, <1>4, <1>5
<1>7. "send" \in Stages
  BY DEF Stages
<1>8. MulticoreTypeOK'
  BY <1>1, <1>2, <1>6, <1>7, TypeFacts, TypeNext
<1>9. /\ at'[0] = "send" /\ at'[1] = at[1] /\ saved'[0] = irq_enabled[0] /\ saved'[1] = saved[1]
      /\ irq_enabled'[0] = FALSE /\ irq_enabled'[1] = irq_enabled[1]
  BY <1>1, <1>2
<1>10. ThreadOf(1)'
  BY <1>1, <1>2, <1>6, <1>9, ThreadKept
<1>11. call[0].op = "none" /\ call[0].time = Never
  BY <1>1, <1>2 DEF ThreadOf, StageOf
<1>12. ThreadOf(0)'
  <2>1. ~Locking(0) /\ ~Locking(0)' /\ ~InHandshake(0) /\ ~InHandshake(0)'
    BY <1>6, <1>11 DEF Locking, InHandshake
  <2>2. ~HasMutex(0) /\ ~HasMutex(0)'
    BY <1>2, <1>9, <2>1 DEF HasMutex
  <2>3. StageOf(0)'
    BY <1>1, <1>2, <1>6, <1>9, <1>11, <2>1, <2>2 DEF ThreadOf, StageOf, ThreadStages
  <2>4. PhaseOf(0)'
    BY <1>1, <1>2, <1>6, <1>9, <1>11, <2>1 DEF ThreadOf, PhaseOf
  <2>5. IrqOf(0)'
    BY <1>1, <1>2, <1>9, <2>1 DEF ThreadOf, IrqOf
  <2> QED
    BY <2>3, <2>4, <2>5 DEF ThreadOf
<1>13. Common'
  BY <1>1, <1>8, <1>10, <1>12, CommonSplit
<1>14. ~Launching /\ Launching'
  BY <1>6, <1>11 DEF Launching
<1>15. /\ got = << >> /\ core1 # "echo" /\ (core1 # "drain" => fifo[1] = << >>)
       /\ core1 # "app" /\ NoStart /\ QuietInv /\ got # Program
  BY <1>14 DEF BootInv
<1>16. QuietInv'
  <2>1. \A c \in Cores : ~Locking(c)'
    BY <1>6, <1>15, CoreFacts DEF QuietInv, Locking
  <2> QED
    BY <1>2, <1>15, <2>1 DEF QuietInv
<1>17. NoStart'
  BY <1>2, <1>15 DEF NoStart
<1>18. DialogueInv'
  <2>1. Accepts(got, 0)
    BY <1>15, AcceptsZero
  <2>2. AgreesBefore(1, fifo[1], got)
    BY <2>1 DEF AgreesBefore
  <2>3. Coming' = Coming
    BY <1>2 DEF Coming, Due
  <2>4. Before(1, Coming)
    <3>1. CASE core1 = "drain" \/ core1 = "hello"
      <4>1. << "0" >> \o << >> = << "0" >>
        BY ZeroOne, MagicWords, JoinedNone
      <4>2. Coming = << "0" >>
        BY <1>15, <3>1, <4>1 DEF Coming, Due
      <4> QED
        BY <4>2, BeforeZero
    <3>2. CASE core1 # "drain" /\ core1 # "hello"
      <4>1. << >> \o << >> = << >> /\ fifo[1] = << >>
        BY <1>15, <3>2, JoinedNone, StreamType, BootTypes
      <4>2. Coming = << >>
        BY <1>15, <3>2, <4>1 DEF Coming, Due
      <4> QED
        BY <4>2, BeforeNone
    <3> QED
      BY <3>1, <3>2
  <2> QED
    BY <1>2, <1>9, <2>2, <2>3, <2>4, CommandFacts DEF DialogueInv
<1> QED
  BY <1>2, <1>13, <1>14, <1>15, <1>16, <1>17, <1>18 DEF BootInv

LEMMA HandlerBoot ==
  ASSUME Common, BootInv, NEW x \in Cores, Up(x), HandlerStep(x), UNCHANGED <<launchVars, resets>>
  PROVE  Common' /\ BootInv'
<1>1. Common'
  BY HandlerCommon
<1>2. x = 0
  BY CoreFacts DEF Up, BootInv
<1>3. /\ 0 \in Cores /\ 1 \in Cores /\ Other(0) = 1 /\ MulticoreTypeOK /\ ThreadOf(0)
      /\ isr \in [Cores -> HandlerStages] /\ fifo[0] \in Seq(Words)
  BY BootTypes, TypeFacts, StreamType
<1>4. /\ UNCHANGED <<at, call, irq_enabled, victims, lockout_in_progress, phase, timed>>
      /\ UNCHANGED <<core1, got>>
  BY DEF HandlerStep, threadVars, launchVars
<1>5. Drains(isr[0]) /\ NoStart
  BY DEF BootInv, QuietInv
<1>6. ~Launching
  <2>1. isr[0] = "off" => irq_enabled[0]
    BY <1>2 DEF HandlerStep, IsrEnter, IsrDrain, IsrAck, IsrPop, IsrLeave
  <2> QED
    BY <1>3, <2>1 DEF ThreadOf, IrqOf, Launching
<1>7. IsrEnter(0) \/ IsrDrain(0)
  BY <1>2, <1>5 DEF HandlerStep, IsrAck, IsrPop, IsrLeave, Drains
<1>8. \/ fifo' = fifo /\ \E g \in {"off", "drain"} : isr' = [isr EXCEPT ![0] = g]
      \/ /\ Pop(0) /\ isr' = [isr EXCEPT ![0] = IF AsksLockout(Head(fifo[0])) THEN "ack" ELSE "drain"]
  BY <1>7 DEF IsrEnter, IsrDrain, IsrGo
<1>9. Drains(isr'[0]) /\ NoStart' /\ fifo'[1] = fifo[1]
  <2>1. CASE fifo' = fifo /\ \E g \in {"off", "drain"} : isr' = [isr EXCEPT ![0] = g]
    BY <1>3, <1>5, <2>1 DEF Drains, NoStart
  <2>2. CASE /\ Pop(0)
             /\ isr' = [isr EXCEPT ![0] = IF AsksLockout(Head(fifo[0])) THEN "ack" ELSE "drain"]
    <3>1. fifo[0] # << >> /\ fifo'[0] = Tail(fifo[0]) /\ fifo'[1] = fifo[1]
      BY <1>3, <2>2, PopFacts
    <3>2. Head(fifo[0]) # "START"
      BY <1>3, <1>5, <3>1 DEF NoStart
    <3>3. NoStart'
      BY <1>3, <1>5, <3>1 DEF NoStart
    <3>4. isr'[0] = "drain"
      BY <1>3, <2>2, <3>2 DEF AsksLockout
    <3> QED
      BY <3>1, <3>3, <3>4 DEF Drains
  <2> QED
    BY <1>8, <2>1, <2>2
<1>10. QuietInv'
  BY <1>4, <1>9 DEF BootInv, QuietInv, Locking
<1>11. ~Launching'
  BY <1>4, <1>6 DEF Launching
<1> QED
  BY <1>1, <1>4, <1>6, <1>9, <1>10, <1>11 DEF BootInv

LEMMA OthersBoot ==
  ASSUME Common, BootInv, ~TimedVictims, NEW x \in Cores,
         \/ Up(x) /\ VictimInit(x) /\ UNCHANGED <<launchVars, resets>>
         \/ TimePasses(x) /\ UNCHANGED <<launchVars, lockoutVars, resets>>
  PROVE  Common' /\ BootInv'
<1>1. SUFFICES ASSUME Common', \A c \in Cores : call'[c].op = call[c].op, 1 \notin victims',
                      UNCHANGED <<fifo, at, isr, phase, timed, lockout_in_progress>>,
                      UNCHANGED <<seq, core1, got, answer>>
               PROVE  BootInv'
  <2>1. CASE Up(x) /\ VictimInit(x) /\ UNCHANGED <<launchVars, resets>>
    <3>1. x = 0
      BY <2>1, CoreFacts DEF Up, BootInv
    <3>2. 1 \notin victims'
      BY <2>1, <3>1 DEF VictimInit, BootInv, QuietInv
    <3>3. /\ UNCHANGED <<fifo, at, call, isr, phase, timed, lockout_in_progress>>
          /\ UNCHANGED <<seq, core1, got, answer>>
      BY <2>1 DEF VictimInit, launchVars
    <3> QED
      BY <1>1, <2>1, <3>2, <3>3, VictimInitCommon
  <2>2. CASE TimePasses(x) /\ UNCHANGED <<launchVars, lockoutVars, resets>>
    <3>1. /\ UNCHANGED <<fifo, at, isr, phase, timed, lockout_in_progress, victims>>
          /\ UNCHANGED <<seq, core1, got, answer>>
      BY <2>2 DEF TimePasses, launchVars, lockoutVars, threadVars
    <3>2. 1 \notin victims'
      BY <3>1 DEF BootInv, QuietInv
    <3> QED
      BY <1>1, <2>2, <3>1, <3>2, TimePassesCommon
  <2> QED
    BY <2>1, <2>2
<1>2. Launching' = Launching
  BY <1>1, CoreFacts DEF Launching
<1>3. QuietInv'
  BY <1>1 DEF BootInv, QuietInv, Locking
<1>4. Stream' = Stream /\ Coming' = Coming
  BY <1>1 DEF Stream, Coming, Due
<1>5. DialogueInv => DialogueInv'
  BY <1>1, <1>4 DEF DialogueInv
<1>6. NoStart'
  BY <1>1 DEF BootInv, NoStart
<1> QED
  BY <1>1, <1>2, <1>3, <1>5, <1>6 DEF BootInv

\* Nobody calls the lockout functions.
LEMMA NoLockoutBoot ==
  ASSUME Common, BootInv, NEW x \in Cores
  PROVE  /\ ~LockoutThreadStep(x)
         /\ \A op \in {"start", "end"}, time \in {Never, "ahead"} : Up(x) => ~Call(x, op, time)
         /\ ~Call(x, "end", Never)
<1>1. ThreadOf(x) /\ ~Locking(x) /\ phase[x] = "none" /\ 1 \notin victims /\ core1 # "app"
  BY DEF Common, BootInv, QuietInv
<1>2. at[x] \notin ThreadStages /\ call[x].op \notin {"start", "end"}
  BY <1>1 DEF ThreadOf, StageOf, Locking
<1>3. ~LockoutThreadStep(x)
  BY <1>2 DEF LockoutThreadStep, EnterMutex, BeginHandshake, HandshakePush, HandshakePop,
              EndHandshake, ExitMutex, ThreadStages
<1>4. Up(x) => Other(x) \notin victims
  BY <1>1, CoreFacts DEF Up
<1> QED
  BY <1>1, <1>3, <1>4 DEF Call

(* The reset *)

LEMMA ResetCommon ==
  ASSUME Common, Reset
  PROVE  Common'
<1>1. /\ 0 \in Cores /\ 1 \in Cores /\ Other(0) = 1 /\ Other(1) = 0 /\ MulticoreTypeOK
      /\ ThreadOf(0) /\ ThreadOf(1) /\ irq_enabled \in [Cores -> BOOLEAN]
  BY BootTypes, ActorFacts
<1>2. /\ UNCHANGED <<fifo, event, at, call, saved, isr, lockout_mutex,
                     lockout_in_progress, phase, timed, left>>
      /\ UNCHANGED <<seq, answer>>
      /\ core1' = "drain" /\ got' = << >> /\ resets < MaxResets /\ resets' = resets + 1
      /\ at[0] = "idle" /\ at[1] = "idle" /\ isr[0] = "off" /\ isr[1] = "off"
      /\ victims' = victims \ {1} /\ irq_enabled' = [irq_enabled EXCEPT ![1] = FALSE]
      /\ phase[0] = "none" /\ phase[1] = "none"
  BY <1>1 DEF Reset, ResetCore1
<1>3. resets' \in 0..MaxResets
  BY <1>1, <1>2, TypeFacts, MulticoreAssumption
<1>4. victims' \subseteq Cores
  BY <1>1, <1>2, TypeFacts
<1>5. irq_enabled' \in [Cores -> BOOLEAN]
  BY <1>1, <1>2
<1>6. got' \in Seq(BootWords) /\ Len(got') <= 4
  BY <1>2
<1>7. MulticoreTypeOK'
  BY <1>1, <1>2, <1>3, <1>4, <1>5, <1>6, TypeFacts, TypeNext
<1>8. /\ irq_enabled'[1] = FALSE /\ irq_enabled'[0] = irq_enabled[0]
      /\ 1 \notin victims' /\ (0 \in victims' <=> 0 \in victims)
  BY <1>1, <1>2
<1>9. /\ call[0].op = "none" /\ call[1].op = "none"
      /\ ~Locking(0) /\ ~Locking(1) /\ ~InHandshake(0) /\ ~InHandshake(1)
      /\ ~Locking(0)' /\ ~Locking(1)' /\ ~InHandshake(0)' /\ ~InHandshake(1)'
  BY <1>1, <1>2 DEF ThreadOf, StageOf, Locking, InHandshake
<1>10. ~HasMutex(0) /\ ~HasMutex(1) /\ ~HasMutex(0)' /\ ~HasMutex(1)'
  BY <1>2, <1>9 DEF HasMutex
<1>11. ThreadOf(0)'
  <2>1. StageOf(0)'
    BY <1>1, <1>2, <1>9, <1>10 DEF ThreadOf, StageOf
  <2>2. PhaseOf(0)'
    BY <1>1, <1>2, <1>9 DEF ThreadOf, PhaseOf
  <2>3. IrqOf(0)'
    BY <1>1, <1>2, <1>8, <1>9 DEF ThreadOf, IrqOf
  <2> QED
    BY <2>1, <2>2, <2>3 DEF ThreadOf
<1>12. ThreadOf(1)'
  <2>1. StageOf(1)'
    BY <1>1, <1>2, <1>9, <1>10 DEF ThreadOf, StageOf
  <2>2. PhaseOf(1)'
    BY <1>1, <1>2, <1>9 DEF ThreadOf, PhaseOf
  <2>3. IrqOf(1)'
    BY <1>1, <1>2, <1>8, <1>9 DEF ThreadOf, IrqOf
  <2> QED
    BY <2>1, <2>2, <2>3 DEF ThreadOf
<1> QED
  BY <1>1, <1>7, <1>11, <1>12, CommonSplit

\* Nothing a start sent is left for core 0.
LEMMA NoStartLeft ==
  ASSUME Common, AppInv, at[0] = "idle", at[1] = "idle", \A c \in Cores : phase[c] = "none"
  PROVE  NoStart /\ ~lockout_in_progress /\ \E c \in Cores : timed \subseteq {c}
<1>1. PICK c \in Cores : Asks(c)
  BY DEF AppInv
<1>2. c = 0 \/ c = 1
  BY CoreFacts
<1>3. call[0].op = "none"
  BY BootTypes DEF ThreadOf, StageOf
<1>4. Inbox(0) = fifo[0]
  BY <1>3 DEF Inbox, Entering, Launching
<1>5. Progress(c) = "none"
  BY <1>2 DEF Progress
<1>6. AllOf("END", Inbox(Other(c))) /\ Inbox(c) = << >>
  BY <1>1, <1>5 DEF Asks, Conversation
<1>7. NoStart
  <2>1. CASE c = 0
    <3>1. fifo[0] = << >>
      BY <1>4, <1>6, <2>1
    <3> QED
      BY <3>1 DEF NoStart
  <2>2. CASE c = 1
    <3>1. AllOf("END", fifo[0])
      BY <1>4, <1>6, <2>2, CoreFacts
    <3> QED
      BY <3>1 DEF NoStart, AllOf
  <2> QED
    BY <1>2, <2>1, <2>2
<1>8. ~lockout_in_progress /\ timed \subseteq {c}
  BY <1>1 DEF Asks
<1> QED
  BY <1>7, <1>8

LEMMA ResetBoot ==
  ASSUME Common, AppInv \/ BootInv, Reset
  PROVE  Common' /\ BootInv'
<1>1. /\ UNCHANGED <<fifo, at, call, isr, lockout_in_progress, phase, timed>>
      /\ core1' = "drain" /\ got' = << >>
      /\ at[0] = "idle" /\ at[1] = "idle" /\ isr[0] = "off" /\ 1 \notin victims'
      /\ \A c \in Cores : phase[c] = "none"
  BY CoreFacts DEF Reset, ResetCore1
<1>2. NoStart /\ ~lockout_in_progress /\ \E c \in Cores : timed \subseteq {c}
  BY <1>1, NoStartLeft DEF BootInv, QuietInv
<1>3. call[0].op = "none" /\ call[1].op = "none"
  BY <1>1, BootTypes DEF ThreadOf, StageOf
<1>4. ~Launching' /\ \A c \in Cores : ~Locking(c)'
  BY <1>1, <1>3, CoreFacts DEF Launching, Locking
<1>5. QuietInv'
  BY <1>1, <1>2, <1>4 DEF QuietInv, Drains
<1>6. NoStart'
  BY <1>1, <1>2 DEF NoStart
<1>7. << >> # Program
  BY ProgramSome
<1>8. Common'
  BY ResetCommon
<1> QED
  BY <1>1, <1>4, <1>5, <1>6, <1>7, <1>8 DEF BootInv

(* The whole system *)

MulticoreInv == Common /\ (AppInv \/ BootInv)

LEMMA MulticoreStarts == MulticoreInit => MulticoreInv
<1> SUFFICES ASSUME MulticoreInit PROVE MulticoreInv
  OBVIOUS
<1>1. /\ fifo = [c \in Cores |-> << >>] /\ event = [c \in Cores |-> FALSE]
      /\ at = [c \in Cores |-> "idle"] /\ call = [c \in Cores |-> NoCall]
      /\ irq_enabled = [c \in Cores |-> FALSE] /\ saved = [c \in Cores |-> FALSE]
      /\ seq = 1 /\ core1 = "drain" /\ got = << >> /\ answer = "0"
      /\ isr = [c \in Cores |-> "off"] /\ victims = {} /\ timed = {}
      /\ lockout_mutex = NoCore /\ lockout_in_progress = FALSE
      /\ phase = [c \in Cores |-> "none"] /\ left = Budget /\ resets = 0
  BY DEF MulticoreInit, FifoInit, LaunchInit, LockoutInit
<1>2. NoCall \in Calls /\ NoCall.op = "none" /\ NoCall.time = Never
  BY DEF NoCall, Calls, Clock, Never
<1>3. "idle" \in Stages /\ "off" \in HandlerStages /\ "none" \in Phases
  BY DEF Stages, HandlerStages, Phases
<1>4. fifo \in [Cores -> Seq(Words)] /\ \A c \in Cores : Len(fifo[c]) <= Depth
  BY <1>1, FifoAssumption
<1>5. resets \in 0..MaxResets /\ left \in [Cores -> Nat] /\ NoCore \notin Cores
  BY <1>1, MulticoreAssumption, LockoutAssumption
<1>6. MulticoreTypeOK
  <2>1. seq \in 1..6 /\ got \in Seq(BootWords) /\ Len(got) <= 4 /\ answer \in BootWords
    BY <1>1, ZeroOne
  <2>2. /\ event \in [Cores -> BOOLEAN] /\ at \in [Cores -> Stages]
        /\ call \in [Cores -> Calls] /\ irq_enabled \in [Cores -> BOOLEAN]
        /\ saved \in [Cores -> BOOLEAN] /\ isr \in [Cores -> HandlerStages]
        /\ phase \in [Cores -> Phases]
    BY <1>1, <1>2, <1>3
  <2> QED
    BY <1>1, <1>4, <1>5, <2>1, <2>2, TypeFacts
<1>7. ASSUME NEW c \in Cores PROVE ThreadOf(c)
  <2>1. /\ at[c] = "idle" /\ call[c].op = "none" /\ call[c].time = Never /\ isr[c] = "off"
        /\ ~irq_enabled[c] /\ ~saved[c] /\ phase[c] = "none"
    BY <1>1, <1>2
  <2>2. ~Locking(c) /\ ~InHandshake(c) /\ ~HasMutex(c) /\ lockout_mutex # c
    BY <1>1, <1>5, <2>1 DEF Locking, InHandshake, HasMutex
  <2>3. StageOf(c)
    BY <2>1, <2>2 DEF StageOf, ThreadStages
  <2>4. PhaseOf(c)
    BY <2>1, <2>2 DEF PhaseOf, Never
  <2>5. IrqOf(c)
    BY <1>1, <2>1, <2>2 DEF IrqOf
  <2> QED
    BY <2>3, <2>4, <2>5 DEF ThreadOf
<1>8. BootInv
  <2>1. ~Launching /\ NoStart
    BY <1>1, <1>2, CoreFacts DEF Launching, NoStart
  <2>2. QuietInv
    BY <1>1, <1>2, CoreFacts DEF QuietInv, Locking, Drains
  <2>3. << >> # Program
    BY ProgramSome
  <2> QED
    BY <1>1, <2>1, <2>2, <2>3 DEF BootInv
<1> QED
  BY <1>6, <1>7, <1>8 DEF MulticoreInv, Common

LEMMA MulticoreStutters == ASSUME MulticoreInv, UNCHANGED multicoreVars PROVE MulticoreInv'
<1>1. /\ UNCHANGED <<fifo, event, at, call, irq_enabled, saved>>
      /\ UNCHANGED <<seq, core1, got, answer, isr, victims, lockout_mutex>>
      /\ UNCHANGED <<lockout_in_progress, phase, timed, left, resets>>
  BY DEF multicoreVars, fifoVars, launchVars, lockoutVars, threadVars
<1>2. Common'
  <2>1. MulticoreTypeOK'
    BY <1>1, TypeFacts, TypeNext DEF MulticoreInv, Common
  <2>2. ASSUME NEW c \in Cores PROVE ThreadOf(c)'
    BY <1>1, ThreadKept DEF MulticoreInv, Common
  <2> QED
    BY <2>1, <2>2 DEF Common
<1>3. CASE AppInv
  BY <1>1, <1>2, <1>3, StillApp DEF MulticoreInv
<1>4. CASE BootInv
  <2>1. Launching' = Launching /\ QuietInv' /\ NoStart'
    BY <1>1, <1>4 DEF Launching, BootInv, QuietInv, NoStart, Locking
  <2>2. Stream' = Stream /\ Coming' = Coming
    BY <1>1 DEF Stream, Coming, Due
  <2>3. DialogueInv => DialogueInv'
    BY <1>1, <2>2 DEF DialogueInv
  <2> QED
    BY <1>1, <1>2, <1>4, <2>1, <2>3 DEF BootInv, MulticoreInv
<1> QED
  BY <1>3, <1>4 DEF MulticoreInv

LEMMA MulticoreSteps == ASSUME MulticoreInv, ~TimedVictims, MulticoreNext PROVE MulticoreInv'
<1>1. Common /\ (AppInv \/ BootInv) /\ (AppInv => core1 = "app") /\ (BootInv => core1 # "app")
  BY DEF MulticoreInv, AppInv, BootInv
<1>2. CASE BootSteps
  <2>1. UNCHANGED <<lockoutVars, resets>> /\ (LaunchStep \/ BootStep)
    BY <1>2 DEF BootSteps
  <2>2. CASE AppInv
    <3>1. ~BootStep
      BY <1>1, <2>2 DEF BootStep, BootPop
    <3> QED
      BY <1>1, <2>1, <2>2, <3>1, LaunchStepApp DEF MulticoreInv
  <2>3. CASE BootInv
    BY <1>1, <2>1, <2>3, LaunchStepBoot, BootStepBoot DEF MulticoreInv
  <2> QED
    BY <1>1, <2>2, <2>3
<1>3. CASE Reset
  BY <1>1, <1>3, ResetBoot DEF MulticoreInv
<1>4. CASE ThreadRuns(0) /\ CallLaunch /\ UNCHANGED <<lockoutVars, resets>>
  <2>1. BootInv
    BY <1>1, <1>4 DEF CallLaunch
  <2> QED
    BY <1>1, <1>4, <2>1, CallLaunchBoot DEF MulticoreInv
<1>5. ASSUME NEW c \in Cores, Lockouts(c) PROVE MulticoreInv'
  BY <1>1, <1>5, LockoutApp, NoLockoutBoot DEF MulticoreInv, Lockouts
<1>6. ASSUME NEW c \in Cores, Handlers(c) PROVE MulticoreInv'
  BY <1>1, <1>6, HandlerApp, HandlerBoot DEF MulticoreInv, Handlers
<1>7. ASSUME NEW c \in Cores, End(c) PROVE MulticoreInv'
  <2>1. Call(c, "end", Never) /\ UNCHANGED <<launchVars, resets>>
    BY <1>7 DEF End
  <2>2. AppInv
    BY <1>1, <2>1, NoLockoutBoot
  <2> QED
    BY <1>1, <2>1, <2>2, CallCommon, CallApp DEF MulticoreInv
<1>8. ASSUME NEW c \in Cores, Up(c) /\ VictimInit(c) /\ UNCHANGED <<launchVars, resets>>
      PROVE  MulticoreInv'
  BY <1>1, <1>8, OthersApp, OthersBoot DEF MulticoreInv
<1>9. ASSUME NEW c \in Cores, NEW op \in {"start", "end"}, NEW time \in {Never, "ahead"},
             Up(c) /\ Call(c, op, time) /\ UNCHANGED <<launchVars, resets>>
      PROVE  MulticoreInv'
  <2>1. AppInv
    BY <1>1, <1>9, NoLockoutBoot
  <2> QED
    BY <1>1, <1>9, <2>1, CallCommon, CallApp DEF MulticoreInv
<1>10. ASSUME NEW c \in Cores, TimePasses(c) /\ UNCHANGED <<launchVars, lockoutVars, resets>>
       PROVE  MulticoreInv'
  BY <1>1, <1>10, OthersApp, OthersBoot DEF MulticoreInv
<1> QED
  BY <1>2, <1>3, <1>4, <1>5, <1>6, <1>7, <1>8, <1>9, <1>10 DEF MulticoreNext

LEMMA MulticoreAlways == ~TimedVictims => (MulticoreSpec => []MulticoreInv)
<1> SUFFICES ASSUME ~TimedVictims PROVE MulticoreSpec => []MulticoreInv
  OBVIOUS
<1>1. MulticoreInv /\ [MulticoreNext]_multicoreVars => MulticoreInv'
  BY MulticoreSteps, MulticoreStutters
<1> QED
  BY <1>1, MulticoreStarts, PTL DEF MulticoreSpec

(* The theorems *)

LEMMA ConversationWords ==
  ASSUME NEW e, NEW h, NEW r \in Seq(Words), NEW a \in Seq(Words), Conversation(e, h, r, a)
  PROVE  /\ \A k \in 1..Len(r) : r[k] \in Magic
         /\ \A k \in 1..Len(a) : a[k] \in Magic
<1>1. \A k \in 1..Len(r) : r[k] \in {"START", "END"}
  BY DEF Conversation, AllOf, TwoParts
<1>2. a = << >> \/ a = << "START" >> \/ a = << "END" >>
  BY DEF Conversation
<1>3. \A k \in 1..Len(a) : a[k] \in {"START", "END"}
  BY <1>2
<1> QED
  BY <1>1, <1>3 DEF Magic

\* multicore_launch_core1_raw returns to its caller only when core 1 has been
\* given the whole program and has left the bootrom, and the FIFOs hold no
\* word of their dialogue.
THEOREM LaunchCompletes == ~TimedVictims => (MulticoreSpec => []LaunchComplete)
<1> SUFFICES ASSUME ~TimedVictims PROVE MulticoreSpec => []LaunchComplete
  OBVIOUS
<1>1. MulticoreInv => LaunchComplete
  <2> SUFFICES ASSUME MulticoreInv, at[0] = "launched"
               PROVE  /\ core1 = "app" /\ got = Program
                      /\ \A c \in Cores : \A k \in 1..Len(fifo[c]) : fifo[c][k] \in Magic
    BY DEF LaunchComplete
  <2>1. Launching /\ Common
    BY BootTypes DEF MulticoreInv, ThreadOf, StageOf, Launching
  <2>2. AppInv
    BY <2>1 DEF MulticoreInv, BootInv, DialogueInv
  <2>3. ~Entering
    BY DEF Entering
  <2>4. PICK b \in Cores : Asks(b)
    BY <2>2 DEF AppInv
  <2>5. Other(b) \in Cores /\ \A c \in Cores : c = b \/ c = Other(b)
    BY OtherFacts
  <2>6. \A c \in Cores : Inbox(c) = fifo[c] /\ fifo[c] \in Seq(Words)
    BY <2>1, <2>3, BootTypes DEF Inbox
  <2>7. Conversation(Progress(b), isr[Other(b)], fifo[Other(b)], fifo[b])
    BY <2>4, <2>5, <2>6 DEF Asks
  <2>8. /\ \A k \in 1..Len(fifo[Other(b)]) : fifo[Other(b)][k] \in Magic
        /\ \A k \in 1..Len(fifo[b]) : fifo[b][k] \in Magic
    BY <2>5, <2>6, <2>7, ConversationWords
  <2> QED
    BY <2>2, <2>5, <2>8 DEF AppInv
<1> QED
  BY <1>1, MulticoreAlways, PTL

\* Between a multicore_lockout_start_blocking that has returned and the call
\* of multicore_lockout_end_blocking the other core executes nothing but the
\* loop of its handler, and the asserts on lockout_in_progress hold.
THEOREM HolderIsAlone == ~TimedVictims => (MulticoreSpec => []HolderAlone)
<1> SUFFICES ASSUME ~TimedVictims PROVE MulticoreSpec => []HolderAlone
  OBVIOUS
<1>1. MulticoreInv => HolderAlone
  <2> SUFFICES ASSUME MulticoreInv PROVE HolderAlone
    OBVIOUS
  <2>1. Common /\ MulticoreTypeOK /\ lockout_in_progress \in BOOLEAN
    BY TypeFacts DEF MulticoreInv, Common
  <2>2. ASSUME NEW c \in Cores, phase[c] = "held" PROVE LockedOut(Other(c))
    <3>1. AppInv
      BY <2>2 DEF MulticoreInv, BootInv, QuietInv
    <3>2. PICK b \in Cores : Asks(b)
      BY <3>1 DEF AppInv
    <3>3. c = b
      BY <2>2, <3>2, OtherFacts DEF Asks, Waits
    <3>4. at[c] # "done"
      BY <2>1, <2>2 DEF Common, ThreadOf, StageOf, PhaseOf, ThreadStages, Locking
    <3>5. Conversation("held", isr[Other(c)], Inbox(Other(c)), Inbox(c))
      BY <2>2, <3>2, <3>3, <3>4 DEF Asks, Progress
    <3> QED
      BY <3>5 DEF Conversation, Spins, LockedOut
  <2>3. ASSUME NEW c \in Cores, at[c] = "locked"
        PROVE  lockout_in_progress = (call[c].op = "end")
    <3>1. Locking(c) /\ ThreadOf(c)
      BY <2>1, <2>3 DEF Common, ThreadOf, StageOf, ThreadStages
    <3>2. AppInv
      BY <3>1 DEF MulticoreInv, BootInv, QuietInv
    <3>3. PICK b \in Cores : Asks(b)
      BY <3>2 DEF AppInv
    <3>4. /\ call[c].op = "start" => phase[c] = "asked"
          /\ call[c].op = "end" => phase[c] = "ending"
          /\ call[c].op = "start" \/ call[c].op = "end"
      BY <2>3, <3>1 DEF ThreadOf, PhaseOf, Locking
    <3>5. lockout_in_progress <=> call[c].op = "end"
      <4>1. CASE c = b
        BY <3>3, <3>4, <4>1 DEF Asks
      <4>2. CASE c = Other(b)
        <5>1. phase[c] \in {"none", "asked"} /\ phase[b] \in {"none", "asked"}
          BY <2>3, <3>3, <4>2, OtherFacts DEF Asks, Waits
        <5>2. ~lockout_in_progress
          BY <3>3, <5>1 DEF Asks
        <5> QED
          BY <3>4, <5>1, <5>2
      <4> QED
        BY <4>1, <4>2, OtherFacts
    <3> QED
      BY <2>1, <3>5
  <2> QED
    BY <2>1, <2>2, <2>3 DEF HolderAlone
<1> QED
  BY <1>1, MulticoreAlways, PTL

\* A core spins in multicore_lockout_handler only while the other one is
\* between a start and the return of its end.
THEOREM PausedWhenAsked == ~TimedVictims => (MulticoreSpec => []PausedOnRequest)
<1> SUFFICES ASSUME ~TimedVictims PROVE MulticoreSpec => []PausedOnRequest
  OBVIOUS
<1>1. MulticoreInv => PausedOnRequest
  <2> SUFFICES ASSUME MulticoreInv, NEW c \in Cores, LockedOut(c), phase[Other(c)] = "none"
               PROVE  FALSE
    BY DEF PausedOnRequest
  <2>1. Common /\ ~Drains(isr[c]) /\ c \in victims
    BY DEF MulticoreInv, Common, LockedOut, Drains, ThreadOf, IrqOf
  <2>2. AppInv
    BY <2>1, CoreFacts DEF MulticoreInv, BootInv, QuietInv
  <2>3. PICK b \in Cores : Asks(b)
    BY <2>2 DEF AppInv
  <2>4. c = Other(b) /\ Other(c) = b
    BY <2>1, <2>3, OtherFacts DEF Asks
  <2>5. Progress(b) = "none"
    BY <2>4 DEF Progress
  <2> QED
    BY <2>1, <2>3, <2>4, <2>5 DEF Asks, Conversation
<1> QED
  BY <1>1, MulticoreAlways, PTL
=============================================================================
