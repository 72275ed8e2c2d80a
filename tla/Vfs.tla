-------------------------------- MODULE Vfs --------------------------------
(***************************************************************************)
(* The virtual file system (library/VFS/VFS.c): the linked list of mounted *)
(* file systems and the table of open files, over the file objects of the  *)
(* backends (littlefs, FatFs).  One task calls it: it takes no lock.       *)
(***************************************************************************)
EXTENDS Integers, Sequences, FiniteSets

CONSTANTS
  Letters,         \* drive letters
  Paths,           \* well-formed paths, as records with a letter
  Hash,            \* Hash[p]: strhash of the path
  MAX_OPEN_FILES,
  MaxMounts,       \* bound: how many vfs_t are allocated
  NotOpen          \* no file

ASSUME VfsAssumption ==
  /\ \A p \in Paths : p.letter \in Letters
  /\ Hash \in [Paths -> Nat]
  /\ MAX_OPEN_FILES \in Nat /\ MaxMounts \in Nat
  /\ NotOpen \notin [drive : 1..MaxMounts, path : Paths]

FILES_FD_BASE == 3
Slots == 0..(MAX_OPEN_FILES - 1)
Handles == {i + FILES_FD_BASE : i \in Slots}
Systems == 1..MaxMounts       \* the vfs_t, each with its list node
Objects == 1..MAX_OPEN_FILES  \* the backends' lfs_file_t and FIL

VARIABLES
  letter,          \* letter[f]: the name of the f-th vfs_t that was allocated
  head, tail,      \* of the list, 0 for NULL
  next, prev,      \* links of the list nodes, 0 for NULL
  vfs_open_files,  \* fd, file, fs and hash of each slot, 0 when clear
  opened,          \* opened[o]: drive and path of the backend's object o, or NotOpen
  reached,         \* the object a read, write or seek was last called for, or NotOpen
  halted           \* list_remove has followed a null pointer

list == <<letter, head, tail, next, prev>>
vars == <<list, vfs_open_files, opened, reached, halted>>

NoFile == [fd |-> 0, file |-> 0, fs |-> 0, hash |-> 0]

Init ==
  /\ letter = << >> /\ head = 0 /\ tail = 0
  /\ next = [f \in Systems |-> 0] /\ prev = [f \in Systems |-> 0]
  /\ vfs_open_files = [i \in Slots |-> NoFile]
  /\ opened = [o \in Objects |-> NotOpen]
  /\ reached = NotOpen /\ halted = FALSE
-----------------------------------------------------------------------------
(* The list *)

\* Node[k]: the k-th node from the head, or 0.
Node[k \in 1..MaxMounts] ==
  IF k = 1 THEN head ELSE IF Node[k - 1] = 0 THEN 0 ELSE next[Node[k - 1]]

Listed == {k \in 1..MaxMounts : Node[k] # 0}

\* list_get, for a name with a colon.
Named(l) == {k \in Listed : letter[Node[k]] = l}
GetFs(l) ==
  IF Named(l) = {} THEN 0
  ELSE Node[CHOOSE k \in Named(l) : \A j \in Named(l) : k <= j]

ListAdd(f) ==
  LET last == IF tail = 0 THEN head ELSE tail IN
  /\ IF head = 0 THEN head' = f /\ UNCHANGED <<next, prev>>
     ELSE /\ next' = [next EXCEPT ![last] = f]
          /\ prev' = [prev EXCEPT ![f] = last]
          /\ UNCHANGED head
  /\ tail' = IF head = 0 THEN tail ELSE f

\* Both neighbours are written to, whether there are any or not.
HasNeighbours(f) == prev[f] # 0 /\ next[f] # 0

\* Mutant: only the forward link is closed.
BackLinkKept(f) == prev

BackLinks(f) == [prev EXCEPT ![next[f]] = prev[f]]

ListRemove(f) ==
  /\ next' = [next EXCEPT ![prev[f]] = next[f]]
  /\ prev' = BackLinks(f)
  /\ UNCHANGED <<letter, head, tail>>
-----------------------------------------------------------------------------
(* Mounting *)

\* A name without a colon is not looked for, and may repeat a letter.  The
\* file system stays in the list whether its backend mounts or not.
Mount ==
  \E l \in Letters, colon \in BOOLEAN :
    /\ Len(letter) < MaxMounts
    /\ colon => GetFs(l) = 0
    /\ letter' = Append(letter, l)
    /\ ListAdd(Len(letter'))
    /\ UNCHANGED <<vfs_open_files, opened, reached, halted>>

\* Mutant: the files of an unmounted drive stay open.
NoneOf(f) == {}

FilesOf(f) == {i \in Slots : vfs_open_files[i].fs = f}

\* vfs_close of each slot in S: the backend frees its object.
ClearSlots(S) ==
  /\ vfs_open_files' = [i \in Slots |-> IF i \in S THEN NoFile ELSE vfs_open_files[i]]
  /\ opened' = [o \in Objects |->
       IF \E i \in S : vfs_open_files[i].file = o THEN NotOpen ELSE opened[o]]

\* Nothing is claimed of what follows the unmount of an end of the list.
Unmount ==
  \E l \in Letters :
    LET f == GetFs(l) IN
    /\ f # 0
    /\ IF HasNeighbours(f)
       THEN ClearSlots(FilesOf(f)) /\ ListRemove(f) /\ UNCHANGED <<reached, halted>>
       ELSE halted' = TRUE /\ UNCHANGED <<list, vfs_open_files, opened, reached>>
-----------------------------------------------------------------------------
(* Files *)

\* Mutant: the search ends at the first clear slot.
IsOpenBefore(p) ==
  \E i \in Slots :
    /\ \A j \in 0..i : vfs_open_files[j].fd # 0
    /\ vfs_open_files[i].hash # 0 /\ vfs_open_files[i].hash = Hash[p]

\* vfs_file_is_open: a hash of 0 is never found.
FileIsOpen(p) ==
  \E i \in Slots :
    /\ vfs_open_files[i].fd # 0 /\ vfs_open_files[i].file # 0
    /\ vfs_open_files[i].hash # 0 /\ vfs_open_files[i].hash = Hash[p]

FreeSlots == {i \in Slots : vfs_open_files[i].fd = 0}
FreeIndex == CHOOSE i \in FreeSlots : \A j \in FreeSlots : i <= j

\* The backend may find no such file; the object it allocates is any.
Open ==
  \E p \in Paths, o \in Objects :
    LET f == GetFs(p.letter) IN
    /\ ~FileIsOpen(p) /\ f # 0 /\ FreeSlots # {}
    /\ opened[o] = NotOpen
    /\ opened' = [opened EXCEPT ![o] = [drive |-> f, path |-> p]]
    /\ vfs_open_files' = [vfs_open_files EXCEPT ![FreeIndex] =
         [fd |-> FreeIndex + FILES_FD_BASE, file |-> o, fs |-> f, hash |-> Hash[p]]]
    /\ UNCHANGED <<list, reached, halted>>

\* vfs_get_file: the slots a handle names.
SlotsOf(fd) == {i \in Slots : vfs_open_files[i].fd = fd}

Close ==
  \E fd \in Handles :
    /\ SlotsOf(fd) # {}
    /\ ClearSlots(SlotsOf(fd))
    /\ UNCHANGED <<list, reached, halted>>

\* vfs_read, vfs_write and vfs_seek; a handle of no slot is -EBADF.
Use ==
  \E fd \in Handles :
    /\ \/ \E i \in SlotsOf(fd) : reached' = opened[vfs_open_files[i].file]
       \/ SlotsOf(fd) = {} /\ reached' = NotOpen
    /\ UNCHANGED <<list, vfs_open_files, opened, halted>>

Next == ~halted /\ (Mount \/ Unmount \/ Open \/ Close \/ Use)

Spec == Init /\ [][Next]_vars
-----------------------------------------------------------------------------
(* Properties *)

TypeOK ==
  /\ letter \in Seq(Letters) /\ Len(letter) <= MaxMounts
  /\ head \in 0..Len(letter) /\ tail \in 0..Len(letter)
  /\ next \in [Systems -> 0..Len(letter)] /\ prev \in [Systems -> 0..Len(letter)]
  /\ vfs_open_files \in [Slots -> [fd : Handles, file : Objects, fs : Systems,
                                   hash : {Hash[p] : p \in Paths}] \cup {NoFile}]
  /\ opened \in [Objects -> [drive : Systems, path : Paths] \cup {NotOpen}]
  /\ reached \in [drive : Systems, path : Paths] \cup {NotOpen}
  /\ halted \in BOOLEAN

MountedDrives ==
  [k \in 1..Cardinality(Listed) |-> [drive |-> Node[k], letter |-> letter[Node[k]]]]

HandleOf(fd) ==
  IF SlotsOf(fd) = {} THEN NotOpen
  ELSE opened[vfs_open_files[CHOOSE i \in SlotsOf(fd) : TRUE].file]

LetterOfPath(p) == p.letter
HashIsZero(p) == Hash[p] = 0

AbstractVfs == INSTANCE AbstractFiles WITH
  Drives <- Systems, LetterOf <- LetterOfPath, Unhashed <- HashIsZero,
  None <- NotOpen, mounted <- MountedDrives,
  handle <- [fd \in Handles |-> HandleOf(fd)]

\* The linked list and the table are drives in the order they were mounted
\* and handles of files: a handle reaches the file it was opened for, also
\* when its slot, its object or its letter has been used before, and a path
\* is not opened twice unless its hash is 0.
AbstractSpec == AbstractVfs!Spec

\* The links are one list: backwards it is the list forwards, and it ends
\* at the node that list_add appends to.
ListShape ==
  /\ Cardinality({Node[k] : k \in Listed}) = Cardinality(Listed)
  /\ \A k \in Listed :
       /\ prev[Node[k]] = IF k = 1 THEN 0 ELSE Node[k - 1]
       /\ next[Node[k]] = 0 => Node[k] = IF tail = 0 THEN head ELSE tail

\* No file leaks and none is closed twice: the backends' objects are those
\* of the slots in use, each of one slot, which agree on the file system,
\* and that is still mounted.
FilesAccounted ==
  /\ TypeOK
  /\ \A i \in Slots \ FreeSlots :
       LET F == vfs_open_files[i] IN
       /\ F.fd = i + FILES_FD_BASE
       /\ opened[F.file] # NotOpen /\ opened[F.file].drive = F.fs
       /\ F.fs \in {Node[k] : k \in Listed}
  /\ \A o \in Objects : opened[o] # NotOpen =>
       Cardinality({i \in Slots \ FreeSlots : vfs_open_files[i].file = o}) = 1
=============================================================================
