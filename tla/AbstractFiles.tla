--------------------------- MODULE AbstractFiles ---------------------------
(***************************************************************************)
(* What VFS.h promises: drives that are mounted and unmounted, and handles *)
(* of files.  A path is looked for on the drive of its letter that was     *)
(* mounted first; a handle reaches the file it was opened for until it is  *)
(* closed, or its drive unmounted, and then nothing.                       *)
(***************************************************************************)
EXTENDS Naturals, Sequences

CONSTANTS Drives, Letters, Paths, LetterOf(_), Unhashed(_), Handles, None

VARIABLES
  mounted,  \* the drives and their letters, oldest first
  handle,   \* handle[h]: drive and path of the file h was opened for, or None
  reached   \* the file the last read, write or seek has reached, or None

vars == <<mounted, handle, reached>>

Init == mounted = << >> /\ handle = [h \in Handles |-> None] /\ reached = None

\* The place of the drive a letter means.
Means(k, l) ==
  mounted[k].letter = l /\ \A j \in 1..(k - 1) : mounted[j].letter # l

\* A letter may be mounted twice: the second drive is hidden by the first.
Mount(d, l) ==
  /\ \A k \in 1..Len(mounted) : mounted[k].drive # d
  /\ mounted' = Append(mounted, [drive |-> d, letter |-> l])
  /\ UNCHANGED <<handle, reached>>

Unmount(k) ==
  /\ Means(k, mounted[k].letter)
  /\ mounted' = SubSeq(mounted, 1, k - 1) \o SubSeq(mounted, k + 1, Len(mounted))
  /\ handle' = [h \in Handles |->
       IF handle[h] # None /\ handle[h].drive = mounted[k].drive THEN None ELSE handle[h]]
  /\ UNCHANGED reached

\* A path is open once, unless its hash cannot tell.
Open(h, p, k) ==
  /\ handle[h] = None /\ Means(k, LetterOf(p))
  /\ Unhashed(p) \/ \A g \in Handles : handle[g] = None \/ handle[g].path # p
  /\ handle' = [handle EXCEPT ![h] = [drive |-> mounted[k].drive, path |-> p]]
  /\ UNCHANGED <<mounted, reached>>

Close(h) == handle' = [handle EXCEPT ![h] = None] /\ UNCHANGED <<mounted, reached>>

Use(h) == reached' = handle[h] /\ UNCHANGED <<mounted, handle>>

Next ==
  \/ \E d \in Drives, l \in Letters : Mount(d, l)
  \/ \E k \in 1..Len(mounted) :
       Unmount(k) \/ \E h \in Handles, p \in Paths : Open(h, p, k)
  \/ \E h \in Handles : Close(h) \/ Use(h)

Spec == Init /\ [][Next]_vars
=============================================================================
