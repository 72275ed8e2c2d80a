---------------------------- MODULE SerialUart ----------------------------
(***************************************************************************)
(* The receiving side of Serial (arduino/cores/RP2040/SerialUart.h): the   *)
(* UART's interrupt handler stores what arrives into a ring buffer         *)
(* (arduino/arduino/RingBuffer.h) that one thread reads, on the core that  *)
(* takes the interrupt or on the other.  There is no lock: each side masks *)
(* the interrupts of its own core and writes its own index.                *)
(*                                                                         *)
(* Where the handler stands in isr_save:                                   *)
(*   off      not active                                                   *)
(*   test     about to look whether the UART has a byte                    *)
(*   compare  in availableForStore, about to compare the indices           *)
(*   room     in availableForStore, about to load the tail again           *)
(*   get      about to take the byte from the UART                         *)
(*   store    in store_char, before the comparison with the tail           *)
(*   advance  in store_char, about to store the head                       *)
(* Where the reader stands in read:                                        *)
(*   idle     outside                                                      *)
(*   mask     has seen a byte, interrupts not masked yet                   *)
(*   load     in read_char, interrupts masked                              *)
(*   step     in read_char, has the byte, about to store the tail          *)
(*   done     about to unmask the interrupts and return                    *)
(***************************************************************************)
EXTENDS Integers, Sequences

CONSTANTS
  N,       \* SERIAL_BUFFER_SIZE
  Bytes,   \* what arrives
  None,    \* no byte
  Budget   \* bound: how many bytes arrive

ASSUME SerialUartAssumption == N \in Nat \ {0, 1} /\ None \notin Bytes /\ Budget \in Nat

Indices == 0..(N - 1)

VARIABLES
  local,       \* the reader runs on the core that takes the interrupt
  aucBuffer,  \* the ring's bytes
  iHead,      \* where the next byte is stored
  iTail,      \* where the next byte is read
  dr,          \* the byte in the UART's data register, or None
  isr,         \* isr.pc: where the handler stands; isr.above: what it
               \*   compared; isr.c: the byte in its hands
  reader,      \* reader.pc: where the reader stands; reader.byte: what it
               \*   has loaded, or returned
  arrived,     \* how many bytes have arrived
  taken        \* history: how many bytes read has returned

ring == <<aucBuffer, iHead, iTail>>
vars == <<local, ring, dr, isr, reader, arrived, taken>>

Init ==
  /\ local \in BOOLEAN
  /\ aucBuffer = [i \in Indices |-> None] /\ iHead = 0 /\ iTail = 0
  /\ dr = None
  /\ isr = [pc |-> "off", above |-> FALSE, c |-> None]
  /\ reader = [pc |-> "idle", byte |-> None]
  /\ arrived = 0 /\ taken = 0

\* (index + 1) % N.
nextIndex(i) == IF i + 1 = N THEN 0 ELSE i + 1

\* Mutant: a ring whose bytes wrap around counts as empty.
availableUnwrapped == IF iHead < iTail THEN 0 ELSE iHead - iTail

available == IF iHead < iTail THEN N + iHead - iTail ELSE iHead - iTail

\* A byte arrives; with the FIFOs off, one that finds the data register
\* full is lost.
Arrive ==
  /\ arrived < Budget /\ arrived' = arrived + 1
  /\ \E b \in Bytes : dr' = IF dr = None THEN b ELSE dr
  /\ UNCHANGED <<local, ring, isr, reader, taken>>
-----------------------------------------------------------------------------
(* isr_save, in the UART's interrupt *)

Masked == local /\ reader.pc \in {"load", "step", "done"}

\* The interrupt is raised as long as the UART holds a byte.
Raised == dr # None /\ ~Masked

IsrGoto(pc) == isr' = [isr EXCEPT !.pc = pc]

IsrEnter ==
  /\ isr.pc = "off" /\ Raised
  /\ IsrGoto("test")
  /\ UNCHANGED <<local, ring, dr, reader, arrived, taken>>

IsrTest ==
  /\ isr.pc = "test"
  /\ IsrGoto(IF dr = None THEN "off" ELSE "compare")
  /\ UNCHANGED <<local, ring, dr, reader, arrived, taken>>

\* availableForStore loads the volatile tail twice.
IsrCompare ==
  /\ isr.pc = "compare"
  /\ isr' = [isr EXCEPT !.pc = "room", !.above = iHead >= iTail]
  /\ UNCHANGED <<local, ring, dr, reader, arrived, taken>>

\* Mutant: the ring takes N bytes.
AnyRoom(above) == TRUE

\* Room for a byte, of a tail that may have moved since the comparison.
Room(above) ==
  IF above THEN iHead # N - 1 + iTail ELSE iTail # iHead + 1

\* Without room the byte stays in the UART, and its interrupt raised.
IsrRoom ==
  /\ isr.pc = "room"
  /\ IsrGoto(IF Room(isr.above) THEN "get" ELSE "off")
  /\ UNCHANGED <<local, ring, dr, reader, arrived, taken>>

IsrGet ==
  /\ isr.pc = "get"
  /\ isr' = [isr EXCEPT !.pc = "store", !.c = dr]
  /\ dr' = None
  /\ UNCHANGED <<local, ring, reader, arrived, taken>>

\* Mutant: the head names the last byte stored.
LastSlot == nextIndex(iHead)

StoreSlot == iHead

IsrStore ==
  /\ isr.pc = "store"
  /\ IF nextIndex(iHead) # iTail
     THEN /\ aucBuffer' = [aucBuffer EXCEPT ![StoreSlot] = isr.c]
          /\ IsrGoto("advance")
     ELSE IsrGoto("test") /\ UNCHANGED aucBuffer
  /\ UNCHANGED <<local, iHead, iTail, dr, reader, arrived, taken>>

IsrAdvance ==
  /\ isr.pc = "advance"
  /\ iHead' = nextIndex(iHead)
  /\ isr' = [isr EXCEPT !.pc = "test", !.c = None]
  /\ UNCHANGED <<local, aucBuffer, iTail, dr, reader, arrived, taken>>

IsrStep ==
  IsrEnter \/ IsrTest \/ IsrCompare \/ IsrRoom \/ IsrGet \/ IsrStore \/ IsrAdvance
-----------------------------------------------------------------------------
(* read, in the thread *)

\* A raised interrupt and its handler keep the thread of their core from
\* running, also between two activations.
Runs == local => isr.pc = "off" /\ ~Raised

\* available, outside the critical section: with no byte read returns -1.
ReadTest ==
  /\ reader.pc = "idle" /\ Runs
  /\ reader' = [pc |-> IF available # 0 THEN "mask" ELSE "idle", byte |-> None]
  /\ UNCHANGED <<local, ring, dr, isr, arrived, taken>>

\* ENTER_CRITICAL.
ReadMask ==
  /\ reader.pc = "mask" /\ Runs
  /\ reader' = [reader EXCEPT !.pc = "load"]
  /\ UNCHANGED <<local, ring, dr, isr, arrived, taken>>

\* read_char; its -1 for an empty ring would be returned as the byte 255.
ReadLoad ==
  /\ reader.pc = "load"
  /\ reader' = IF iTail = iHead
               THEN [pc |-> "done", byte |-> None]
               ELSE [pc |-> "step", byte |-> aucBuffer[iTail]]
  /\ UNCHANGED <<local, ring, dr, isr, arrived, taken>>

ReadStep ==
  /\ reader.pc = "step"
  /\ iTail' = nextIndex(iTail)
  /\ reader' = [reader EXCEPT !.pc = "done"]
  /\ taken' = taken + 1
  /\ UNCHANGED <<local, aucBuffer, iHead, dr, isr, arrived>>

\* EXIT_CRITICAL.
ReadDone ==
  /\ reader.pc = "done"
  /\ reader' = [reader EXCEPT !.pc = "idle"]
  /\ UNCHANGED <<local, ring, dr, isr, arrived, taken>>

ReaderStep == ReadTest \/ ReadMask \/ ReadLoad \/ ReadStep \/ ReadDone

Next == Arrive \/ IsrStep \/ ReaderStep

Spec == Init /\ [][Next]_vars

\* The processors run, and the program reads Serial again and again.
Fairness == WF_vars(IsrStep) /\ SF_vars(ReaderStep)

FairSpec == Spec /\ Fairness
-----------------------------------------------------------------------------
(* Properties *)

\* The index k places behind i.
SlotAfter(i, k) == IF i + k < N THEN i + k ELSE i + k - N

\* The bytes in the ring, oldest first.
Contents == [k \in 1..available |-> aucBuffer[SlotAfter(iTail, k - 1)]]

Returned == IF reader.pc \in {"idle", "done"} THEN reader.byte ELSE None
Capacity(q) == N - 1

Fifo == INSTANCE AbstractQueue WITH
  Contexts <- {"reader"}, Objects <- {"rx"}, Values <- Bytes, Count <- Capacity,
  contents <- [q \in {"rx"} |-> Contents], got <- [x \in {"reader"} |-> Returned]

\* Without a lock the ring is a FIFO of N - 1 bytes: read returns the bytes
\* in the order the handler took them, each once and none half stored,
\* whichever core the reader runs on.
AbstractSpec == Fifo!Spec

TypeOK ==
  /\ local \in BOOLEAN
  /\ aucBuffer \in [Indices -> Bytes \cup {None}] /\ iHead \in Indices /\ iTail \in Indices
  /\ dr \in Bytes \cup {None}
  /\ isr \in [pc : {"off", "test", "compare", "room", "get", "store", "advance"},
              above : BOOLEAN, c : Bytes \cup {None}]
  /\ reader \in [pc : {"idle", "mask", "load", "step", "done"}, byte : Bytes \cup {None}]
  /\ arrived \in 0..Budget /\ taken \in Nat

\* What the handler found of room, and the reader of bytes, is still there
\* when they use it, although the other side goes on in between: store_char
\* drops no byte that was taken from the UART, and read_char never returns
\* the -1 that read would pass on as the byte 255.
ChecksHold ==
  /\ isr.pc = "store" => nextIndex(iHead) # iTail
  /\ reader.pc = "load" => iTail # iHead

\* The reader's core is kept by the interrupt: the ring is full and the
\* UART has another byte.
Starved == local /\ dr # None /\ nextIndex(iHead) = iTail

\* A byte in the ring is returned, unless the ring runs full under a reader
\* on the core that takes the interrupt: isr_save leaves the byte in the
\* UART and the interrupt raised, and the reader never runs again.
BytesRead ==
  \A k \in 0..Budget : taken = k /\ iHead # iTail ~> taken > k \/ Starved
=============================================================================
