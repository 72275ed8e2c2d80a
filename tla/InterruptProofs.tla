------------------------- MODULE InterruptProofs -------------------------
(***************************************************************************)
(* Proofs about two components that are executed by interrupts: the        *)
(* receiving side of Serial (SerialUart) and the chains of shared handlers *)
(* (IrqChain).                                                             *)
(*                                                                         *)
(* SerialUart, for any size of the ring and any bytes: the inductive       *)
(* invariant says what each side knows although the other goes on: the     *)
(* handler that found room keeps it, for the tail only runs after the      *)
(* head, and the reader that saw a byte keeps it, for nobody else moves    *)
(* the tail.                                                               *)
(*                                                                         *)
(* IrqChain, for any number of slots, vectors and handlers: there is a     *)
(* layout of the slots, which says of each in which list and at which      *)
(* place it stands, and the links follow it.  Every function moves one     *)
(* slot from a list to another (Move).                                     *)
(***************************************************************************)
EXTENDS
  SerialUart, IrqChain, FiniteSetTheorems, SequenceTheorems,
  WellFoundedInduction, TLAPS
-----------------------------------------------------------------------------
(* SerialUart *)

\* The bytes between the tail and the head have been stored.
Filled == \A k \in Nat : k < available => aucBuffer[SlotAfter(iTail, k)] \in Bytes

\* availableForStore compares with a tail that moves on before it is loaded
\* again, but never past the head.
RoomInv ==
  isr.pc = "room" => IF isr.above THEN iTail <= iHead ELSE iHead < N - 1

HandlerInv ==
  /\ isr.pc \in {"get", "store", "advance"} => nextIndex(iHead) # iTail
  /\ isr.pc \in {"compare", "room", "get"} => dr # None
  /\ isr.pc = "store" => isr.c # None
  /\ isr.pc = "advance" => aucBuffer[iHead] \in Bytes

ReaderInv ==
  /\ reader.pc \in {"mask", "load", "step"} => iHead # iTail
  /\ reader.pc = "step" => reader.byte = aucBuffer[iTail]

IndInv == TypeOK /\ Filled /\ RoomInv /\ HandlerInv /\ ReaderInv

LEMMA ConstantFacts == N \in Nat /\ N > 1 /\ 0 \in Indices /\ None \notin Bytes
BY SerialUartAssumption DEF Indices

LEMMA NextFacts ==
  ASSUME NEW i \in Indices
  PROVE  /\ nextIndex(i) \in Indices
         /\ nextIndex(i) = IF i = N - 1 THEN 0 ELSE i + 1
         /\ nextIndex(i) # i
BY ConstantFacts DEF Indices, nextIndex

\* The level between two indices, and the slots it covers.
LEMMA LevelFacts ==
  ASSUME iHead \in Indices, iTail \in Indices
  PROVE  /\ available \in Nat /\ available < N
         /\ available = 0 <=> iHead = iTail
         /\ SlotAfter(iTail, available) = iHead
         /\ \A k \in Nat : k < N => SlotAfter(iTail, k) \in Indices
BY ConstantFacts DEF Indices, available, SlotAfter

\* A byte is added at the head.
LEMMA AdvanceFacts ==
  ASSUME iHead \in Indices, iTail \in Indices, nextIndex(iHead) # iTail,
         iHead' = nextIndex(iHead), iTail' = iTail
  PROVE  /\ available' = available + 1
         /\ available < N - 1
         /\ \A k \in Nat : SlotAfter(iTail, k)' = SlotAfter(iTail, k)
BY ConstantFacts DEF Indices, available, SlotAfter, nextIndex

\* A byte leaves at the tail.
LEMMA StepFacts ==
  ASSUME iHead \in Indices, iTail \in Indices, iHead # iTail,
         iTail' = nextIndex(iTail), iHead' = iHead
  PROVE  /\ available > 0 /\ available' = available - 1
         /\ \A k \in Nat : k < N - 1 => SlotAfter(iTail, k)' = SlotAfter(iTail, k + 1)
         /\ SlotAfter(iTail, 0) = iTail
         /\ nextIndex(iHead)' # iTail'
BY ConstantFacts DEF Indices, available, SlotAfter, nextIndex

\* Two places behind the tail are different slots.
LEMMA SlotsDiffer ==
  ASSUME iHead \in Indices, iTail \in Indices, NEW k \in Nat, k < available
  PROVE  SlotAfter(iTail, k) # iHead
BY ConstantFacts DEF Indices, available, SlotAfter

LEMMA InitInd == Init => IndInv
<1> SUFFICES ASSUME Init PROVE IndInv
  OBVIOUS
<1>1. TypeOK
  BY ConstantFacts, SerialUartAssumption DEF Init, TypeOK, Indices
<1>2. available = 0
  BY DEF Init, available
<1>3. Filled
  BY <1>2 DEF Filled
<1> QED BY <1>1, <1>3 DEF Init, IndInv, RoomInv, HandlerInv, ReaderInv

\* Arrivals, and the steps of the handler that move no index.
LEMMA QuietInd ==
  ASSUME IndInv,
         Arrive \/ IsrEnter \/ IsrTest \/ IsrCompare \/ IsrRoom \/ IsrGet
  PROVE  IndInv'
<1>1. UNCHANGED <<ring, reader, local, taken>>
  BY DEF Arrive, IsrEnter, IsrTest, IsrCompare, IsrRoom, IsrGet, IsrGoto
<1>2. iHead \in Indices /\ iTail \in Indices /\ iHead' = iHead /\ iTail' = iTail
  BY <1>1 DEF IndInv, TypeOK, ring
<1>3. TypeOK'
  <2>1. arrived' \in 0..Budget /\ dr' \in Bytes \cup {None}
    BY SerialUartAssumption
       DEF IndInv, TypeOK, Arrive, IsrEnter, IsrTest, IsrCompare, IsrRoom, IsrGet
  <2>2. isr' \in [pc : {"off", "test", "compare", "room", "get", "store", "advance"},
                  above : BOOLEAN, c : Bytes \cup {None}]
    <3>1. /\ isr \in [pc : {"off", "test", "compare", "room", "get", "store", "advance"},
                      above : BOOLEAN, c : Bytes \cup {None}]
          /\ dr \in Bytes \cup {None} /\ (iHead >= iTail) \in BOOLEAN
      BY DEF IndInv, TypeOK
    <3>2. CASE IsrGet
      BY <3>1, <3>2 DEF IsrGet
    <3>3. CASE IsrCompare
      BY <3>1, <3>3 DEF IsrCompare
    <3>4. CASE Arrive \/ IsrEnter \/ IsrTest \/ IsrRoom
      BY <3>1, <3>4 DEF Arrive, IsrEnter, IsrTest, IsrRoom, IsrGoto
    <3> QED BY <3>2, <3>3, <3>4
  <2> QED BY <1>1, <2>1, <2>2 DEF IndInv, TypeOK, ring
<1>4. Filled' /\ ReaderInv'
  BY <1>1 DEF IndInv, Filled, ReaderInv, ring, available, SlotAfter
<1>5. RoomInv'
  <2>1. CASE IsrCompare
    <3>1. isr'.pc = "room" /\ isr'.above = (iHead >= iTail)
      BY <2>1 DEF IsrCompare, IndInv, TypeOK
    <3>2. CASE iHead >= iTail
      BY <3>1, <3>2, <1>2, ConstantFacts DEF RoomInv, Indices
    <3>3. CASE ~(iHead >= iTail)
      <4>1. ~isr'.above
        BY <3>1, <3>3
      <4> QED BY <4>1, <3>3, <1>2, ConstantFacts DEF RoomInv, Indices
    <3> QED BY <3>2, <3>3
  <2>2. CASE Arrive
    <3>1. isr' = isr
      BY <2>2 DEF Arrive
    <3> QED BY <3>1, <1>2 DEF IndInv, RoomInv
  <2>3. CASE IsrEnter \/ IsrTest \/ IsrRoom \/ IsrGet
    <3>1. isr'.pc # "room"
      BY <2>3 DEF IsrEnter, IsrTest, IsrRoom, IsrGet, IsrGoto, IndInv, TypeOK
    <3> QED BY <3>1 DEF RoomInv
  <2> QED BY <2>1, <2>2, <2>3
<1>6. HandlerInv'
  <2>1. CASE IsrRoom
    <3>1. Room(isr.above) => nextIndex(iHead) # iTail
      BY <2>1, <1>2, ConstantFacts DEF IndInv, RoomInv, IsrRoom, Room, nextIndex, Indices
    <3> QED BY <2>1, <3>1, <1>1 DEF IndInv, TypeOK, HandlerInv, IsrRoom, IsrGoto, ring, nextIndex
  <2>2. CASE Arrive
    BY <2>2, <1>1, ConstantFacts DEF Arrive, IndInv, HandlerInv, ring, nextIndex
  <2>3. CASE IsrGet
    <3>1. dr \in Bytes /\ isr'.pc = "store" /\ isr'.c = dr /\ nextIndex(iHead) # iTail
      BY <2>3, ConstantFacts DEF IsrGet, IndInv, TypeOK, HandlerInv
    <3> QED BY <3>1, <1>1, ConstantFacts DEF HandlerInv, ring, nextIndex
  <2>4. CASE IsrEnter \/ IsrTest \/ IsrCompare
    <3>1. /\ isr'.pc \in {"off", "test", "compare", "room"}
          /\ isr'.pc \in {"compare", "room"} => dr' # None
      BY <2>4 DEF IsrEnter, IsrTest, IsrCompare, IsrGoto, IndInv, TypeOK, HandlerInv
    <3> QED BY <3>1 DEF HandlerInv
  <2> QED BY <2>1, <2>2, <2>3, <2>4
<1> QED BY <1>3, <1>4, <1>5, <1>6 DEF IndInv

LEMMA IsrStoreInd == ASSUME IndInv, IsrStore PROVE IndInv'
<1>1. /\ isr.pc = "store" /\ isr.c \in Bytes /\ nextIndex(iHead) # iTail
      /\ iHead \in Indices /\ iTail \in Indices
  BY DEF IndInv, TypeOK, HandlerInv, IsrStore
<1>2. /\ aucBuffer' = [aucBuffer EXCEPT ![iHead] = isr.c]
      /\ isr' = [isr EXCEPT !.pc = "advance"]
      /\ UNCHANGED <<local, iHead, iTail, dr, reader, arrived, taken>>
  BY <1>1 DEF IsrStore, StoreSlot, IsrGoto
<1>3. TypeOK' /\ RoomInv' /\ HandlerInv'
  BY <1>1, <1>2 DEF IndInv, TypeOK, RoomInv, HandlerInv, nextIndex
<1>4. Filled'
  <2> SUFFICES ASSUME NEW k \in Nat, k < available
               PROVE  aucBuffer'[SlotAfter(iTail, k)] \in Bytes
    BY <1>2 DEF Filled, available, SlotAfter
  <2>1. SlotAfter(iTail, k) # iHead
    BY <1>1, SlotsDiffer
  <2>2. SlotAfter(iTail, k) \in Indices
    BY <1>1, LevelFacts, ConstantFacts
  <2> QED BY <2>1, <2>2, <1>2 DEF IndInv, Filled, TypeOK
<1>5. ReaderInv'
  BY <1>1, <1>2 DEF IndInv, TypeOK, ReaderInv
<1> QED BY <1>3, <1>4, <1>5 DEF IndInv

LEMMA IsrAdvanceInd == ASSUME IndInv, IsrAdvance PROVE IndInv'
<1>1. /\ isr.pc = "advance" /\ aucBuffer[iHead] \in Bytes /\ nextIndex(iHead) # iTail
      /\ iHead \in Indices /\ iTail \in Indices
  BY DEF IndInv, TypeOK, HandlerInv, IsrAdvance
<1>2. /\ iHead' = nextIndex(iHead)
      /\ isr' = [isr EXCEPT !.pc = "test", !.c = None]
      /\ UNCHANGED <<local, aucBuffer, iTail, dr, reader, arrived, taken>>
  BY DEF IsrAdvance
<1>3. TypeOK' /\ RoomInv' /\ HandlerInv'
  BY <1>1, <1>2, NextFacts DEF IndInv, TypeOK, RoomInv, HandlerInv
<1>4. Filled'
  <2> SUFFICES ASSUME NEW k \in Nat, k < available'
               PROVE  aucBuffer[SlotAfter(iTail, k)] \in Bytes
    BY <1>2 DEF Filled, available, SlotAfter
  <2>1. k < available \/ k = available
    BY <1>1, <1>2, AdvanceFacts, LevelFacts
  <2> QED BY <2>1, <1>1, LevelFacts DEF IndInv, Filled
<1>5. ReaderInv'
  BY <1>1, <1>2 DEF IndInv, TypeOK, ReaderInv
<1> QED BY <1>3, <1>4, <1>5 DEF IndInv

\* The steps of the reader that move no index.
LEMMA ReadInd ==
  ASSUME IndInv, ReadTest \/ ReadMask \/ ReadLoad \/ ReadDone
  PROVE  IndInv'
<1>1. /\ UNCHANGED <<local, ring, dr, isr, arrived, taken>>
      /\ iHead \in Indices /\ iTail \in Indices
  BY DEF IndInv, TypeOK, ReadTest, ReadMask, ReadLoad, ReadDone
<1>2. aucBuffer[iTail] \in Bytes \cup {None}
  BY <1>1 DEF IndInv, TypeOK
<1>3. TypeOK'
  BY <1>1, <1>2 DEF IndInv, TypeOK, ring, ReadTest, ReadMask, ReadLoad, ReadDone
<1>4. Filled' /\ RoomInv' /\ HandlerInv'
  BY <1>1 DEF IndInv, Filled, RoomInv, HandlerInv, ring, available, SlotAfter, nextIndex
<1>5. ReaderInv'
  BY <1>1, LevelFacts
     DEF IndInv, TypeOK, ReaderInv, ring, ReadTest, ReadMask, ReadLoad, ReadDone
<1> QED BY <1>3, <1>4, <1>5 DEF IndInv

LEMMA ReadStepInd == ASSUME IndInv, ReadStep PROVE IndInv'
<1>1. /\ reader.pc = "step" /\ iHead # iTail
      /\ iHead \in Indices /\ iTail \in Indices
  BY DEF IndInv, TypeOK, ReaderInv, ReadStep
<1>2. /\ iTail' = nextIndex(iTail)
      /\ reader' = [reader EXCEPT !.pc = "done"]
      /\ taken' = taken + 1
      /\ UNCHANGED <<local, aucBuffer, iHead, dr, isr, arrived>>
  BY DEF ReadStep
<1>3. TypeOK'
  BY <1>1, <1>2, NextFacts DEF IndInv, TypeOK
<1>4. Filled'
  <2> SUFFICES ASSUME NEW k \in Nat, k < available'
               PROVE  aucBuffer[SlotAfter(iTail, k)'] \in Bytes
    BY <1>2 DEF Filled, SlotAfter
  <2>1. /\ k + 1 < available /\ k < N - 1 /\ k + 1 \in Nat
        /\ SlotAfter(iTail, k)' = SlotAfter(iTail, k + 1)
    BY <1>1, <1>2, StepFacts, LevelFacts, ConstantFacts
  <2> QED BY <2>1 DEF IndInv, Filled
<1>5. RoomInv'
  BY <1>1, <1>2, NextFacts, ConstantFacts DEF IndInv, RoomInv, Indices
<1>6. HandlerInv'
  BY <1>1, <1>2, StepFacts DEF IndInv, HandlerInv
<1>7. ReaderInv'
  BY <1>1, <1>2 DEF IndInv, TypeOK, ReaderInv
<1> QED BY <1>3, <1>4, <1>5, <1>6, <1>7 DEF IndInv

LEMMA NextInd == IndInv /\ [Next]_vars => IndInv'
<1>1. ASSUME IndInv, UNCHANGED vars PROVE IndInv'
  BY <1>1 DEF IndInv, vars, ring, TypeOK, Filled, RoomInv, HandlerInv, ReaderInv,
              available, SlotAfter, nextIndex
<1>2. ASSUME IndInv, Next PROVE IndInv'
  BY <1>2, QuietInd, IsrStoreInd, IsrAdvanceInd, ReadInd, ReadStepInd
     DEF Next, IsrStep, ReaderStep
<1> QED BY <1>1, <1>2

LEMMA Invariance == Spec => []IndInv
BY InitInd, NextInd, PTL DEF Spec

\* Every variable keeps its type: the indices stay in the ring.
THEOREM TypeCorrect == Spec => []TypeOK
<1>1. IndInv => TypeOK
  BY DEF IndInv
<1> QED BY <1>1, Invariance, PTL

\* What the handler found of room and the reader of bytes is still there when
\* they use it, for a ring of any size.
THEOREM ChecksStayTrue == Spec => []ChecksHold
<1>1. IndInv => ChecksHold
  BY DEF IndInv, HandlerInv, ReaderInv, ChecksHold
<1> QED BY <1>1, Invariance, PTL
-----------------------------------------------------------------------------
(* The ring implements the queue of AbstractQueue. *)

\* SlotAfter of the first places, which Contents counts from 1.
LEMMA ContentsFacts ==
  ASSUME iHead \in Indices, iTail \in Indices
  PROVE  /\ DOMAIN Contents = 1..available
         /\ \A k \in 1..available : Contents[k] = aucBuffer[SlotAfter(iTail, k - 1)]
BY DEF Contents

ContentsInv == Contents \in Seq(Bytes) /\ Len(Contents) = available

LEMMA ContentsSeq == IndInv => ContentsInv
<1> SUFFICES ASSUME IndInv
             PROVE  Contents \in Seq(Bytes) /\ Len(Contents) = available
  BY DEF ContentsInv
<1>1. iHead \in Indices /\ iTail \in Indices /\ available \in Nat
  BY LevelFacts DEF IndInv, TypeOK
<1>2. ASSUME NEW k \in 1..available PROVE aucBuffer[SlotAfter(iTail, k - 1)] \in Bytes
  <2>1. k - 1 \in Nat /\ k - 1 < available
    BY <1>1
  <2> QED BY <2>1 DEF IndInv, Filled
<1>3. Contents \in [1..available -> Bytes]
  BY <1>2 DEF Contents
<1> QED BY <1>1, <1>3, SeqDef, LenProperties

LEMMA ContentsSeqNext == IndInv' => ContentsInv'
BY ContentsSeq, PTL

\* The handler's store of the head adds the byte.
LEMMA AddedContents ==
  ASSUME IndInv, IndInv', IsrAdvance
  PROVE  Contents' = Append(Contents, aucBuffer[iHead]) /\ Len(Contents) < N - 1
<1>1. /\ iHead \in Indices /\ iTail \in Indices /\ nextIndex(iHead) # iTail
      /\ iHead' = nextIndex(iHead) /\ iTail' = iTail /\ aucBuffer' = aucBuffer
      /\ aucBuffer[iHead] \in Bytes
  BY DEF IndInv, TypeOK, HandlerInv, IsrAdvance
<1>2. /\ available' = available + 1 /\ available \in Nat /\ available < N - 1
      /\ SlotAfter(iTail, available) = iHead
  BY <1>1, AdvanceFacts, LevelFacts
<1>3. /\ Contents \in Seq(Bytes) /\ Len(Contents) = available
      /\ Contents' \in Seq(Bytes) /\ Len(Contents') = available'
  BY ContentsSeq, ContentsSeqNext DEF ContentsInv
<1>4. ASSUME NEW k \in 1..(available + 1)
      PROVE  Contents'[k] = Append(Contents, aucBuffer[iHead])[k]
  <2>0. k = available + 1 \/ k \in 1..available
    BY <1>2
  <2>1. Contents'[k] = aucBuffer[SlotAfter(iTail, k - 1)]
    BY <1>1, <1>2 DEF Contents, SlotAfter
  <2>2. CASE k = available + 1
    <3>1. k - 1 = available
      BY <2>2, <1>2
    <3>2. Append(Contents, aucBuffer[iHead])[k] = aucBuffer[iHead]
      BY <2>2, <1>1, <1>3, AppendProperties
    <3> QED BY <2>1, <3>1, <3>2, <1>2
  <2>3. CASE k \in 1..available
    <3>1. Contents[k] = aucBuffer[SlotAfter(iTail, k - 1)]
      BY <2>3 DEF Contents
    <3>2. Append(Contents, aucBuffer[iHead])[k] = Contents[k]
      BY <2>3, <1>1, <1>3, AppendProperties
    <3> QED BY <2>1, <3>1, <3>2
  <2> QED BY <2>0, <2>2, <2>3
<1>5. /\ Append(Contents, aucBuffer[iHead]) \in Seq(Bytes)
      /\ Len(Append(Contents, aucBuffer[iHead])) = available + 1
  BY <1>1, <1>3, AppendProperties
<1> QED BY <1>2, <1>3, <1>4, <1>5, SeqEqual

\* The reader's store of the tail removes the byte it has loaded.
LEMMA RemovedContents ==
  ASSUME IndInv, IndInv', ReadStep
  PROVE  /\ Contents # << >> /\ Head(Contents) = reader.byte
         /\ Contents' = Tail(Contents)
<1>1. /\ iHead \in Indices /\ iTail \in Indices /\ iHead # iTail
      /\ iTail' = nextIndex(iTail) /\ iHead' = iHead /\ aucBuffer' = aucBuffer
      /\ reader.byte = aucBuffer[iTail]
  BY DEF IndInv, TypeOK, ReaderInv, ReadStep
<1>2. /\ available \in Nat /\ available > 0 /\ available < N /\ available' = available - 1
      /\ SlotAfter(iTail, 0) = iTail
  BY <1>1, StepFacts, LevelFacts
<1>3. /\ Contents \in Seq(Bytes) /\ Len(Contents) = available
      /\ Contents' \in Seq(Bytes) /\ Len(Contents') = available'
  BY ContentsSeq, ContentsSeqNext DEF ContentsInv
<1>4. Contents # << >> /\ Head(Contents) = Contents[1]
  BY <1>2, <1>3, EmptySeq, HeadTailProperties
<1>5. Contents[1] = aucBuffer[iTail]
  BY <1>2 DEF Contents
<1>6. /\ Tail(Contents) \in Seq(Bytes) /\ Len(Tail(Contents)) = available - 1
      /\ \A k \in 1..(available - 1) : Tail(Contents)[k] = Contents[k + 1]
  BY <1>2, <1>3, <1>4, HeadTailProperties
<1>7. ASSUME NEW k \in 1..(available - 1) PROVE Contents'[k] = Tail(Contents)[k]
  <2>1. k - 1 \in Nat /\ k - 1 < N - 1 /\ (k - 1) + 1 = k /\ k + 1 \in 1..available
    BY <1>2, ConstantFacts
  <2>2. SlotAfter(iTail, k - 1)' = SlotAfter(iTail, k)
    BY <2>1, <1>1, StepFacts
  <2>3. Contents'[k] = aucBuffer[SlotAfter(iTail, k - 1)']
    BY <1>1, <1>2 DEF Contents, SlotAfter
  <2>4. Contents[k + 1] = aucBuffer[SlotAfter(iTail, k)]
    BY <2>1 DEF Contents
  <2> QED BY <2>2, <2>3, <2>4, <1>6
<1> QED BY <1>1, <1>2, <1>3, <1>4, <1>5, <1>6, <1>7, SeqEqual

\* Each step of the ring is a step of the queue or a stutter.
LEMMA NextFifo == IndInv /\ IndInv' /\ [Next]_vars => [Fifo!Next]_Fifo!vars
<1> DEFINE contents == [q \in {"rx"} |-> Contents]
           got == [x \in {"reader"} |-> Returned]
<1>1. ASSUME IndInv, IndInv', IsrAdvance PROVE [Fifo!Next]_Fifo!vars
  <2>1. Contents' = Append(Contents, aucBuffer[iHead]) /\ Len(Contents) < N - 1
    BY <1>1, AddedContents
  <2>2. aucBuffer[iHead] \in Bytes /\ Returned' = Returned
    BY <1>1 DEF IndInv, HandlerInv, IsrAdvance, Returned
  <2>3. Fifo!Add("rx", aucBuffer[iHead])
    BY <2>1, <2>2 DEF Fifo!Add, Capacity
  <2> QED BY <2>2, <2>3 DEF Fifo!Next
<1>2. ASSUME IndInv, IndInv', ReadStep PROVE [Fifo!Next]_Fifo!vars
  <2>1. Contents # << >> /\ Head(Contents) = reader.byte /\ Contents' = Tail(Contents)
    BY <1>2, RemovedContents
  <2>2. Returned' = reader.byte
    BY <1>2 DEF IndInv, TypeOK, ReadStep, Returned
  <2>3. Fifo!Remove("reader", "rx")
    BY <2>1, <2>2 DEF Fifo!Remove
  <2> QED BY <2>3 DEF Fifo!Next
<1>3. ASSUME IndInv, ReadTest PROVE [Fifo!Next]_Fifo!vars
  <2>1. Contents' = Contents /\ Returned' = None
    BY <1>3 DEF ReadTest, ring, Contents, Returned, available, SlotAfter
  <2>2. Fifo!Fresh("reader")
    BY <2>1 DEF Fifo!Fresh
  <2> QED BY <2>2 DEF Fifo!Next
<1>4. ASSUME IndInv, IsrStore PROVE UNCHANGED Fifo!vars
  <2>1. Contents' = Contents
    <3>1. /\ isr.pc = "store" /\ nextIndex(iHead) # iTail
          /\ iHead \in Indices /\ iTail \in Indices /\ aucBuffer \in [Indices -> Bytes \cup {None}]
      BY <1>4 DEF IndInv, TypeOK, HandlerInv, IsrStore
    <3>2. /\ aucBuffer' = [aucBuffer EXCEPT ![iHead] = isr.c]
          /\ iHead' = iHead /\ iTail' = iTail
      BY <1>4, <3>1 DEF IsrStore, StoreSlot
    <3>3. ASSUME NEW k \in 1..available
          PROVE  aucBuffer'[SlotAfter(iTail, k - 1)] = aucBuffer[SlotAfter(iTail, k - 1)]
      <4>1. available \in Nat /\ available < N /\ k - 1 \in Nat /\ k - 1 < available
        BY <3>1, LevelFacts
      <4>2. SlotAfter(iTail, k - 1) # iHead
        BY <3>1, <4>1, SlotsDiffer
      <4>3. SlotAfter(iTail, k - 1) \in Indices
        BY <3>1, <4>1, LevelFacts, ConstantFacts
      <4> QED BY <3>1, <3>2, <4>2, <4>3
    <3> QED BY <3>2, <3>3 DEF Contents, available, SlotAfter
  <2>2. Returned' = Returned
    BY <1>4 DEF IsrStore, Returned
  <2> QED BY <2>1, <2>2 DEF Fifo!vars
<1>5. ASSUME IndInv, ReadMask \/ ReadLoad \/ ReadDone PROVE [Fifo!Next]_Fifo!vars
  <2>1. Contents' = Contents
    BY <1>5 DEF ReadMask, ReadLoad, ReadDone, ring, Contents, available, SlotAfter
  <2>2. Returned' = Returned \/ Returned' = None
    BY <1>5 DEF IndInv, TypeOK, ReadMask, ReadLoad, ReadDone, Returned
  <2>3. Returned' = None => Fifo!Fresh("reader")
    BY <2>1 DEF Fifo!Fresh
  <2>4. Returned' = Returned => UNCHANGED Fifo!vars
    BY <2>1 DEF Fifo!vars
  <2> QED BY <2>2, <2>3, <2>4 DEF Fifo!Next
<1>6. ASSUME Arrive \/ IsrEnter \/ IsrTest \/ IsrCompare \/ IsrRoom \/ IsrGet \/ UNCHANGED vars
      PROVE  UNCHANGED Fifo!vars
  BY <1>6 DEF Arrive, IsrEnter, IsrTest, IsrCompare, IsrRoom, IsrGet, vars, ring,
              Fifo!vars, Contents, Returned, available, SlotAfter
<1> QED BY <1>1, <1>2, <1>3, <1>4, <1>5, <1>6 DEF Next, IsrStep, ReaderStep

LEMMA InitFifo == Init => Fifo!Init
<1> SUFFICES ASSUME Init PROVE Fifo!Init
  OBVIOUS
<1>1. available = 0 /\ Returned = None
  BY DEF Init, available, Returned
<1>2. Contents = << >>
  BY <1>1 DEF Contents
<1> QED BY <1>1, <1>2 DEF Fifo!Init

\* The ring without a lock is a FIFO of N - 1 bytes, for every N.
THEOREM Implements == Spec => AbstractSpec
BY InitFifo, NextFifo, Invariance, PTL DEF Spec, AbstractSpec, Fifo!Spec
-----------------------------------------------------------------------------
(* IrqChain *)

\* A set of numbers has a least one.
LEMMA Least ==
  ASSUME NEW T, T \subseteq Nat, T # {}
  PROVE  \E n \in T : \A m \in T : n <= m
<1>1. IsWellFoundedOn(OpToRel(<, Nat), Nat)
  BY NatLessThanWellFounded
<1>2. \E n \in T : \A m \in T : ~(<<m, n>> \in OpToRel(<, Nat))
  BY <1>1, WFMin
<1>3. \A m, n \in Nat : m < n => <<m, n>> \in OpToRel(<, Nat)
  BY DEF OpToRel
<1>4. PICK n \in T : \A m \in T : ~(<<m, n>> \in OpToRel(<, Nat))
  BY <1>2
<1>5. \A m \in T : ~(m < n)
  BY <1>3, <1>4
<1>6. \A m \in T : n <= m
  BY <1>5
<1> QED
  BY <1>6
-----------------------------------------------------------------------------
(* The lists as data: the links of the slots and the first slot of each    *)
(* list.  The free list is the list of an owner that is no vector.         *)

Free == CHOOSE x : x \notin Vector
Owner == Vector \cup {Free}
Links == [s \in Slot |-> slots[s].link]
Firsts == [o \in Owner |-> IF o = Free THEN free_slot_head ELSE vtable[o]]

PlacesDiffer(owner, place) ==
  \A s, t \in Slot : owner[s] = owner[t] /\ place[s] = place[t] => s = t

PlacesFilled(owner, place, size) ==
  /\ \A s \in Slot : place[s] < size[owner[s]]
  /\ \A o \in Owner : \A k \in Nat : k < size[o] => \E s \in Slot : owner[s] = o /\ place[s] = k

LinksFollow(link, owner, place, size) ==
  \A s \in Slot :
    IF place[s] + 1 = size[owner[s]] THEN link[s] \notin Slot
    ELSE link[s] \in Slot /\ owner[link[s]] = owner[s] /\ place[link[s]] = place[s] + 1

FirstsFollow(first, owner, place, size) ==
  \A o \in Owner :
    IF size[o] = 0 THEN first[o] \notin Slot
    ELSE first[o] \in Slot /\ owner[first[o]] = o /\ place[first[o]] = 0

LayoutTypes(owner, place, size) ==
  owner \in [Slot -> Owner] /\ place \in [Slot -> Nat] /\ size \in [Owner -> Nat]

\* Slot s stands at place[s] of the list of owner[s], which has size[owner[s]]
\* slots, and the links say the same.
Layout(link, first, owner, place, size) ==
  /\ LayoutTypes(owner, place, size)
  /\ PlacesDiffer(owner, place) /\ PlacesFilled(owner, place, size)
  /\ LinksFollow(link, owner, place, size) /\ FirstsFollow(first, owner, place, size)

LEMMA FreeIsNoVector == Free \notin Vector
BY NoSetContainsEverything DEF Free

\* Links that end a list end it whatever they are.
Same(x, y) == x = y \/ (x \notin Slot /\ y \notin Slot)

\* Slot s leaves its list and stands at place j of the list of b.
MovedOwner(owner, s, b) == [owner EXCEPT ![s] = b]
MovedPlace(owner, place, s, b, j) ==
  [t \in Slot |-> IF t = s THEN j
                  ELSE IF owner[t] = owner[s] /\ place[t] > place[s] THEN place[t] - 1
                  ELSE IF owner[t] = b /\ place[t] >= j THEN place[t] + 1
                  ELSE place[t]]
MovedSize(owner, size, s, b) ==
  [o \in Owner |-> IF o = owner[s] THEN size[o] - 1 ELSE IF o = b THEN size[o] + 1 ELSE size[o]]

LinksMoved(link, first, link2, owner, place, s, b, j) ==
  /\ \A t \in Slot : t # s =>
       IF owner[t] = owner[s] /\ place[t] + 1 = place[s] THEN Same(link2[t], link[s])
       ELSE IF owner[t] = b /\ place[t] + 1 = j THEN link2[t] = s
       ELSE Same(link2[t], link[t])
  /\ IF j = 0 THEN Same(link2[s], first[b])
     ELSE \E t \in Slot : owner[t] = b /\ place[t] + 1 = j /\ Same(link2[s], link[t])

FirstsMoved(link, first, first2, owner, place, s, b, j) ==
  \A o \in Owner :
    IF o = owner[s] /\ place[s] = 0 THEN Same(first2[o], link[s])
    ELSE IF o = b /\ j = 0 THEN first2[o] = s
    ELSE Same(first2[o], first[o])

Movable(owner, size, s, b, j) == s \in Slot /\ b \in Owner /\ b # owner[s] /\ j \in 0..size[b]

LEMMA MoveFacts ==
  ASSUME NEW owner, NEW place, NEW size, NEW s, NEW b, NEW j,
         LayoutTypes(owner, place, size), PlacesDiffer(owner, place),
         PlacesFilled(owner, place, size), Movable(owner, size, s, b, j),
         NEW o2, NEW p2, NEW z2,
         o2 = MovedOwner(owner, s, b), p2 = MovedPlace(owner, place, s, b, j),
         z2 = MovedSize(owner, size, s, b)
  PROVE  /\ LayoutTypes(o2, p2, z2)
         /\ \A t \in Slot : o2[t] = IF t = s THEN b ELSE owner[t]
         /\ \A t \in Slot : p2[t] = IF t = s THEN j
                  ELSE IF owner[t] = owner[s] /\ place[t] > place[s] THEN place[t] - 1
                  ELSE IF owner[t] = b /\ place[t] >= j THEN place[t] + 1
                  ELSE place[t]
         /\ \A o \in Owner : z2[o] = IF o = owner[s] THEN size[o] - 1
                                     ELSE IF o = b THEN size[o] + 1 ELSE size[o]
<1> USE DEF LayoutTypes, Movable
<1>1. /\ \A t \in Slot : o2[t] = IF t = s THEN b ELSE owner[t]
      /\ o2 \in [Slot -> Owner]
  BY DEF MovedOwner
<1>2. \A t \in Slot : p2[t] = IF t = s THEN j
                  ELSE IF owner[t] = owner[s] /\ place[t] > place[s] THEN place[t] - 1
                  ELSE IF owner[t] = b /\ place[t] >= j THEN place[t] + 1
                  ELSE place[t]
  BY DEF MovedPlace
<1>3. p2 \in [Slot -> Nat]
  <2>1. \A t \in Slot : p2[t] \in Nat
    <3>1. j \in Nat /\ \A t \in Slot : place[t] \in Nat
      OBVIOUS
    <3> QED
      BY <1>2, <3>1
  <2>2. p2 = [t \in Slot |-> p2[t]]
    BY DEF MovedPlace
  <2> QED
    BY <2>1, <2>2
<1>4. \A o \in Owner : z2[o] = IF o = owner[s] THEN size[o] - 1
                               ELSE IF o = b THEN size[o] + 1 ELSE size[o]
  BY DEF MovedSize
<1>5. z2 \in [Owner -> Nat]
  <2>1. size[owner[s]] \in Nat /\ place[s] \in Nat /\ place[s] < size[owner[s]]
    BY DEF PlacesFilled
  <2>2. \A o \in Owner : z2[o] \in Nat
    BY <1>4, <2>1
  <2>3. z2 = [o \in Owner |-> z2[o]]
    BY DEF MovedSize
  <2> QED
    BY <2>2, <2>3
<1> QED
  BY <1>1, <1>2, <1>3, <1>4, <1>5

LEMMA MovePlaces ==
  ASSUME NEW owner, NEW place, NEW size, NEW s, NEW b, NEW j,
         LayoutTypes(owner, place, size), PlacesDiffer(owner, place),
         PlacesFilled(owner, place, size), Movable(owner, size, s, b, j),
         NEW o2, NEW p2, NEW z2,
         o2 = MovedOwner(owner, s, b), p2 = MovedPlace(owner, place, s, b, j),
         z2 = MovedSize(owner, size, s, b)
  PROVE  PlacesDiffer(o2, p2) /\ PlacesFilled(o2, p2, z2)
<1>1. /\ LayoutTypes(o2, p2, z2)
      /\ \A t \in Slot : o2[t] = IF t = s THEN b ELSE owner[t]
      /\ \A t \in Slot : p2[t] = IF t = s THEN j
                  ELSE IF owner[t] = owner[s] /\ place[t] > place[s] THEN place[t] - 1
                  ELSE IF owner[t] = b /\ place[t] >= j THEN place[t] + 1
                  ELSE place[t]
      /\ \A o \in Owner : z2[o] = IF o = owner[s] THEN size[o] - 1
                                  ELSE IF o = b THEN size[o] + 1 ELSE size[o]
  BY MoveFacts
<1>2. /\ \A t \in Slot : place[t] \in Nat /\ owner[t] \in Owner
      /\ \A o \in Owner : size[o] \in Nat
      /\ s \in Slot /\ b \in Owner /\ b # owner[s] /\ j \in Nat /\ j <= size[b]
  BY DEF LayoutTypes, Movable
<1>3. PlacesDiffer(o2, p2)
  <2> SUFFICES ASSUME NEW t \in Slot, NEW u \in Slot, o2[t] = o2[u], p2[t] = p2[u], t # u
               PROVE  FALSE
    BY DEF PlacesDiffer
  <2>1. t # s /\ u # s => owner[t] = owner[u] /\ place[t] # place[u]
    BY <1>1 DEF PlacesDiffer
  <2>2. owner[t] = owner[s] /\ t # s => place[t] # place[s]
    BY <1>2 DEF PlacesDiffer
  <2>3. owner[u] = owner[s] /\ u # s => place[u] # place[s]
    BY <1>2 DEF PlacesDiffer
  <2> QED
    BY <1>1, <1>2, <2>1, <2>2, <2>3
<1>4. \A t \in Slot : p2[t] < z2[o2[t]]
  <2> SUFFICES ASSUME NEW t \in Slot PROVE p2[t] < z2[o2[t]]
    OBVIOUS
  <2>1. place[t] < size[owner[t]] /\ place[s] < size[owner[s]]
    BY <1>2 DEF PlacesFilled
  <2>2. owner[t] = owner[s] /\ t # s => place[t] # place[s]
    BY <1>2 DEF PlacesDiffer
  <2> QED
    BY <1>1, <1>2, <2>1, <2>2
<1>5. ASSUME NEW o \in Owner, NEW k \in Nat, k < z2[o]
      PROVE  \E t \in Slot : o2[t] = o /\ p2[t] = k
  <2>1. CASE o = owner[s]
    <3>1. z2[o] = size[o] - 1
      BY <1>1, <2>1
    <3>2. k < size[o] /\ k + 1 < size[o] /\ k + 1 \in Nat
      BY <1>2, <1>5, <3>1
    <3>3. CASE k < place[s]
      <4>1. PICK t \in Slot : owner[t] = o /\ place[t] = k
        BY <3>2 DEF PlacesFilled
      <4>2. t # s /\ o2[t] = o
        BY <1>1, <1>2, <3>3, <4>1
      <4>3. p2[t] = k
        BY <1>1, <1>2, <2>1, <3>3, <4>1, <4>2
      <4> QED
        BY <4>2, <4>3
    <3>4. CASE ~(k < place[s])
      <4>1. PICK t \in Slot : owner[t] = o /\ place[t] = k + 1
        BY <3>2 DEF PlacesFilled
      <4>2. place[t] > place[s]
        BY <1>2, <3>4, <4>1
      <4>3. t # s /\ o2[t] = o
        BY <1>1, <1>2, <4>1, <4>2
      <4>4. p2[t] = k
        BY <1>1, <1>2, <2>1, <4>1, <4>2, <4>3
      <4> QED
        BY <4>3, <4>4
    <3> QED
      BY <3>3, <3>4
  <2>2. CASE o = b
    <3>1. z2[o] = size[o] + 1
      BY <1>1, <1>2, <2>2
    <3>2. CASE k = j
      BY <1>1, <1>2, <2>2, <3>2
    <3>3. CASE k < j
      <4>1. k < size[o]
        BY <1>2, <2>2, <3>3
      <4>2. PICK t \in Slot : owner[t] = o /\ place[t] = k
        BY <4>1 DEF PlacesFilled
      <4>3. t # s /\ o2[t] = o /\ p2[t] = k
        BY <1>1, <1>2, <2>2, <3>3, <4>2
      <4> QED
        BY <4>3
    <3>4. CASE k > j
      <4>1. k - 1 \in Nat /\ k - 1 < size[o] /\ k - 1 >= j
        BY <1>2, <1>5, <3>1, <3>4
      <4>2. PICK t \in Slot : owner[t] = o /\ place[t] = k - 1
        BY <4>1 DEF PlacesFilled
      <4>3. t # s /\ o2[t] = o
        BY <1>1, <1>2, <2>2, <4>2
      <4>4. p2[t] = (k - 1) + 1
        BY <1>1, <1>2, <2>2, <4>1, <4>2, <4>3
      <4> QED
        BY <4>3, <4>4
    <3> QED
      BY <1>2, <3>2, <3>3, <3>4
  <2>3. CASE o # b /\ o # owner[s]
    <3>1. k < size[o]
      BY <1>1, <1>5, <2>3
    <3>2. PICK t \in Slot : owner[t] = o /\ place[t] = k
      BY <3>1 DEF PlacesFilled
    <3>3. t # s /\ o2[t] = o /\ p2[t] = k
      BY <1>1, <1>2, <2>3, <3>2
    <3> QED
      BY <3>3
  <2> QED
    BY <2>1, <2>2, <2>3
<1> QED
  BY <1>3, <1>4, <1>5 DEF PlacesFilled

LEMMA MoveLinks ==
  ASSUME NEW link, NEW first, NEW link2, NEW first2,
         NEW owner, NEW place, NEW size, NEW s, NEW b, NEW j,
         Layout(link, first, owner, place, size), Movable(owner, size, s, b, j),
         LinksMoved(link, first, link2, owner, place, s, b, j),
         FirstsMoved(link, first, first2, owner, place, s, b, j),
         NEW o2, NEW p2, NEW z2,
         o2 = MovedOwner(owner, s, b), p2 = MovedPlace(owner, place, s, b, j),
         z2 = MovedSize(owner, size, s, b)
  PROVE  Layout(link2, first2, o2, p2, z2)
<1>1. /\ LayoutTypes(o2, p2, z2)
      /\ \A t \in Slot : o2[t] = IF t = s THEN b ELSE owner[t]
      /\ \A t \in Slot : p2[t] = IF t = s THEN j
                  ELSE IF owner[t] = owner[s] /\ place[t] > place[s] THEN place[t] - 1
                  ELSE IF owner[t] = b /\ place[t] >= j THEN place[t] + 1
                  ELSE place[t]
      /\ \A o \in Owner : z2[o] = IF o = owner[s] THEN size[o] - 1
                                  ELSE IF o = b THEN size[o] + 1 ELSE size[o]
  BY MoveFacts DEF Layout
<1>2. /\ \A t \in Slot : place[t] \in Nat /\ owner[t] \in Owner
      /\ \A o \in Owner : size[o] \in Nat
      /\ s \in Slot /\ b \in Owner /\ b # owner[s] /\ j \in Nat /\ j <= size[b]
  BY DEF Layout, LayoutTypes, Movable
<1>3. PlacesDiffer(o2, p2) /\ PlacesFilled(o2, p2, z2)
  BY MovePlaces DEF Layout
<1>4. /\ \A t \in Slot : place[t] < size[owner[t]]
      /\ \A t, u \in Slot : owner[t] = owner[u] /\ place[t] = place[u] => t = u
      /\ \A t \in Slot :
           IF place[t] + 1 = size[owner[t]] THEN link[t] \notin Slot
           ELSE link[t] \in Slot /\ owner[link[t]] = owner[t] /\ place[link[t]] = place[t] + 1
      /\ \A o \in Owner :
           IF size[o] = 0 THEN first[o] \notin Slot
           ELSE first[o] \in Slot /\ owner[first[o]] = o /\ place[first[o]] = 0
  BY DEF Layout, PlacesDiffer, PlacesFilled, LinksFollow, FirstsFollow
<1>5. /\ \A t \in Slot : t # s =>
           IF owner[t] = owner[s] /\ place[t] + 1 = place[s] THEN Same(link2[t], link[s])
           ELSE IF owner[t] = b /\ place[t] + 1 = j THEN link2[t] = s
           ELSE Same(link2[t], link[t])
      /\ IF j = 0 THEN Same(link2[s], first[b])
         ELSE \E t \in Slot : owner[t] = b /\ place[t] + 1 = j /\ Same(link2[s], link[t])
      /\ \A o \in Owner :
           IF o = owner[s] /\ place[s] = 0 THEN Same(first2[o], link[s])
           ELSE IF o = b /\ j = 0 THEN first2[o] = s
           ELSE Same(first2[o], first[o])
  BY DEF LinksMoved, FirstsMoved
<1>6. ASSUME NEW t \in Slot
      PROVE  IF p2[t] + 1 = z2[o2[t]] THEN link2[t] \notin Slot
             ELSE /\ link2[t] \in Slot /\ o2[link2[t]] = o2[t]
                  /\ p2[link2[t]] = p2[t] + 1
  <2>1. CASE t = s
    <3>0. o2[t] = b /\ p2[t] = j /\ z2[b] = size[b] + 1
      BY <1>1, <1>2, <2>1
    <3>1. CASE j = 0
      <4>1. Same(link2[s], first[b])
        BY <1>5, <3>1
      <4>2. CASE size[b] = 0
        BY <1>2, <1>4, <2>1, <3>0, <3>1, <4>1, <4>2 DEF Same
      <4>3. CASE size[b] # 0
        <5>1. link2[s] = first[b] /\ first[b] \in Slot /\ owner[first[b]] = b /\ place[first[b]] = 0
          BY <1>2, <1>4, <4>1, <4>3 DEF Same
        <5>2. o2[link2[s]] = b /\ p2[link2[s]] = 0 + 1
          BY <1>1, <1>2, <3>1, <5>1
        <5> QED
          BY <1>2, <2>1, <3>0, <3>1, <4>3, <5>1, <5>2
      <4> QED
        BY <4>2, <4>3
    <3>2. CASE j # 0
      <4>1. PICK u \in Slot : owner[u] = b /\ place[u] + 1 = j /\ Same(link2[s], link[u])
        BY <1>5, <3>2
      <4>2. CASE j = size[b]
        <5>1. link[u] \notin Slot
          BY <1>4, <4>1, <4>2
        <5> QED
          BY <1>2, <2>1, <3>0, <4>1, <4>2, <5>1 DEF Same
      <4>3. CASE j # size[b]
        <5>1. link[u] \in Slot /\ owner[link[u]] = b /\ place[link[u]] = j
          BY <1>4, <4>1, <4>3
        <5>2. link2[s] = link[u]
          BY <4>1, <5>1 DEF Same
        <5>3. o2[link2[s]] = b /\ p2[link2[s]] = j + 1
          BY <1>1, <1>2, <5>1, <5>2
        <5> QED
          BY <1>2, <2>1, <3>0, <4>3, <5>1, <5>2, <5>3
      <4> QED
        BY <4>2, <4>3
    <3> QED
      BY <3>1, <3>2
  <2>2. CASE t # s /\ owner[t] = owner[s]
    <3>0. o2[t] = owner[s] /\ z2[owner[s]] = size[owner[s]] - 1 /\ place[t] # place[s]
      BY <1>1, <1>2, <1>4, <2>2
    <3>1. CASE place[t] + 1 = place[s]
      <4>0. p2[t] = place[t] /\ Same(link2[t], link[s])
        BY <1>1, <1>2, <1>5, <2>2, <3>1
      <4>1. CASE place[s] + 1 = size[owner[s]]
        <5>1. link[s] \notin Slot
          BY <1>2, <1>4, <4>1
        <5> QED
          BY <1>2, <3>0, <3>1, <4>0, <4>1, <5>1 DEF Same
      <4>2. CASE place[s] + 1 # size[owner[s]]
        <5>1. link[s] \in Slot /\ owner[link[s]] = owner[s] /\ place[link[s]] = place[s] + 1
          BY <1>2, <1>4, <4>2
        <5>2. link2[t] = link[s] /\ link[s] # s
          BY <1>2, <4>0, <5>1 DEF Same
        <5>3. o2[link2[t]] = owner[s] /\ p2[link2[t]] = (place[s] + 1) - 1
          BY <1>1, <1>2, <5>1, <5>2
        <5> QED
          BY <1>2, <3>0, <3>1, <4>0, <4>2, <5>1, <5>2, <5>3
      <4> QED
        BY <4>1, <4>2
    <3>2. CASE place[t] + 1 # place[s]
      <4>0. Same(link2[t], link[t])
        BY <1>2, <1>5, <2>2, <3>2
      <4>1. CASE place[t] + 1 = size[owner[s]]
        <5>1. link[t] \notin Slot /\ place[t] > place[s]
          BY <1>2, <1>4, <2>2, <3>0, <4>1
        <5>2. p2[t] = place[t] - 1
          BY <1>1, <2>2, <5>1
        <5> QED
          BY <1>2, <3>0, <4>0, <4>1, <5>1, <5>2 DEF Same
      <4>2. CASE place[t] + 1 # size[owner[s]]
        <5>1. link[t] \in Slot /\ owner[link[t]] = owner[s] /\ place[link[t]] = place[t] + 1
          BY <1>4, <2>2, <4>2
        <5>2. link2[t] = link[t] /\ link[t] # s
          BY <3>2, <4>0, <5>1 DEF Same
        <5>3. o2[link2[t]] = owner[s]
          BY <1>1, <5>1, <5>2
        <5>4. p2[link2[t]] = p2[t] + 1
          BY <1>1, <1>2, <2>2, <3>0, <3>2, <5>1, <5>2
        <5>5. p2[t] + 1 # size[owner[s]] - 1
          <6>1. place[link[t]] < size[owner[s]]
            BY <1>4, <5>1
          <6>2. place[s] < size[owner[s]]
            BY <1>2, <1>4
          <6> QED
            BY <1>1, <1>2, <2>2, <3>0, <3>2, <4>2, <5>1, <6>1, <6>2
        <5> QED
          BY <3>0, <5>1, <5>2, <5>3, <5>4, <5>5
      <4> QED
        BY <4>1, <4>2
    <3> QED
      BY <3>1, <3>2
  <2>3. CASE t # s /\ owner[t] = b
    <3>0. o2[t] = b /\ z2[b] = size[b] + 1
      BY <1>1, <1>2, <2>3
    <3>1. CASE place[t] + 1 = j
      <4>1. p2[t] = place[t] /\ link2[t] = s
        BY <1>1, <1>2, <1>5, <2>3, <3>1
      <4>2. o2[s] = b /\ p2[s] = j
        BY <1>1, <1>2
      <4> QED
        BY <1>2, <3>0, <3>1, <4>1, <4>2
    <3>2. CASE place[t] + 1 # j
      <4>0. Same(link2[t], link[t])
        BY <1>2, <1>5, <2>3, <3>2
      <4>1. CASE place[t] + 1 = size[b]
        <5>1. link[t] \notin Slot /\ place[t] >= j
          BY <1>2, <1>4, <2>3, <3>2, <4>1
        <5>2. p2[t] = place[t] + 1
          BY <1>1, <1>2, <2>3, <5>1
        <5> QED
          BY <1>2, <3>0, <4>0, <4>1, <5>1, <5>2 DEF Same
      <4>2. CASE place[t] + 1 # size[b]
        <5>1. link[t] \in Slot /\ owner[link[t]] = b /\ place[link[t]] = place[t] + 1
          BY <1>4, <2>3, <4>2
        <5>2. link2[t] = link[t] /\ link[t] # s
          BY <1>2, <4>0, <5>1 DEF Same
        <5>3. o2[link2[t]] = b
          BY <1>1, <5>1, <5>2
        <5>4. p2[link2[t]] = p2[t] + 1
          BY <1>1, <1>2, <2>3, <3>2, <5>1, <5>2
        <5>5. p2[t] + 1 # size[b] + 1
          <6>1. place[t] < size[b]
            BY <1>4, <2>3
          <6> QED
            BY <1>1, <1>2, <2>3, <3>2, <4>2, <6>1
        <5> QED
          BY <3>0, <5>1, <5>2, <5>3, <5>4, <5>5
      <4> QED
        BY <4>1, <4>2
    <3> QED
      BY <3>1, <3>2
  <2>4. CASE owner[t] # owner[s] /\ owner[t] # b
    <3>1. t # s /\ o2[t] = owner[t] /\ p2[t] = place[t] /\ z2[owner[t]] = size[owner[t]]
      BY <1>1, <1>2, <2>4
    <3>2. Same(link2[t], link[t])
      BY <1>5, <2>4, <3>1
    <3>3. CASE place[t] + 1 = size[owner[t]]
      BY <1>4, <3>1, <3>2, <3>3 DEF Same
    <3>4. CASE place[t] + 1 # size[owner[t]]
      <4>1. link[t] \in Slot /\ owner[link[t]] = owner[t] /\ place[link[t]] = place[t] + 1
        BY <1>4, <3>4
      <4>2. link2[t] = link[t] /\ link[t] # s
        BY <2>4, <3>2, <4>1 DEF Same
      <4>3. o2[link2[t]] = owner[t] /\ p2[link2[t]] = place[t] + 1
        BY <1>1, <2>4, <4>1, <4>2
      <4> QED
        BY <3>1, <3>4, <4>1, <4>2, <4>3
    <3> QED
      BY <3>3, <3>4
  <2> QED
    BY <2>1, <2>2, <2>3, <2>4
<1>7. ASSUME NEW o \in Owner
      PROVE  IF z2[o] = 0 THEN first2[o] \notin Slot
             ELSE first2[o] \in Slot /\ o2[first2[o]] = o /\ p2[first2[o]] = 0
  <2>1. CASE o = owner[s]
    <3>0. z2[o] = size[o] - 1 /\ place[s] < size[o]
      BY <1>1, <1>2, <1>4, <2>1
    <3>1. CASE place[s] = 0
      <4>0. Same(first2[o], link[s])
        BY <1>5, <2>1, <3>1
      <4>1. CASE size[o] = 1
        <5>1. link[s] \notin Slot
          BY <1>2, <1>4, <2>1, <3>1, <4>1
        <5> QED
          BY <3>0, <4>0, <4>1, <5>1 DEF Same
      <4>2. CASE size[o] # 1
        <5>1. link[s] \in Slot /\ owner[link[s]] = o /\ place[link[s]] = 1
          BY <1>2, <1>4, <2>1, <3>1, <4>2
        <5>2. first2[o] = link[s] /\ link[s] # s
          BY <3>1, <4>0, <5>1 DEF Same
        <5>3. o2[first2[o]] = o /\ p2[first2[o]] = 0
          BY <1>1, <2>1, <3>1, <5>1, <5>2
        <5> QED
          BY <1>2, <3>0, <4>2, <5>1, <5>2, <5>3
      <4> QED
        BY <4>1, <4>2
    <3>2. CASE place[s] # 0
      <4>0. Same(first2[o], first[o])
        BY <1>2, <1>5, <2>1, <3>2
      <4>1. size[o] # 0 /\ z2[o] # 0
        BY <1>2, <3>0, <3>2
      <4>2. first[o] \in Slot /\ owner[first[o]] = o /\ place[first[o]] = 0
        BY <1>4, <4>1
      <4>3. first2[o] = first[o] /\ first[o] # s
        BY <3>2, <4>0, <4>2 DEF Same
      <4>4. o2[first2[o]] = o /\ p2[first2[o]] = 0
        BY <1>1, <1>2, <2>1, <4>2, <4>3
      <4> QED
        BY <4>1, <4>2, <4>3, <4>4
    <3> QED
      BY <3>1, <3>2
  <2>2. CASE o = b
    <3>0. z2[o] = size[o] + 1 /\ z2[o] # 0
      BY <1>1, <1>2, <2>2
    <3>1. CASE j = 0
      <4>1. first2[o] = s
        BY <1>2, <1>5, <2>2, <3>1
      <4> QED
        BY <1>1, <1>2, <2>2, <3>0, <3>1, <4>1
    <3>2. CASE j # 0
      <4>0. Same(first2[o], first[o])
        BY <1>2, <1>5, <2>2, <3>2
      <4>1. size[o] # 0
        BY <1>2, <2>2, <3>2
      <4>2. first[o] \in Slot /\ owner[first[o]] = o /\ place[first[o]] = 0
        BY <1>4, <4>1
      <4>3. first2[o] = first[o] /\ first[o] # s
        BY <1>2, <2>2, <4>0, <4>2 DEF Same
      <4>4. o2[first2[o]] = o /\ p2[first2[o]] = 0
        BY <1>1, <1>2, <2>2, <3>2, <4>2, <4>3
      <4> QED
        BY <3>0, <4>2, <4>3, <4>4
    <3> QED
      BY <3>1, <3>2
  <2>3. CASE o # owner[s] /\ o # b
    <3>1. z2[o] = size[o] /\ Same(first2[o], first[o])
      BY <1>1, <1>5, <2>3
    <3>2. CASE size[o] = 0
      BY <1>4, <3>1, <3>2 DEF Same
    <3>3. CASE size[o] # 0
      <4>1. first[o] \in Slot /\ owner[first[o]] = o /\ place[first[o]] = 0
        BY <1>4, <3>3
      <4>2. first2[o] = first[o] /\ first[o] # s
        BY <2>3, <3>1, <4>1 DEF Same
      <4>3. o2[first2[o]] = o /\ p2[first2[o]] = 0
        BY <1>1, <2>3, <4>1, <4>2
      <4> QED
        BY <3>1, <3>3, <4>1, <4>2, <4>3
    <3> QED
      BY <3>2, <3>3
  <2> QED
    BY <2>1, <2>2, <2>3
<1> QED
  BY <1>1, <1>3, <1>6, <1>7 DEF Layout, LinksFollow, FirstsFollow

\* The slots of a list are at most all slots.
LEMMA SizeBound ==
  ASSUME NEW owner, NEW place, NEW size, LayoutTypes(owner, place, size),
         PlacesFilled(owner, place, size), PlacesDiffer(owner, place), NEW o \in Owner
  PROVE  size[o] <= MaxHandlers
<1>0. MaxHandlers \in Nat /\ size[o] \in Nat
  BY IrqChainAssumption DEF LayoutTypes
<1>1. \A k \in 0..(size[o] - 1) : \E s \in Slot : owner[s] = o /\ place[s] = k
  BY <1>0 DEF PlacesFilled
<1> DEFINE At == [k \in 0..(size[o] - 1) |-> CHOOSE s \in Slot : owner[s] = o /\ place[s] = k]
<1>2. \A k \in 0..(size[o] - 1) : At[k] \in Slot /\ place[At[k]] = k
  BY <1>1
<1>3. At \in Injection(0..(size[o] - 1), Slot)
  <2>1. At \in [0..(size[o] - 1) -> Slot]
    BY <1>2
  <2>2. \A j, k \in 0..(size[o] - 1) : At[j] = At[k] => j = k
    <3> HIDE DEF At
    <3> QED
      BY <1>2
  <2> HIDE DEF At
  <2> QED
    BY <2>1, <2>2 DEF Injection, IsInjective
<1>4. IsFiniteSet(Slot) /\ Cardinality(Slot) = MaxHandlers
  <2>1. 0 \in Int /\ MaxHandlers - 1 \in Int /\ (MaxHandlers - 1) - 0 + 1 = MaxHandlers /\ 0 <= MaxHandlers - 1
    BY IrqChainAssumption
  <2>2. IsFiniteSet(0..(MaxHandlers - 1)) /\ Cardinality(0..(MaxHandlers - 1)) = MaxHandlers
    BY <2>1, FS_Interval
  <2> QED
    BY <2>2 DEF Slot
<1>5. IsFiniteSet(0..(size[o] - 1)) /\ Cardinality(0..(size[o] - 1)) = size[o]
  <2>1. CASE size[o] = 0
    <3>1. 0..(size[o] - 1) = {}
      BY <2>1
    <3> QED
      BY <2>1, <3>1, FS_EmptySet
  <2>2. CASE size[o] # 0
    <3>1. 0 \in Int /\ size[o] - 1 \in Int /\ (size[o] - 1) - 0 + 1 = size[o] /\ 0 <= size[o] - 1
      BY <1>0, <2>2
    <3> QED
      BY <3>1, FS_Interval
  <2> QED
    BY <2>1, <2>2
<1> HIDE DEF At
<1>6. Cardinality(0..(size[o] - 1)) <= Cardinality(Slot)
  BY <1>3, <1>4, FS_Injection
<1> QED
  BY <1>4, <1>5, <1>6
-----------------------------------------------------------------------------
(* The lists as the model follows them *)

LEMMA AlongIs ==
  ASSUME NEW x
  PROVE  /\ Along(x)[0] = x
         /\ \A n \in 1..MaxHandlers :
              Along(x)[n] = IF Along(x)[n - 1] \in Slot THEN slots[Along(x)[n - 1]].link ELSE End
<1> DEFINE next(y) == IF y \in Slot THEN slots[y].link ELSE End
           Upto(n, f) == f = [k \in 0..n |-> IF k = 0 THEN x ELSE next(f[k - 1])]
           Bad == {n \in Nat : ~ \E f : Upto(n, f)}
<1>1. Bad = {}
  <2> SUFFICES ASSUME Bad # {} PROVE FALSE
    OBVIOUS
  <2>1. PICK n \in Bad : \A m \in Bad : n <= m
    BY Least
  <2>2. CASE n = 0
    <3>1. Upto(0, [k \in 0..0 |-> x])
      OBVIOUS
    <3> QED
      BY <2>1, <2>2, <3>1
  <2>3. CASE n # 0
    <3>0. n \in Nat
      BY <2>1
    <3>1. n - 1 \in Nat /\ n - 1 \notin Bad
      <4>1. n - 1 \in Nat /\ ~(n <= n - 1)
        BY <2>3, <3>0
      <4> QED
        BY <2>1, <4>1
    <3>2. PICK g : Upto(n - 1, g)
      BY <3>1
    <3> HIDE DEF next
    <3> DEFINE f == [k \in 0..n |-> IF k = 0 THEN x ELSE next(g[k - 1])]
    <3>3. \A k \in 0..(n - 1) : g[k] = IF k = 0 THEN x ELSE next(g[k - 1])
      BY <3>2
    <3>4. \A k \in 0..n : f[k] = IF k = 0 THEN x ELSE next(g[k - 1])
      OBVIOUS
    <3>5. \A k \in 0..n : k # 0 => k - 1 \in 0..(n - 1) /\ k - 1 \in 0..n
      BY <3>0
    <3>6. \A k \in 0..(n - 1) : k \in 0..n /\ f[k] = g[k]
      BY <3>0, <3>3, <3>4
    <3>7. f = [k \in 0..n |-> IF k = 0 THEN x ELSE next(f[k - 1])]
      <4> HIDE DEF f
      <4>1. f = [k \in 0..n |-> f[k]]
        BY DEF f
      <4>2. \A k \in 0..n : f[k] = IF k = 0 THEN x ELSE next(f[k - 1])
        BY <3>4, <3>5, <3>6
      <4> QED
        BY <4>1, <4>2
    <3>8. Upto(n, f)
      BY <3>7
    <3> QED
      BY <2>1, <3>8
  <2> QED
    BY <2>2, <2>3
<1>2. \E f : Upto(MaxHandlers, f)
  BY <1>1, IrqChainAssumption
<1>3. Upto(MaxHandlers, Along(x))
  BY <1>2 DEF Along
<1>4. 0 \in 0..MaxHandlers /\ \A n \in 1..MaxHandlers : n \in 0..MaxHandlers /\ n # 0
  BY IrqChainAssumption
<1> HIDE DEF next
<1>5. \A k \in 0..MaxHandlers : Along(x)[k] = IF k = 0 THEN x ELSE next(Along(x)[k - 1])
  BY <1>3
<1>6. Along(x)[0] = x /\ \A n \in 1..MaxHandlers : Along(x)[n] = next(Along(x)[n - 1])
  BY <1>4, <1>5
<1> QED
  BY <1>6 DEF next

LEMMA LinksAre ==
  /\ \A s \in Slot : Links[s] = slots[s].link
  /\ \A v \in Vector : Firsts[v] = vtable[v]
  /\ Firsts[Free] = free_slot_head
  /\ Free \in Owner /\ \A v \in Vector : v \in Owner /\ v # Free
BY FreeIsNoVector DEF Links, Firsts, Owner

\* From the first slot along the links one meets the places of the list.
LEMMA AlongList ==
  ASSUME NEW owner, NEW place, NEW size, Layout(Links, Firsts, owner, place, size),
         NEW o \in Owner
  PROVE  /\ size[o] \in 0..MaxHandlers
         /\ \A k \in 0..MaxHandlers :
              LET x == Along(Firsts[o])[k] IN
              IF k < size[o] THEN x \in Slot /\ owner[x] = o /\ place[x] = k ELSE x \notin Slot
<1> DEFINE f == Along(Firsts[o])
           Right(k) == IF k < size[o] THEN f[k] \in Slot /\ owner[f[k]] = o /\ place[f[k]] = k
                       ELSE f[k] \notin Slot
           Bad == {k \in 0..MaxHandlers : ~Right(k)}
<1>0. MaxHandlers \in Nat /\ size[o] \in 0..MaxHandlers
  BY SizeBound, IrqChainAssumption DEF Layout, LayoutTypes
<1>1. f[0] = Firsts[o] /\ \A n \in 1..MaxHandlers : f[n] = IF f[n - 1] \in Slot THEN slots[f[n - 1]].link ELSE End
  BY AlongIs
<1> HIDE DEF f
<1>2. End \notin Slot
  BY DEF End, Slot
<1>3. Bad = {}
  <2> SUFFICES ASSUME Bad # {} PROVE FALSE
    OBVIOUS
  <2>1. PICK k \in Bad : \A m \in Bad : k <= m
    <3>1. Bad \subseteq Nat
      BY <1>0
    <3> HIDE DEF Bad
    <3> QED
      BY <3>1, Least
  <2>2. k \in 0..MaxHandlers /\ ~Right(k)
    BY <2>1
  <2>3. CASE k = 0
    <3>1. IF size[o] = 0 THEN f[0] \notin Slot ELSE f[0] \in Slot /\ owner[f[0]] = o /\ place[f[0]] = 0
      BY <1>1 DEF Layout, FirstsFollow
    <3> QED
      BY <1>0, <2>2, <2>3, <3>1
  <2>4. CASE k # 0
    <3>1. k - 1 \in 0..MaxHandlers /\ k - 1 \notin Bad /\ k \in 1..MaxHandlers
      <4>1. k - 1 \in 0..MaxHandlers /\ ~(k <= k - 1) /\ k \in 1..MaxHandlers
        BY <1>0, <2>2, <2>4
      <4> QED
        BY <2>1, <4>1
    <3>2. Right(k - 1)
      BY <3>1
    <3>3. CASE k - 1 < size[o]
      <4>1. f[k - 1] \in Slot /\ owner[f[k - 1]] = o /\ place[f[k - 1]] = k - 1
        BY <3>2, <3>3
      <4>2. f[k] = Links[f[k - 1]]
        BY <1>1, <3>1, <4>1, LinksAre
      <4>3. IF place[f[k - 1]] + 1 = size[o] THEN f[k] \notin Slot
            ELSE f[k] \in Slot /\ owner[f[k]] = o /\ place[f[k]] = place[f[k - 1]] + 1
        BY <4>1, <4>2 DEF Layout, LinksFollow
      <4> QED
        BY <1>0, <2>2, <3>3, <4>1, <4>3
    <3>4. CASE ~(k - 1 < size[o])
      <4>1. f[k - 1] \notin Slot /\ ~(k < size[o])
        BY <1>0, <2>2, <3>2, <3>4
      <4> QED
        BY <1>1, <1>2, <2>2, <3>1, <4>1
    <3> QED
      BY <3>3, <3>4
  <2> QED
    BY <2>3, <2>4
<1> QED
  BY <1>0, <1>3 DEF f

LEMMA ListedIs ==
  ASSUME NEW owner, NEW place, NEW size, Layout(Links, Firsts, owner, place, size),
         NEW o \in Owner
  PROVE  Listed(Firsts[o]) = {s \in Slot : owner[s] = o}
<1> DEFINE f == Along(Firsts[o])
<1>1. /\ size[o] \in 0..MaxHandlers
      /\ \A k \in 0..MaxHandlers :
           IF k < size[o] THEN f[k] \in Slot /\ owner[f[k]] = o /\ place[f[k]] = k ELSE f[k] \notin Slot
  BY AlongList
<1>2. Listed(Firsts[o]) = {f[n] : n \in 0..MaxHandlers} \cap Slot
  BY DEF Listed
<1> HIDE DEF f
<1>3. ASSUME NEW s \in Slot, owner[s] = o PROVE \E n \in 0..MaxHandlers : f[n] = s
  <2>1. place[s] \in Nat /\ place[s] < size[o]
    BY <1>3 DEF Layout, LayoutTypes, PlacesFilled
  <2>2. place[s] \in 0..MaxHandlers
    BY <1>1, <2>1, IrqChainAssumption
  <2>3. f[place[s]] \in Slot /\ owner[f[place[s]]] = o /\ place[f[place[s]]] = place[s]
    BY <1>1, <2>1, <2>2
  <2> QED
    BY <1>3, <2>2, <2>3 DEF Layout, PlacesDiffer
<1>4. ASSUME NEW n \in 0..MaxHandlers, f[n] \in Slot PROVE owner[f[n]] = o
  BY <1>1, <1>4
<1> QED
  BY <1>2, <1>3, <1>4
-----------------------------------------------------------------------------
(* The invariant *)

\* The instructions of a slot in a chain do what its link says.
CodeInv(owner, place) ==
  \A s \in Slot : owner[s] \in Vector =>
    slots[s].inst3 = slots[s].link /\ (slots[s].first <=> place[s] = 0)

\* A slot to be removed is the one being executed, for a handler that has
\* removed itself.
TrashInv(owner) ==
  \A s \in Slot : slots[s].link = Trashed =>
    /\ owner[s] \in Vector /\ pos[owner[s]] = s
    /\ at[owner[s]] = "tail" \/ (at[owner[s]] = "handler" /\ removed[owner[s]])

ExecInv(owner) ==
  \A v \in Vector :
    /\ pos[v] # End =>
         /\ owner[pos[v]] = v /\ at[v] # "idle"
         /\ at[v] = "handler" /\ ~removed[v] => slots[pos[v]].handler = running[v]
    /\ at[v] = "tail" => pos[v] # End /\ slots[pos[v]].link = Trashed
    /\ at[v] = "handler" /\ ~removed[v] /\ pos[v] = End => vtable[v] \in Handler

Live(owner, v) == {s \in Slot : owner[s] = v /\ slots[s].link # Trashed}

HandlersInv(owner) ==
  \A v \in Vector :
    /\ \A s \in Live(owner, v) : slots[s].handler \in installed[v]
    /\ \A s, t \in Live(owner, v) : slots[s].handler = slots[t].handler => s = t
    /\ IsShared(v) => \A h \in installed[v] : \E s \in Live(owner, v) : slots[s].handler = h
    /\ vtable[v] = Unhandled => installed[v] = {}
    /\ vtable[v] \in Handler => installed[v] = {vtable[v]}

OrderInv(owner) ==
  \A s \in Slot :
    owner[s] \in Vector /\ slots[s].link \in Slot /\ slots[slots[s].link].link # Trashed =>
      slots[s].priority >= slots[slots[s].link].priority

ChainInvAt(owner, place, size) ==
  /\ Layout(Links, Firsts, owner, place, size)
  /\ CodeInv(owner, place) /\ TrashInv(owner) /\ ExecInv(owner)
  /\ HandlersInv(owner) /\ OrderInv(owner)

ChainInv == IrqTypeOK /\ \E owner, place, size : ChainInvAt(owner, place, size)

\* What a slot holds, as IrqTypeOK has it.
SlotType ==
  [first : BOOLEAN, inst3 : Slot \cup {End, Trashed}, link : Slot \cup {End, Trashed},
   priority : Nat, handler : Handler \cup {Unhandled}]
USE DEF SlotType

LEMMA ConstantsOfChains ==
  /\ MaxHandlers \in Nat /\ MaxHandlers # 0 /\ MaxAdds \in Nat
  /\ \A h \in Handler : Priority[h] \in Nat
  /\ End \notin Slot /\ Trashed \notin Slot /\ End # Trashed /\ Trashed \in Nat
  /\ 0 \in Slot
  /\ Unhandled \notin Slot /\ Unhandled \notin Handler /\ \A h \in Handler : h \notin Slot
BY IrqChainAssumption DEF Slot, End, Trashed

\* Only installed handlers have sources that interrupt.
AssertedInv == \A v \in Vector : asserted[v] \subseteq installed[v]

LEMMA InitChain == IrqInit => ChainInv
<1> SUFFICES ASSUME IrqInit PROVE ChainInv
  OBVIOUS
<1> USE ConstantsOfChains
<1>0. /\ \A s \in Slot : /\ slots[s].link = IF s + 1 \in Slot THEN s + 1 ELSE End
                         /\ slots[s].link # Trashed
      /\ free_slot_head = 0
      /\ \A v \in Vector : /\ vtable[v] = Unhandled /\ at[v] = "idle" /\ pos[v] = End
                           /\ installed[v] = {}
  BY DEF IrqInit
<1>1. IrqTypeOK
  <2>1. slots \in [Slot -> SlotType]
    BY DEF IrqInit
  <2> QED
    BY <2>1 DEF IrqTypeOK, IrqInit
<1> DEFINE owner == [s \in Slot |-> Free]
           place == [s \in Slot |-> s]
           size == [o \in Owner |-> IF o = Free THEN MaxHandlers ELSE 0]
<1>2. /\ \A s \in Slot : owner[s] = Free /\ place[s] = s
      /\ \A o \in Owner : size[o] = IF o = Free THEN MaxHandlers ELSE 0
      /\ size[Free] = MaxHandlers
  BY DEF Owner
<1>3. LayoutTypes(owner, place, size)
  <2>1. \A s \in Slot : s \in Nat
    BY DEF Slot
  <2> QED
    BY <2>1 DEF LayoutTypes, Owner
<1> HIDE DEF owner, place, size
<1>4. PlacesDiffer(owner, place)
  BY <1>2 DEF PlacesDiffer
<1>5. PlacesFilled(owner, place, size)
  BY <1>2, IrqChainAssumption DEF PlacesFilled, Slot
<1>6. LinksFollow(Links, owner, place, size)
  <2>1. \A s \in Slot : s + 1 = MaxHandlers <=> s + 1 \notin Slot
    BY IrqChainAssumption DEF Slot
  <2> QED
    BY <1>0, <1>2, <2>1, LinksAre DEF LinksFollow
<1>7. FirstsFollow(Firsts, owner, place, size)
  BY <1>0, <1>2, LinksAre DEF FirstsFollow, Owner
<1>8. /\ CodeInv(owner, place) /\ TrashInv(owner) /\ ExecInv(owner)
      /\ HandlersInv(owner) /\ OrderInv(owner)
  BY <1>0, <1>2, FreeIsNoVector DEF CodeInv, TrashInv, ExecInv, HandlersInv, OrderInv, Live, IsShared
<1> QED
  BY <1>1, <1>3, <1>4, <1>5, <1>6, <1>7, <1>8 DEF ChainInv, ChainInvAt, Layout

\* What the invariant says of the variables, slot by slot.
LEMMA TypeFacts ==
  ASSUME IrqTypeOK
  PROVE  /\ \A s \in Slot : /\ slots[s].link \in Slot \cup {End, Trashed}
                            /\ slots[s].inst3 \in Slot \cup {End, Trashed}
                            /\ slots[s].first \in BOOLEAN
                            /\ slots[s].priority \in Nat
                            /\ slots[s].handler \in Handler \cup {Unhandled}
         /\ slots \in [Slot -> SlotType]
         /\ \A v \in Vector : pos[v] \in Slot \cup {End} /\ installed[v] \subseteq Handler
BY DEF IrqTypeOK

\* Links and first slots that end their lists in another way.
LEMMA SameLayout ==
  ASSUME NEW link, NEW first, NEW link2, NEW first2, NEW owner, NEW place, NEW size,
         Layout(link, first, owner, place, size),
         \A s \in Slot : Same(link2[s], link[s]), \A o \in Owner : Same(first2[o], first[o])
  PROVE  Layout(link2, first2, owner, place, size)
<1>1. LinksFollow(link2, owner, place, size)
  BY DEF Layout, LinksFollow, Same
<1>2. FirstsFollow(first2, owner, place, size)
  BY DEF Layout, FirstsFollow, Same
<1> QED
  BY <1>1, <1>2 DEF Layout

LEMMA EmptyList ==
  ASSUME NEW link, NEW first, NEW owner, NEW place, NEW size,
         Layout(link, first, owner, place, size), NEW o \in Owner
  PROVE  first[o] \notin Slot <=> \A s \in Slot : owner[s] # o
<1>1. CASE size[o] = 0
  <2>1. \A s \in Slot : owner[s] = o => FALSE
    BY <1>1 DEF Layout, LayoutTypes, PlacesFilled
  <2> QED
    BY <1>1, <2>1 DEF Layout, FirstsFollow
<1>2. CASE size[o] # 0
  BY <1>2 DEF Layout, FirstsFollow
<1> QED
  BY <1>1, <1>2
-----------------------------------------------------------------------------
(* The execution *)

\* What no step of the execution changes.
LEMMA ListsKept ==
  ASSUME NEW owner, NEW place, NEW size, ChainInvAt(owner, place, size),
         UNCHANGED <<slots, free_slot_head, vtable, installed>>
  PROVE  /\ Layout(Links, Firsts, owner, place, size)'
         /\ CodeInv(owner, place)' /\ HandlersInv(owner)' /\ OrderInv(owner)'
<1>1. Layout(Links, Firsts, owner, place, size)'
  <2>1. Links' = Links /\ Firsts' = Firsts
    BY DEF Links, Firsts
  <2>2. Layout(Links', Firsts', owner, place, size)
    BY <2>1 DEF ChainInvAt
  <2> QED
    BY <2>2
<1> QED
  BY <1>1 DEF ChainInvAt, CodeInv, HandlersInv, OrderInv, Live, IsShared

LEMMA AssertChain ==
  ASSUME ChainInv, NEW v \in Vector, NEW h \in Handler, Assert(v, h)
  PROVE  ChainInv'
<1>1. PICK owner, place, size : ChainInvAt(owner, place, size)
  BY DEF ChainInv
<1>2. IrqTypeOK'
  BY DEF ChainInv, IrqTypeOK, Assert, execVars
<1>3. UNCHANGED <<slots, free_slot_head, vtable, installed, at, pos, running, removed>>
  BY DEF Assert, execVars
<1>4. TrashInv(owner)' /\ ExecInv(owner)'
  BY <1>1, <1>3 DEF ChainInvAt, TrashInv, ExecInv
<1> QED
  BY <1>1, <1>2, <1>3, <1>4, ListsKept DEF ChainInv, ChainInvAt

LEMMA EnterChain ==
  ASSUME ChainInv, AssertedInv, NEW v \in Vector, Enter(v)
  PROVE  ChainInv'
<1>1. PICK owner, place, size : ChainInvAt(owner, place, size)
  BY DEF ChainInv
<1> USE ConstantsOfChains
<1>2. /\ UNCHANGED <<slots, free_slot_head, vtable, installed, asserted, adds>>
      /\ at[v] = "idle"
      /\ IF IsShared(v) THEN Call(v, vtable[v], slots[vtable[v]].handler) ELSE Call(v, End, vtable[v])
  BY DEF Enter
<1>3. IrqTypeOK'
  <2>1. vtable[v] \in Slot \cup Handler \cup {Unhandled}
    BY DEF ChainInv, IrqTypeOK
  <2>2. CASE IsShared(v)
    <3>1. vtable[v] \in Slot /\ slots[vtable[v]].handler \in Handler \cup {Unhandled}
      BY <2>2, TypeFacts DEF ChainInv, IsShared
    <3> QED
      BY <1>2, <2>2, <3>1 DEF ChainInv, IrqTypeOK, Call
  <2>3. CASE ~IsShared(v)
    <3>1. vtable[v] \in Handler \cup {Unhandled}
      BY <2>1, <2>3 DEF IsShared
    <3> QED
      BY <1>2, <2>3, <3>1 DEF ChainInv, IrqTypeOK, Call
  <2> QED
    BY <2>2, <2>3
<1>4. IsShared(v) => vtable[v] \in Slot /\ owner[vtable[v]] = v /\ vtable[v] # End
  BY <1>1, LinksAre DEF ChainInvAt, Layout, FirstsFollow, IsShared
<1>5. ~IsShared(v) => vtable[v] \in Handler
  <2>1. asserted[v] # {} /\ installed[v] # {}
    BY DEF Enter, AssertedInv
  <2>2. vtable[v] # Unhandled
    BY <1>1, <2>1 DEF ChainInvAt, HandlersInv
  <2> QED
    BY <2>2 DEF ChainInv, IrqTypeOK, IsShared
<1>6. /\ pos'[v] = IF IsShared(v) THEN vtable[v] ELSE End
      /\ running'[v] = IF IsShared(v) THEN slots[vtable[v]].handler ELSE vtable[v]
      /\ at'[v] = "handler" /\ removed'[v] = FALSE
      /\ \A w \in Vector : w # v => pos'[w] = pos[w] /\ running'[w] = running[w]
                                    /\ at'[w] = at[w] /\ removed'[w] = removed[w]
  BY <1>2 DEF ChainInv, IrqTypeOK, Call
<1>7. TrashInv(owner)'
  <2>1. \A s \in Slot : slots[s].link = Trashed => owner[s] # v
    BY <1>1, <1>2 DEF ChainInvAt, TrashInv
  <2> QED
    BY <1>1, <1>2, <1>6, <2>1 DEF ChainInvAt, TrashInv
<1>8. ExecInv(owner)'
  BY <1>1, <1>2, <1>4, <1>6, <1>5 DEF ChainInvAt, ExecInv, IsShared
<1> QED
  BY <1>1, <1>2, <1>3, <1>7, <1>8, ListsKept DEF ChainInv, ChainInvAt

LEMMA ReturnChain ==
  ASSUME ChainInv, NEW v \in Vector, Return(v)
  PROVE  ChainInv'
<1>1. PICK owner, place, size : ChainInvAt(owner, place, size)
  BY DEF ChainInv
<1> USE ConstantsOfChains
<1> DEFINE next == IF pos[v] = End THEN End ELSE slots[pos[v]].inst3
<1>2. /\ UNCHANGED <<slots, free_slot_head, vtable, installed, adds>>
      /\ at[v] = "handler"
      /\ asserted' = [asserted EXCEPT ![v] = @ \ {running[v]}]
      /\ \/ next = End /\ Leave(v)
         \/ next \in Slot /\ Call(v, next, slots[next].handler)
         \/ next = Trashed /\ at' = [at EXCEPT ![v] = "tail"] /\ UNCHANGED <<pos, running, removed>>
  BY DEF Return
<1>3. /\ pos[v] \in Slot \cup {End}
      /\ pos[v] # End => owner[pos[v]] = v /\ next = slots[pos[v]].link
      /\ \A s \in Slot : slots[s].link = Trashed /\ owner[s] = v => next = Trashed
  <2>1. pos[v] \in Slot \cup {End}
    BY TypeFacts DEF ChainInv
  <2>2. pos[v] # End => owner[pos[v]] = v /\ next = slots[pos[v]].link
    BY <1>1, <2>1 DEF ChainInvAt, ExecInv, CodeInv
  <2> QED
    BY <1>1, <2>1, <2>2 DEF ChainInvAt, TrashInv
<1>4. next \in Slot => owner[next] = v
  <2>1. next \in Slot => pos[v] \in Slot /\ next = Links[pos[v]]
    BY <1>3, LinksAre
  <2> QED
    BY <1>1, <1>3, <2>1 DEF ChainInvAt, Layout, LinksFollow
<1> HIDE DEF next
<1>5. CASE next = End /\ Leave(v)
  <2>1. IrqTypeOK'
    BY <1>2, <1>5 DEF ChainInv, IrqTypeOK, Leave
  <2>2. /\ pos'[v] = End /\ at'[v] = "idle"
        /\ \A w \in Vector : w # v => pos'[w] = pos[w] /\ running'[w] = running[w]
                                      /\ at'[w] = at[w] /\ removed'[w] = removed[w]
    BY <1>5 DEF ChainInv, IrqTypeOK, Leave
  <2>3. TrashInv(owner)'
    BY <1>1, <1>2, <1>3, <1>5, <2>2 DEF ChainInvAt, TrashInv
  <2>4. ExecInv(owner)'
    BY <1>1, <1>2, <2>2 DEF ChainInvAt, ExecInv
  <2> QED
    BY <1>1, <1>2, <2>1, <2>3, <2>4, ListsKept DEF ChainInv, ChainInvAt
<1>6. CASE next \in Slot /\ Call(v, next, slots[next].handler)
  <2>0. slots[next].handler \in Handler \cup {Unhandled}
    BY <1>6, TypeFacts DEF ChainInv
  <2>1. IrqTypeOK'
    BY <1>2, <1>6, <2>0 DEF ChainInv, IrqTypeOK, Call
  <2>2. /\ pos'[v] = next /\ at'[v] = "handler" /\ removed'[v] = FALSE
        /\ running'[v] = slots[next].handler
        /\ \A w \in Vector : w # v => pos'[w] = pos[w] /\ running'[w] = running[w]
                                      /\ at'[w] = at[w] /\ removed'[w] = removed[w]
    BY <1>6 DEF ChainInv, IrqTypeOK, Call
  <2>3. TrashInv(owner)'
    BY <1>1, <1>2, <1>3, <1>6, <2>2 DEF ChainInvAt, TrashInv
  <2>4. ExecInv(owner)'
    BY <1>1, <1>2, <1>4, <1>6, <2>2 DEF ChainInvAt, ExecInv
  <2> QED
    BY <1>1, <1>2, <2>1, <2>3, <2>4, ListsKept DEF ChainInv, ChainInvAt
<1>7. CASE next = Trashed /\ at' = [at EXCEPT ![v] = "tail"] /\ UNCHANGED <<pos, running, removed>>
  <2>1. IrqTypeOK'
    BY <1>2, <1>7 DEF ChainInv, IrqTypeOK
  <2>2. at'[v] = "tail" /\ \A w \in Vector : w # v => at'[w] = at[w]
    BY <1>7 DEF ChainInv, IrqTypeOK
  <2>3. pos[v] # End /\ slots[pos[v]].link = Trashed
    <3>1. pos[v] # End
      BY <1>7 DEF next
    <3> QED
      BY <1>3, <1>7, <3>1
  <2>4. TrashInv(owner)'
    BY <1>1, <1>2, <1>7, <2>2 DEF ChainInvAt, TrashInv
  <2>5. ExecInv(owner)'
    BY <1>1, <1>2, <1>7, <2>2, <2>3 DEF ChainInvAt, ExecInv
  <2> QED
    BY <1>1, <1>2, <2>1, <2>4, <2>5, ListsKept DEF ChainInv, ChainInvAt
<1> QED
  BY <1>2, <1>5, <1>6, <1>7
-----------------------------------------------------------------------------
(* The functions *)

LEMMA SetExclusiveChain ==
  ASSUME ChainInv, NEW v \in Vector, NEW h \in Handler, SetExclusive(v, h)
  PROVE  ChainInv'
<1>1. PICK owner, place, size : ChainInvAt(owner, place, size)
  BY DEF ChainInv
<1> USE ConstantsOfChains
<1>2. /\ vtable[v] = Unhandled /\ adds < MaxAdds
      /\ vtable' = [vtable EXCEPT ![v] = h]
      /\ installed' = [installed EXCEPT ![v] = {h}]
      /\ adds' = adds + 1
      /\ UNCHANGED <<slots, free_slot_head, at, pos, running, removed, asserted>>
  BY DEF SetExclusive, execVars
<1>3. IrqTypeOK'
  BY <1>2 DEF ChainInv, IrqTypeOK
<1>4. /\ vtable'[v] = h /\ installed'[v] = {h}
      /\ \A w \in Vector : w # v => vtable'[w] = vtable[w] /\ installed'[w] = installed[w]
  BY <1>2 DEF ChainInv, IrqTypeOK
<1>5. Layout(Links', Firsts', owner, place, size)
  <2>1. \A s \in Slot : Same(Links'[s], Links[s])
    BY <1>2 DEF Links, Same
  <2>2. \A o \in Owner : Same(Firsts'[o], Firsts[o])
    BY <1>2, <1>4 DEF Firsts, Same, Owner
  <2> QED
    BY <1>1, <2>1, <2>2, SameLayout DEF ChainInvAt
<1>6. \A s \in Slot : owner[s] # v
  BY <1>1, <1>2, EmptyList, LinksAre DEF ChainInvAt
<1>7. CodeInv(owner, place)' /\ TrashInv(owner)' /\ OrderInv(owner)'
  BY <1>1, <1>2 DEF ChainInvAt, CodeInv, TrashInv, OrderInv
<1>8. ExecInv(owner)'
  BY <1>1, <1>2, <1>4 DEF ChainInvAt, ExecInv
<1>9. HandlersInv(owner)'
  BY <1>1, <1>2, <1>4, <1>6 DEF ChainInvAt, HandlersInv, Live, IsShared
<1> QED
  BY <1>3, <1>5, <1>7, <1>8, <1>9 DEF ChainInv, ChainInvAt

\* A slot that ends its chain moves to the free list.
LEMMA UnlinkSlots ==
  ASSUME IrqTypeOK, NEW v \in Vector, NEW s \in Slot, Unlink(v, s)
  PROVE  /\ slots' \in [Slot -> SlotType]
         /\ free_slot_head' = s /\ slots'[s].link = free_slot_head
         /\ \A t \in Slot : /\ slots'[t].first = slots[t].first
                            /\ slots'[t].priority = slots[t].priority
                            /\ slots'[t].handler = slots[t].handler
         /\ \A t \in Slot : t # s =>
              /\ slots'[t].link = IF slots[t].link = s THEN End ELSE slots[t].link
              /\ slots'[t].inst3 = IF slots[t].link = s THEN End ELSE slots[t].inst3
         /\ vtable'[v] = IF vtable[v] = s THEN Unhandled ELSE vtable[v]
         /\ \A w \in Vector : w # v => vtable'[w] = vtable[w]
         /\ vtable' \in [Vector -> Slot \cup Handler \cup {Unhandled}]
<1> USE TypeFacts
<1>1. /\ \A t \in Slot : slots'[t] = IF t = s THEN [slots[s] EXCEPT !.link = free_slot_head]
              ELSE IF slots[t].link = s THEN [slots[t] EXCEPT !.link = End, !.inst3 = End]
              ELSE slots[t]
      /\ free_slot_head' = s
      /\ vtable' = IF vtable[v] = s THEN [vtable EXCEPT ![v] = Unhandled] ELSE vtable
  BY DEF Unlink
<1>2. vtable \in [Vector -> Slot \cup Handler \cup {Unhandled}] /\ free_slot_head \in Slot \cup {End}
  BY DEF IrqTypeOK
<1>3. \A t \in Slot : slots'[t] \in SlotType
  <2> SUFFICES ASSUME NEW t \in Slot
               PROVE  slots'[t] \in SlotType
    OBVIOUS
  <2>0. slots[t] \in SlotType
    OBVIOUS
  <2>1. CASE t = s
    <3>1. slots'[t] = [slots[t] EXCEPT !.link = free_slot_head]
      BY <1>1, <2>1
    <3> QED
      BY <1>2, <2>0, <3>1
  <2>2. CASE t # s /\ slots[t].link = s
    <3>1. slots'[t] = [slots[t] EXCEPT !.link = End, !.inst3 = End]
      BY <1>1, <2>2
    <3> QED
      BY <2>0, <3>1
  <2>3. CASE t # s /\ slots[t].link # s
    BY <1>1, <2>0, <2>3
  <2> QED
    BY <2>1, <2>2, <2>3
<1>4. slots' = [t \in Slot |-> slots'[t]]
  BY DEF Unlink
<1>5. slots' \in [Slot -> SlotType]
  BY <1>3, <1>4
<1>6. slots'[s].link = free_slot_head
  BY <1>1
<1>7. \A t \in Slot : /\ slots'[t].first = slots[t].first
                      /\ slots'[t].priority = slots[t].priority
                      /\ slots'[t].handler = slots[t].handler
  <2> SUFFICES ASSUME NEW t \in Slot
               PROVE  /\ slots'[t].first = slots[t].first
                      /\ slots'[t].priority = slots[t].priority
                      /\ slots'[t].handler = slots[t].handler
    OBVIOUS
  <2>0. slots[t] \in SlotType
    OBVIOUS
  <2>1. \/ slots'[t] = [slots[t] EXCEPT !.link = free_slot_head]
        \/ slots'[t] = [slots[t] EXCEPT !.link = End, !.inst3 = End]
        \/ slots'[t] = slots[t]
    BY <1>1
  <2> QED
    BY <2>0, <2>1
<1>8. \A t \in Slot : t # s =>
              /\ slots'[t].link = IF slots[t].link = s THEN End ELSE slots[t].link
              /\ slots'[t].inst3 = IF slots[t].link = s THEN End ELSE slots[t].inst3
  <2> SUFFICES ASSUME NEW t \in Slot, t # s
               PROVE  /\ slots'[t].link = IF slots[t].link = s THEN End ELSE slots[t].link
                      /\ slots'[t].inst3 = IF slots[t].link = s THEN End ELSE slots[t].inst3
    OBVIOUS
  <2>1. CASE slots[t].link = s
    <3>1. slots'[t] = [slots[t] EXCEPT !.link = End, !.inst3 = End]
      BY <1>1, <2>1
    <3>2. slots[t] \in SlotType
      OBVIOUS
    <3> QED
      BY <2>1, <3>1, <3>2
  <2>2. CASE slots[t].link # s
    BY <1>1, <2>2
  <2> QED
    BY <2>1, <2>2
<1>9. /\ vtable'[v] = IF vtable[v] = s THEN Unhandled ELSE vtable[v]
      /\ \A w \in Vector : w # v => vtable'[w] = vtable[w]
      /\ vtable' \in [Vector -> Slot \cup Handler \cup {Unhandled}]
  BY <1>1, <1>2
<1> QED
  BY <1>1, <1>5, <1>6, <1>7, <1>8, <1>9

LEMMA UnlinkLists ==
  ASSUME IrqTypeOK, NEW owner, NEW place, NEW size, ChainInvAt(owner, place, size),
         NEW v \in Vector, NEW s \in Slot, owner[s] = v, slots[s].link \notin Slot, Unlink(v, s),
         NEW o2, NEW p2, NEW z2,
         o2 = MovedOwner(owner, s, Free), p2 = MovedPlace(owner, place, s, Free, 0),
         z2 = MovedSize(owner, size, s, Free)
  PROVE  /\ Layout(Links', Firsts', o2, p2, z2) /\ CodeInv(o2, p2)' /\ OrderInv(o2)'
         /\ o2[s] = Free /\ \A t \in Slot : t # s => o2[t] = owner[t]
         /\ \A t \in Slot : slots'[t].link = Trashed <=> (t # s /\ slots[t].link = Trashed)
         /\ vtable[v] \in Slot
         /\ vtable[v] = s => \A t \in Slot : owner[t] = v => t = s
<1> USE ConstantsOfChains, FreeIsNoVector
<1>0. Layout(Links, Firsts, owner, place, size)
  BY DEF ChainInvAt
<1>1. /\ \A t \in Slot : place[t] \in Nat /\ owner[t] \in Owner /\ place[t] < size[owner[t]]
      /\ \A o \in Owner : size[o] \in Nat
      /\ \A t, u \in Slot : owner[t] = owner[u] /\ place[t] = place[u] => t = u
      /\ \A t \in Slot :
           IF place[t] + 1 = size[owner[t]] THEN slots[t].link \notin Slot
           ELSE slots[t].link \in Slot /\ owner[slots[t].link] = owner[t] /\ place[slots[t].link] = place[t] + 1
      /\ \A o \in Owner :
           IF size[o] = 0 THEN Firsts[o] \notin Slot
           ELSE Firsts[o] \in Slot /\ owner[Firsts[o]] = o /\ place[Firsts[o]] = 0
  BY <1>0, LinksAre DEF Layout, LayoutTypes, PlacesDiffer, PlacesFilled, LinksFollow, FirstsFollow
<1>2. place[s] + 1 = size[v]
  BY <1>1
<1>3. \A t \in Slot : slots[t].link = s <=> (owner[t] = v /\ place[t] + 1 = place[s])
  <2> SUFFICES ASSUME NEW t \in Slot
               PROVE  slots[t].link = s <=> (owner[t] = v /\ place[t] + 1 = place[s])
    OBVIOUS
  <2>1. ASSUME slots[t].link = s PROVE owner[t] = v /\ place[t] + 1 = place[s]
    BY <1>1, <2>1
  <2>2. ASSUME owner[t] = v, place[t] + 1 = place[s] PROVE slots[t].link = s
    <3>1. place[t] + 1 # size[v]
      BY <1>1, <1>2, <2>2
    <3>2. slots[t].link \in Slot /\ owner[slots[t].link] = v /\ place[slots[t].link] = place[s]
      BY <1>1, <2>2, <3>1
    <3> QED
      BY <1>1, <3>2
  <2> QED
    BY <2>1, <2>2
<1>4. vtable[v] \in Slot /\ (vtable[v] = s <=> place[s] = 0)
  <2>1. v \in Owner /\ Firsts[v] = vtable[v]
    BY LinksAre
  <2>2. vtable[v] \in Slot /\ owner[vtable[v]] = v /\ place[vtable[v]] = 0
    BY <1>1, <1>2, <2>1
  <2> QED
    BY <1>1, <2>2
<1>5. vtable[v] = s => \A t \in Slot : owner[t] = v => t = s
  <2> SUFFICES ASSUME vtable[v] = s, NEW t \in Slot, owner[t] = v PROVE t = s
    OBVIOUS
  <2>1. place[s] = 0 /\ size[v] = 1
    BY <1>1, <1>2, <1>4
  <2>2. place[t] = 0
    BY <1>1, <2>1
  <2> QED
    BY <1>1, <2>1, <2>2
<1>6. /\ free_slot_head' = s /\ slots'[s].link = free_slot_head
      /\ \A t \in Slot : /\ slots'[t].first = slots[t].first
                         /\ slots'[t].priority = slots[t].priority
      /\ \A t \in Slot : t # s =>
           /\ slots'[t].link = IF slots[t].link = s THEN End ELSE slots[t].link
           /\ slots'[t].inst3 = IF slots[t].link = s THEN End ELSE slots[t].inst3
      /\ vtable'[v] = IF vtable[v] = s THEN Unhandled ELSE vtable[v]
      /\ \A w \in Vector : w # v => vtable'[w] = vtable[w]
  BY UnlinkSlots
<1>7. Movable(owner, size, s, Free, 0)
  BY <1>1, LinksAre DEF Movable
<1>8. /\ \A t \in Slot : Links'[t] = slots'[t].link
      /\ \A w \in Vector : Firsts'[w] = vtable'[w]
      /\ Firsts'[Free] = free_slot_head'
  BY LinksAre DEF Links, Firsts, Owner
<1>9. LinksMoved(Links, Firsts, Links', owner, place, s, Free, 0)
  <2>1. ASSUME NEW t \in Slot, t # s
        PROVE  IF owner[t] = owner[s] /\ place[t] + 1 = place[s] THEN Same(Links'[t], Links[s])
               ELSE IF owner[t] = Free /\ place[t] + 1 = 0 THEN Links'[t] = s
               ELSE Same(Links'[t], Links[t])
    <3>1. place[t] + 1 # 0
      BY <1>1
    <3>2. Links'[t] = IF slots[t].link = s THEN End ELSE slots[t].link
      BY <1>6, <1>8, <2>1
    <3> QED
      BY <1>3, <3>1, <3>2, LinksAre DEF Same
  <2>2. Same(Links'[s], Firsts[Free])
    BY <1>6, <1>8, LinksAre DEF Same
  <2> QED
    BY <2>1, <2>2 DEF LinksMoved
<1>10. FirstsMoved(Links, Firsts, Firsts', owner, place, s, Free, 0)
  <2>1. ASSUME NEW w \in Vector, w # v PROVE Same(Firsts'[w], Firsts[w])
    BY <1>6, <1>8, <2>1, LinksAre DEF Same
  <2>2. IF place[s] = 0 THEN Same(Firsts'[v], Links[s]) ELSE Same(Firsts'[v], Firsts[v])
    BY <1>4, <1>6, <1>8, LinksAre DEF Same
  <2>3. Firsts'[Free] = s
    BY <1>6, <1>8
  <2> QED
    BY <2>1, <2>2, <2>3 DEF FirstsMoved, Owner
<1>11. Layout(Links', Firsts', o2, p2, z2)
  BY <1>0, <1>7, <1>9, <1>10, MoveLinks
<1>12. /\ \A t \in Slot : o2[t] = IF t = s THEN Free ELSE owner[t]
       /\ \A t \in Slot : p2[t] = IF t = s THEN 0
                  ELSE IF owner[t] = owner[s] /\ place[t] > place[s] THEN place[t] - 1
                  ELSE IF owner[t] = Free /\ place[t] >= 0 THEN place[t] + 1
                  ELSE place[t]
  BY <1>0, <1>7, MoveFacts DEF Layout
<1>13. \A t \in Slot : o2[t] \in Vector => t # s /\ owner[t] \in Vector /\ p2[t] = place[t]
  <2> SUFFICES ASSUME NEW t \in Slot, o2[t] \in Vector
               PROVE  t # s /\ owner[t] \in Vector /\ p2[t] = place[t]
    OBVIOUS
  <2>1. t # s /\ owner[t] \in Vector
    BY <1>12
  <2>2. owner[t] = v => ~(place[t] > place[s])
    BY <1>1, <1>2
  <2> QED
    BY <1>12, <2>1, <2>2
<1>14. CodeInv(o2, p2)'
  <2> SUFFICES ASSUME NEW t \in Slot, o2[t] \in Vector
               PROVE  slots'[t].inst3 = slots'[t].link /\ (slots'[t].first <=> p2[t] = 0)
    BY DEF CodeInv
  <2>1. t # s /\ owner[t] \in Vector /\ p2[t] = place[t]
    BY <1>13
  <2>2. slots[t].inst3 = slots[t].link /\ (slots[t].first <=> place[t] = 0)
    BY <2>1 DEF ChainInvAt, CodeInv
  <2> QED
    BY <1>6, <2>1, <2>2
<1>15. \A t \in Slot : slots'[t].link = Trashed <=> (t # s /\ slots[t].link = Trashed)
  <2>1. free_slot_head # Trashed
    BY DEF IrqTypeOK
  <2>2. s # Trashed
    OBVIOUS
  <2> QED
    BY <1>6, <2>1, <2>2
<1>16. OrderInv(o2)'
  <2> SUFFICES ASSUME NEW t \in Slot, o2[t] \in Vector, slots'[t].link \in Slot,
                      slots'[slots'[t].link].link # Trashed
               PROVE  slots'[t].priority >= slots'[slots'[t].link].priority
    BY DEF OrderInv
  <2>1. t # s /\ owner[t] \in Vector
    BY <1>13
  <2>2. slots'[t].link = slots[t].link /\ slots[t].link # s
    BY <1>6, <2>1
  <2>3. slots[slots[t].link].link # Trashed
    BY <1>15, <2>2
  <2>4. slots[t].priority >= slots[slots[t].link].priority
    BY <2>1, <2>2, <2>3 DEF ChainInvAt, OrderInv
  <2> QED
    BY <1>6, <2>2, <2>4
<1> QED
  BY <1>4, <1>5, <1>11, <1>12, <1>14, <1>15, <1>16

LEMMA RemoveTailChain ==
  ASSUME ChainInv, NEW v \in Vector, RemoveTail(v)
  PROVE  ChainInv'
<1> USE ConstantsOfChains, FreeIsNoVector
<1>1. PICK owner, place, size : ChainInvAt(owner, place, size)
  BY DEF ChainInv
<1>2. PICK s : s = pos[v]
  OBVIOUS
<1>3. /\ at[v] = "tail" /\ Unlink(v, s) /\ Leave(v)
      /\ UNCHANGED <<asserted, installed, adds>>
  BY <1>2 DEF RemoveTail
<1>4. s \in Slot /\ owner[s] = v /\ slots[s].link = Trashed
  BY <1>1, <1>2, <1>3, TypeFacts DEF ChainInv, ChainInvAt, ExecInv
<1>5. PICK o2, p2, z2 : /\ o2 = MovedOwner(owner, s, Free)
                        /\ p2 = MovedPlace(owner, place, s, Free, 0)
                        /\ z2 = MovedSize(owner, size, s, Free)
  OBVIOUS
<1>6. /\ Layout(Links', Firsts', o2, p2, z2) /\ CodeInv(o2, p2)' /\ OrderInv(o2)'
      /\ o2[s] = Free /\ \A t \in Slot : t # s => o2[t] = owner[t]
      /\ \A t \in Slot : slots'[t].link = Trashed <=> (t # s /\ slots[t].link = Trashed)
      /\ vtable[v] \in Slot
      /\ vtable[v] = s => \A t \in Slot : owner[t] = v => t = s
  BY <1>1, <1>3, <1>4, <1>5, UnlinkLists DEF ChainInv
<1>7. /\ slots' \in [Slot -> SlotType]
      /\ free_slot_head' = s
      /\ \A t \in Slot : slots'[t].handler = slots[t].handler
      /\ vtable'[v] = IF vtable[v] = s THEN Unhandled ELSE vtable[v]
      /\ \A w \in Vector : w # v => vtable'[w] = vtable[w]
      /\ vtable' \in [Vector -> Slot \cup Handler \cup {Unhandled}]
  BY <1>3, <1>4, UnlinkSlots DEF ChainInv
<1>8. IrqTypeOK'
  BY <1>3, <1>4, <1>7 DEF ChainInv, IrqTypeOK, Leave
<1>9. /\ pos'[v] = End /\ at'[v] = "idle"
      /\ \A w \in Vector : w # v => pos'[w] = pos[w] /\ running'[w] = running[w]
                                    /\ at'[w] = at[w] /\ removed'[w] = removed[w]
  BY <1>3 DEF ChainInv, IrqTypeOK, Leave
<1>10. TrashInv(o2)'
  <2> SUFFICES ASSUME NEW t \in Slot, slots'[t].link = Trashed
               PROVE  /\ o2[t] \in Vector /\ pos'[o2[t]] = t
                      /\ at'[o2[t]] = "tail" \/ (at'[o2[t]] = "handler" /\ removed'[o2[t]])
    BY DEF TrashInv
  <2>1. t # s /\ slots[t].link = Trashed /\ o2[t] = owner[t]
    BY <1>6
  <2>2. /\ owner[t] \in Vector /\ pos[owner[t]] = t
        /\ at[owner[t]] = "tail" \/ (at[owner[t]] = "handler" /\ removed[owner[t]])
    BY <1>1, <2>1 DEF ChainInvAt, TrashInv
  <2>3. owner[t] # v
    BY <1>2, <2>1, <2>2
  <2> QED
    BY <1>9, <2>1, <2>2, <2>3
<1>11. ExecInv(o2)'
  <2> SUFFICES ASSUME NEW w \in Vector, w # v
               PROVE  /\ pos'[w] # End =>
                           /\ o2[pos'[w]] = w /\ at'[w] # "idle"
                           /\ at'[w] = "handler" /\ ~removed'[w] => slots'[pos'[w]].handler = running'[w]
                      /\ at'[w] = "tail" => pos'[w] # End /\ slots'[pos'[w]].link = Trashed
                      /\ at'[w] = "handler" /\ ~removed'[w] /\ pos'[w] = End => vtable'[w] \in Handler
    BY <1>9 DEF ExecInv
  <2>1. /\ pos[w] # End =>
             /\ owner[pos[w]] = w /\ at[w] # "idle"
             /\ at[w] = "handler" /\ ~removed[w] => slots[pos[w]].handler = running[w]
        /\ at[w] = "tail" => pos[w] # End /\ slots[pos[w]].link = Trashed
        /\ at[w] = "handler" /\ ~removed[w] /\ pos[w] = End => vtable[w] \in Handler
        /\ pos[w] \in Slot \cup {End}
    BY <1>1, TypeFacts DEF ChainInv, ChainInvAt, ExecInv
  <2>2. pos[w] # s
    BY <1>4, <2>1
  <2> QED
    BY <1>6, <1>7, <1>9, <2>1, <2>2
<1>12. \A w \in Vector : Live(o2, w)' = Live(owner, w)
  <2>1. \A t \in Slot, w \in Vector :
          (o2[t] = w /\ slots'[t].link # Trashed) <=> (owner[t] = w /\ slots[t].link # Trashed)
    BY <1>4, <1>6
  <2> QED
    BY <2>1 DEF Live
<1>13. HandlersInv(o2)'
  <2> SUFFICES ASSUME NEW w \in Vector
               PROVE  /\ \A t \in Live(owner, w) : slots'[t].handler \in installed[w]
                      /\ \A t, u \in Live(owner, w) : slots'[t].handler = slots'[u].handler => t = u
                      /\ vtable'[w] \in Slot => \A h \in installed[w] : \E t \in Live(owner, w) : slots'[t].handler = h
                      /\ vtable'[w] = Unhandled => installed[w] = {}
                      /\ vtable'[w] \in Handler => installed[w] = {vtable'[w]}
    BY <1>3, <1>12 DEF HandlersInv, IsShared
  <2>1. /\ \A t \in Live(owner, w) : slots[t].handler \in installed[w]
        /\ \A t, u \in Live(owner, w) : slots[t].handler = slots[u].handler => t = u
        /\ vtable[w] \in Slot => \A h \in installed[w] : \E t \in Live(owner, w) : slots[t].handler = h
        /\ vtable[w] = Unhandled => installed[w] = {}
        /\ vtable[w] \in Handler => installed[w] = {vtable[w]}
    BY <1>1 DEF ChainInvAt, HandlersInv, IsShared
  <2>2. \A t \in Live(owner, w) : slots'[t].handler = slots[t].handler
    BY <1>7 DEF Live
  <2>3. CASE w # v \/ vtable[v] # s
    BY <1>7, <2>1, <2>2, <2>3
  <2>4. CASE w = v /\ vtable[v] = s
    <3>1. Live(owner, v) = {}
      BY <1>4, <1>6, <2>4 DEF Live
    <3> QED
      BY <1>4, <1>7, <2>1, <2>2, <2>4, <3>1
  <2> QED
    BY <2>3, <2>4
<1>14. ChainInvAt(o2, p2, z2)'
  BY <1>6, <1>10, <1>11, <1>13 DEF ChainInvAt
<1> QED
  BY <1>8, <1>14 DEF ChainInv

\* irq_remove_handler: who may call it, and what it does besides the lists.
Removes(v, h) ==
  /\ h \in installed[v]
  /\ at[v] = "idle" \/ (at[v] = "handler" /\ running[v] = h /\ ~removed[v])
  /\ removed' = [removed EXCEPT ![v] = at[v] = "handler"]
  /\ installed' = [installed EXCEPT ![v] = @ \ {h}]
  /\ asserted' = [asserted EXCEPT ![v] = @ \ {h}]
  /\ UNCHANGED <<execVars, adds>>

LEMMA RemovesFacts ==
  ASSUME IrqTypeOK, NEW v \in Vector, NEW h, Removes(v, h)
  PROVE  /\ removed' \in [Vector -> BOOLEAN] /\ installed' \in [Vector -> SUBSET Handler]
         /\ asserted' \in [Vector -> SUBSET Handler]
         /\ UNCHANGED <<at, pos, running, adds>>
         /\ removed'[v] <=> at[v] = "handler"
         /\ installed'[v] = installed[v] \ {h}
         /\ \A w \in Vector : w # v => removed'[w] = removed[w] /\ installed'[w] = installed[w]
BY DEF IrqTypeOK, Removes, execVars

\* The slots of a chain whose handlers are called.
LEMMA RemovedSlot ==
  ASSUME IrqTypeOK, NEW owner, NEW place, NEW size, ChainInvAt(owner, place, size),
         NEW v \in Vector, NEW h, Removes(v, h), NEW s \in Slot, owner[s] = v, slots[s].handler = h
  PROVE  /\ \A t \in Slot : owner[t] = v => t \in Live(owner, v)
         /\ \A t \in Slot : owner[t] = v /\ slots[t].handler = h => t = s
         /\ vtable[v] \in Slot
         /\ at[v] # "idle" => at[v] = "handler" /\ pos[v] = s
         /\ at[v] = "idle" => pos[v] = End
<1>1. \A t \in Slot : owner[t] = v => t \in Live(owner, v)
  BY DEF Live, Removes, ChainInvAt, TrashInv
<1>2. \A t \in Slot : owner[t] = v /\ slots[t].handler = h => t = s
  BY <1>1 DEF ChainInvAt, HandlersInv
<1>3. vtable[v] \in Slot
  BY EmptyList, LinksAre DEF ChainInvAt
<1>4. at[v] # "idle" => at[v] = "handler" /\ pos[v] = s
  <2> SUFFICES ASSUME at[v] # "idle" PROVE at[v] = "handler" /\ pos[v] = s
    OBVIOUS
  <2>1. at[v] = "handler" /\ running[v] = h /\ ~removed[v]
    BY DEF Removes
  <2>2. pos[v] # End /\ pos[v] \in Slot
    BY <1>3, <2>1, TypeFacts, ConstantsOfChains DEF ChainInvAt, ExecInv
  <2>3. owner[pos[v]] = v /\ slots[pos[v]].handler = h
    BY <2>1, <2>2 DEF ChainInvAt, ExecInv
  <2> QED
    BY <1>2, <2>1, <2>2, <2>3
<1>5. at[v] = "idle" => pos[v] = End
  BY DEF ChainInvAt, ExecInv
<1> QED
  BY <1>1, <1>2, <1>3, <1>4, <1>5

LEMMA UnlinkChain ==
  ASSUME ChainInv, NEW owner, NEW place, NEW size, ChainInvAt(owner, place, size),
         NEW v \in Vector, NEW h \in Handler, Removes(v, h), NEW s \in Slot, owner[s] = v,
         slots[s].handler = h, slots[s].link = End, at[v] = "idle", Unlink(v, s)
  PROVE  ChainInv'
<1> USE ConstantsOfChains, FreeIsNoVector
<1>2. /\ \A t \in Slot : owner[t] = v => t \in Live(owner, v)
      /\ \A t \in Slot : owner[t] = v /\ slots[t].handler = h => t = s
      /\ pos[v] = End
  BY RemovedSlot DEF ChainInv
<1>3. /\ removed' \in [Vector -> BOOLEAN] /\ installed' \in [Vector -> SUBSET Handler]
      /\ asserted' \in [Vector -> SUBSET Handler]
      /\ UNCHANGED <<at, pos, running, adds>>
      /\ removed'[v] <=> at[v] = "handler"
      /\ installed'[v] = installed[v] \ {h}
      /\ \A w \in Vector : w # v => removed'[w] = removed[w] /\ installed'[w] = installed[w]
  BY RemovesFacts DEF ChainInv
<1>5. PICK o2, p2, z2 : /\ o2 = MovedOwner(owner, s, Free)
                        /\ p2 = MovedPlace(owner, place, s, Free, 0)
                        /\ z2 = MovedSize(owner, size, s, Free)
  OBVIOUS
<1>6. /\ Layout(Links', Firsts', o2, p2, z2) /\ CodeInv(o2, p2)' /\ OrderInv(o2)'
      /\ o2[s] = Free /\ \A t \in Slot : t # s => o2[t] = owner[t]
      /\ \A t \in Slot : slots'[t].link = Trashed <=> (t # s /\ slots[t].link = Trashed)
      /\ vtable[v] \in Slot
      /\ vtable[v] = s => \A t \in Slot : owner[t] = v => t = s
  BY <1>5, UnlinkLists DEF ChainInv
<1>7. /\ slots' \in [Slot -> SlotType]
      /\ free_slot_head' = s
      /\ \A t \in Slot : slots'[t].handler = slots[t].handler
      /\ vtable'[v] = IF vtable[v] = s THEN Unhandled ELSE vtable[v]
      /\ \A w \in Vector : w # v => vtable'[w] = vtable[w]
      /\ vtable' \in [Vector -> Slot \cup Handler \cup {Unhandled}]
  BY UnlinkSlots DEF ChainInv
<1>8. IrqTypeOK'
  BY <1>3, <1>7 DEF ChainInv, IrqTypeOK
<1>10. TrashInv(o2)'
  <2> SUFFICES ASSUME NEW t \in Slot, slots'[t].link = Trashed
               PROVE  /\ o2[t] \in Vector /\ pos'[o2[t]] = t
                      /\ at'[o2[t]] = "tail" \/ (at'[o2[t]] = "handler" /\ removed'[o2[t]])
    BY DEF TrashInv
  <2>1. t # s /\ slots[t].link = Trashed /\ o2[t] = owner[t]
    BY <1>6
  <2>2. /\ owner[t] \in Vector /\ pos[owner[t]] = t
        /\ at[owner[t]] = "tail" \/ (at[owner[t]] = "handler" /\ removed[owner[t]])
    BY <2>1 DEF ChainInvAt, TrashInv
  <2>3. owner[t] # v
    BY <2>1, <2>2
  <2> QED
    BY <1>3, <2>1, <2>2, <2>3
<1>11. ExecInv(o2)'
  <2> SUFFICES ASSUME NEW w \in Vector, w # v
               PROVE  /\ pos'[w] # End =>
                           /\ o2[pos'[w]] = w /\ at'[w] # "idle"
                           /\ at'[w] = "handler" /\ ~removed'[w] => slots'[pos'[w]].handler = running'[w]
                      /\ at'[w] = "tail" => pos'[w] # End /\ slots'[pos'[w]].link = Trashed
                      /\ at'[w] = "handler" /\ ~removed'[w] /\ pos'[w] = End => vtable'[w] \in Handler
    BY <1>2, <1>3 DEF ExecInv
  <2>1. /\ pos[w] # End =>
             /\ owner[pos[w]] = w /\ at[w] # "idle"
             /\ at[w] = "handler" /\ ~removed[w] => slots[pos[w]].handler = running[w]
        /\ at[w] = "tail" => pos[w] # End /\ slots[pos[w]].link = Trashed
        /\ at[w] = "handler" /\ ~removed[w] /\ pos[w] = End => vtable[w] \in Handler
        /\ pos[w] \in Slot \cup {End}
    BY TypeFacts DEF ChainInv, ChainInvAt, ExecInv
  <2>2. pos[w] # s
    BY <2>1
  <2> QED
    BY <1>3, <1>6, <1>7, <2>1, <2>2
<1>12. \A w \in Vector : Live(o2, w)' = Live(owner, w) \ {s}
  <2>1. \A t \in Slot, w \in Vector :
          (o2[t] = w /\ slots'[t].link # Trashed) <=> (owner[t] = w /\ slots[t].link # Trashed /\ t # s)
    BY <1>6
  <2> QED
    BY <2>1 DEF Live
<1>13. HandlersInv(o2)'
  <2> SUFFICES ASSUME NEW w \in Vector
               PROVE  /\ \A t \in Live(owner, w) \ {s} : slots'[t].handler \in installed'[w]
                      /\ \A t, u \in Live(owner, w) \ {s} : slots'[t].handler = slots'[u].handler => t = u
                      /\ vtable'[w] \in Slot =>
                           \A g \in installed'[w] : \E t \in Live(owner, w) \ {s} : slots'[t].handler = g
                      /\ vtable'[w] = Unhandled => installed'[w] = {}
                      /\ vtable'[w] \in Handler => installed'[w] = {vtable'[w]}
    BY <1>12 DEF HandlersInv, IsShared
  <2>1. /\ \A t \in Live(owner, w) : slots[t].handler \in installed[w]
        /\ \A t, u \in Live(owner, w) : slots[t].handler = slots[u].handler => t = u
        /\ vtable[w] \in Slot => \A g \in installed[w] : \E t \in Live(owner, w) : slots[t].handler = g
        /\ vtable[w] = Unhandled => installed[w] = {}
        /\ vtable[w] \in Handler => installed[w] = {vtable[w]}
    BY DEF ChainInvAt, HandlersInv, IsShared
  <2>2. \A t \in Live(owner, w) : t \in Slot /\ owner[t] = w /\ slots'[t].handler = slots[t].handler
    BY <1>7 DEF Live
  <2>3. CASE w # v
    <3>1. Live(owner, w) \ {s} = Live(owner, w)
      BY <2>2, <2>3
    <3>2. installed'[w] = installed[w] /\ vtable'[w] = vtable[w]
      BY <1>3, <1>7, <2>3
    <3> QED
      BY <2>1, <2>2, <3>1, <3>2
  <2>4. CASE w = v
    <3>1. \A t \in Live(owner, v) : slots[t].handler = h => t = s
      BY <1>2, <2>2, <2>4
    <3>2. /\ \A t \in Live(owner, w) \ {s} : slots'[t].handler \in installed'[w]
          /\ \A t, u \in Live(owner, w) \ {s} : slots'[t].handler = slots'[u].handler => t = u
      BY <1>3, <2>1, <2>2, <2>4, <3>1
    <3>3. \A g \in installed'[w] : \E t \in Live(owner, w) \ {s} : slots'[t].handler = g
      BY <1>3, <1>6, <2>1, <2>2, <2>4
    <3>4. vtable'[w] = Unhandled => installed'[w] = {}
      <4> SUFFICES ASSUME vtable'[w] = Unhandled PROVE installed'[w] = {}
        OBVIOUS
      <4>1. vtable[v] = s
        BY <1>6, <1>7, <2>4
      <4>2. Live(owner, v) \subseteq {s}
        BY <1>6, <2>2, <2>4, <4>1
      <4> QED
        BY <2>4, <3>3, <4>2
    <3>5. vtable'[w] \notin Handler
      BY <1>6, <1>7, <2>4
    <3> QED
      BY <3>2, <3>3, <3>4, <3>5
  <2> QED
    BY <2>3, <2>4
<1>14. ChainInvAt(o2, p2, z2)'
  BY <1>6, <1>10, <1>11, <1>13 DEF ChainInvAt
<1> QED
  BY <1>8, <1>14 DEF ChainInv

\* The slot being executed is only marked.
LEMMA RemoveLaterChain ==
  ASSUME ChainInv, NEW owner, NEW place, NEW size, ChainInvAt(owner, place, size),
         NEW v \in Vector, NEW h \in Handler, Removes(v, h), NEW s \in Slot, owner[s] = v,
         slots[s].handler = h, slots[s].link = End, at[v] # "idle", RemoveLater(s)
  PROVE  ChainInv'
<1> USE ConstantsOfChains, FreeIsNoVector
<1>1. /\ \A t \in Slot : owner[t] = v => t \in Live(owner, v)
      /\ \A t \in Slot : owner[t] = v /\ slots[t].handler = h => t = s
      /\ vtable[v] \in Slot /\ at[v] = "handler" /\ pos[v] = s
  BY RemovedSlot DEF ChainInv
<1>2. /\ removed' \in [Vector -> BOOLEAN] /\ installed' \in [Vector -> SUBSET Handler]
      /\ asserted' \in [Vector -> SUBSET Handler]
      /\ UNCHANGED <<at, pos, running, adds>>
      /\ removed'[v] <=> at[v] = "handler"
      /\ installed'[v] = installed[v] \ {h}
      /\ \A w \in Vector : w # v => removed'[w] = removed[w] /\ installed'[w] = installed[w]
  BY RemovesFacts DEF ChainInv
<1>3. /\ slots' = [slots EXCEPT ![s] = [@ EXCEPT !.inst3 = Trashed, !.link = Trashed, !.priority = Trashed]]
      /\ UNCHANGED <<free_slot_head, vtable>>
  BY TypeFacts DEF RemoveLater, ChainInv
<1>4. /\ slots' \in [Slot -> SlotType]
      /\ slots'[s].inst3 = Trashed /\ slots'[s].link = Trashed
      /\ slots'[s].first = slots[s].first /\ slots'[s].handler = slots[s].handler
      /\ \A t \in Slot : t # s => slots'[t] = slots[t]
  <2>1. slots \in [Slot -> SlotType] /\ slots[s] \in SlotType
    BY TypeFacts DEF ChainInv
  <2>2. /\ slots'[s] = [slots[s] EXCEPT !.inst3 = Trashed, !.link = Trashed, !.priority = Trashed]
        /\ \A t \in Slot : t # s => slots'[t] = slots[t]
    BY <1>3, <2>1
  <2>3. /\ slots'[s] \in SlotType /\ slots'[s].inst3 = Trashed /\ slots'[s].link = Trashed
        /\ slots'[s].first = slots[s].first /\ slots'[s].handler = slots[s].handler
    BY <2>1, <2>2
  <2>4. slots' \in [Slot -> SlotType]
    <3>1. \E x : slots' = [slots EXCEPT ![s] = x] /\ x \in SlotType
      BY <1>3, <2>1, <2>2, <2>3
    <3> QED
      BY <2>1, <3>1
  <2> QED
    BY <2>2, <2>3, <2>4
<1>5. IrqTypeOK'
  BY <1>2, <1>3, <1>4 DEF ChainInv, IrqTypeOK
<1>6. Layout(Links', Firsts', owner, place, size)
  <2>1. \A t \in Slot : Same(Links'[t], Links[t])
    BY <1>4 DEF Links, Same
  <2>2. \A o \in Owner : Same(Firsts'[o], Firsts[o])
    BY <1>3 DEF Firsts, Same, Owner
  <2> QED
    BY <2>1, <2>2, SameLayout DEF ChainInvAt
<1>7. CodeInv(owner, place)'
  BY <1>4 DEF ChainInvAt, CodeInv
<1>8. TrashInv(owner)'
  <2> SUFFICES ASSUME NEW t \in Slot, slots'[t].link = Trashed
               PROVE  /\ owner[t] \in Vector /\ pos'[owner[t]] = t
                      /\ at'[owner[t]] = "tail" \/ (at'[owner[t]] = "handler" /\ removed'[owner[t]])
    BY DEF TrashInv
  <2>1. CASE t = s
    BY <1>1, <1>2, <2>1
  <2>2. CASE t # s
    <3>1. slots[t].link = Trashed /\ owner[t] # v
      BY <1>1, <1>4, <2>2 DEF Live
    <3> QED
      BY <1>2, <3>1 DEF ChainInvAt, TrashInv
  <2> QED
    BY <2>1, <2>2
<1>9. ExecInv(owner)'
  <2> SUFFICES ASSUME NEW w \in Vector
               PROVE  /\ pos'[w] # End =>
                           /\ owner[pos'[w]] = w /\ at'[w] # "idle"
                           /\ at'[w] = "handler" /\ ~removed'[w] => slots'[pos'[w]].handler = running'[w]
                      /\ at'[w] = "tail" => pos'[w] # End /\ slots'[pos'[w]].link = Trashed
                      /\ at'[w] = "handler" /\ ~removed'[w] /\ pos'[w] = End => vtable'[w] \in Handler
    BY DEF ExecInv
  <2>1. CASE w = v
    BY <1>1, <1>2, <2>1
  <2>2. CASE w # v
    <3>1. /\ pos[w] # End =>
               /\ owner[pos[w]] = w /\ at[w] # "idle"
               /\ at[w] = "handler" /\ ~removed[w] => slots[pos[w]].handler = running[w]
          /\ at[w] = "tail" => pos[w] # End /\ slots[pos[w]].link = Trashed
          /\ at[w] = "handler" /\ ~removed[w] /\ pos[w] = End => vtable[w] \in Handler
          /\ pos[w] \in Slot \cup {End}
      BY TypeFacts DEF ChainInv, ChainInvAt, ExecInv
    <3>2. pos[w] # s
      BY <2>2, <3>1
    <3>3. removed'[w] = removed[w] /\ UNCHANGED <<at, pos, running, vtable>>
      BY <1>2, <1>3, <2>2
    <3>4. pos[w] # End => slots'[pos[w]] = slots[pos[w]]
      BY <1>4, <3>1, <3>2
    <3> QED
      BY <3>1, <3>3, <3>4
  <2> QED
    BY <2>1, <2>2
<1>10. \A w \in Vector : Live(owner, w)' = Live(owner, w) \ {s}
  <2>1. \A t \in Slot, w \in Vector :
          (owner[t] = w /\ slots'[t].link # Trashed) <=> (owner[t] = w /\ slots[t].link # Trashed /\ t # s)
    BY <1>4
  <2> QED
    BY <2>1 DEF Live
<1>11. HandlersInv(owner)'
  <2> SUFFICES ASSUME NEW w \in Vector
               PROVE  /\ \A t \in Live(owner, w) \ {s} : slots'[t].handler \in installed'[w]
                      /\ \A t, u \in Live(owner, w) \ {s} : slots'[t].handler = slots'[u].handler => t = u
                      /\ vtable[w] \in Slot =>
                           \A g \in installed'[w] : \E t \in Live(owner, w) \ {s} : slots'[t].handler = g
                      /\ vtable[w] = Unhandled => installed'[w] = {}
                      /\ vtable[w] \in Handler => installed'[w] = {vtable[w]}
    BY <1>3, <1>10 DEF HandlersInv, IsShared
  <2>1. /\ \A t \in Live(owner, w) : slots[t].handler \in installed[w]
        /\ \A t, u \in Live(owner, w) : slots[t].handler = slots[u].handler => t = u
        /\ vtable[w] \in Slot => \A g \in installed[w] : \E t \in Live(owner, w) : slots[t].handler = g
        /\ vtable[w] = Unhandled => installed[w] = {}
        /\ vtable[w] \in Handler => installed[w] = {vtable[w]}
    BY DEF ChainInvAt, HandlersInv, IsShared
  <2>2. \A t \in Live(owner, w) : t \in Slot /\ owner[t] = w /\ slots'[t].handler = slots[t].handler
    BY <1>4 DEF Live
  <2>3. CASE w # v
    <3>1. Live(owner, w) \ {s} = Live(owner, w)
      BY <2>2, <2>3
    <3>2. installed'[w] = installed[w]
      BY <1>2, <2>3
    <3> QED
      BY <2>1, <2>2, <3>1, <3>2
  <2>4. CASE w = v
    <3>1. \A t \in Live(owner, v) : slots[t].handler = h => t = s
      BY <1>1, <2>2, <2>4
    <3>2. /\ \A t \in Live(owner, w) \ {s} : slots'[t].handler \in installed'[w]
          /\ \A t, u \in Live(owner, w) \ {s} : slots'[t].handler = slots'[u].handler => t = u
      BY <1>2, <2>1, <2>2, <2>4, <3>1
    <3>3. \A g \in installed'[w] : \E t \in Live(owner, w) \ {s} : slots'[t].handler = g
      BY <1>1, <1>2, <2>1, <2>2, <2>4
    <3> QED
      BY <1>1, <2>4, <3>2, <3>3
  <2> QED
    BY <2>3, <2>4
<1>12. OrderInv(owner)'
  <2> SUFFICES ASSUME NEW t \in Slot, owner[t] \in Vector, slots'[t].link \in Slot,
                      slots'[slots'[t].link].link # Trashed
               PROVE  slots'[t].priority >= slots'[slots'[t].link].priority
    BY DEF OrderInv
  <2>1. t # s /\ slots'[t] = slots[t]
    BY <1>4
  <2>2. slots[t].link # s /\ slots'[slots[t].link] = slots[slots[t].link]
    BY <1>4, <2>1
  <2> QED
    BY <2>1, <2>2 DEF ChainInvAt, OrderInv
<1>13. ChainInvAt(owner, place, size)'
  BY <1>6, <1>7, <1>8, <1>9, <1>11, <1>12 DEF ChainInvAt
<1> QED
  BY <1>5, <1>13 DEF ChainInv

LEMMA RemoveExclusiveChain ==
  ASSUME ChainInv, NEW v \in Vector, NEW h \in Handler, Removes(v, h), vtable[v] = h,
         vtable' = [vtable EXCEPT ![v] = Unhandled], UNCHANGED <<slots, free_slot_head>>
  PROVE  ChainInv'
<1>1. PICK owner, place, size : ChainInvAt(owner, place, size)
  BY DEF ChainInv
<1> USE ConstantsOfChains
<1>2. /\ removed' \in [Vector -> BOOLEAN] /\ installed' \in [Vector -> SUBSET Handler]
      /\ asserted' \in [Vector -> SUBSET Handler]
      /\ UNCHANGED <<at, pos, running, adds>>
      /\ removed'[v] <=> at[v] = "handler"
      /\ installed'[v] = installed[v] \ {h}
      /\ \A w \in Vector : w # v => removed'[w] = removed[w] /\ installed'[w] = installed[w]
  BY RemovesFacts DEF ChainInv
<1>3. IrqTypeOK'
  BY <1>2 DEF ChainInv, IrqTypeOK
<1>4. vtable'[v] = Unhandled /\ \A w \in Vector : w # v => vtable'[w] = vtable[w]
  BY DEF ChainInv, IrqTypeOK
<1>5. Layout(Links', Firsts', owner, place, size)
  <2>1. \A s \in Slot : Same(Links'[s], Links[s])
    BY DEF Links, Same
  <2>2. \A o \in Owner : Same(Firsts'[o], Firsts[o])
    BY <1>4 DEF Firsts, Same, Owner
  <2> QED
    BY <1>1, <2>1, <2>2, SameLayout DEF ChainInvAt
<1>6. \A s \in Slot : owner[s] # v
  BY <1>1, EmptyList, LinksAre DEF ChainInvAt
<1>7. installed[v] = {h}
  BY <1>1 DEF ChainInvAt, HandlersInv
<1>8. CodeInv(owner, place)' /\ OrderInv(owner)'
  BY <1>1 DEF ChainInvAt, CodeInv, OrderInv
<1>9. TrashInv(owner)'
  BY <1>1, <1>2, <1>6 DEF ChainInvAt, TrashInv
<1>10. ExecInv(owner)'
  BY <1>1, <1>2, <1>4 DEF ChainInvAt, ExecInv
<1>11. HandlersInv(owner)'
  BY <1>1, <1>2, <1>4, <1>6, <1>7 DEF ChainInvAt, HandlersInv, Live, IsShared
<1> QED
  BY <1>3, <1>5, <1>8, <1>9, <1>10, <1>11 DEF ChainInv, ChainInvAt

\* The next slot is copied over the one to be removed: it is the next that
\* moves to the free list.
LEMMA CopyNextSlots ==
  ASSUME IrqTypeOK, NEW s \in Slot, NEW next \in Slot, next # s, slots[s].link = next,
         RemoveBeforeNext(s)
  PROVE  /\ slots' \in [Slot -> SlotType]
         /\ free_slot_head' = next /\ vtable' = vtable
         /\ slots'[s].first = slots[s].first /\ slots'[s].inst3 = slots[next].inst3
         /\ slots'[s].link = slots[next].link /\ slots'[s].priority = slots[next].priority
         /\ slots'[s].handler = slots[next].handler
         /\ slots'[next].link = free_slot_head
         /\ \A t \in Slot : t # s /\ t # next => slots'[t] = slots[t]
<1>1. /\ slots' = [slots EXCEPT ![s] = [slots[next] EXCEPT !.first = slots[s].first],
                                ![next].link = free_slot_head]
      /\ free_slot_head' = next /\ vtable' = vtable
  BY DEF RemoveBeforeNext
<1>2. slots \in [Slot -> SlotType] /\ slots[s] \in SlotType /\ slots[next] \in SlotType
  BY TypeFacts
<1>3. free_slot_head \in Slot \cup {End}
  BY DEF IrqTypeOK
<1>4. /\ slots'[s] = [slots[next] EXCEPT !.first = slots[s].first]
      /\ slots'[next] = [slots[next] EXCEPT !.link = free_slot_head]
      /\ \A t \in Slot : t # s /\ t # next => slots'[t] = slots[t]
  BY <1>1, <1>2
<1>5. /\ slots'[s] \in SlotType
      /\ slots'[s].first = slots[s].first /\ slots'[s].inst3 = slots[next].inst3
      /\ slots'[s].link = slots[next].link /\ slots'[s].priority = slots[next].priority
      /\ slots'[s].handler = slots[next].handler
  BY <1>2, <1>4
<1>6. slots'[next] \in SlotType /\ slots'[next].link = free_slot_head
  BY <1>2, <1>3, <1>4
<1>7. slots' \in [Slot -> SlotType]
  <2>1. slots' = [t \in Slot |-> slots'[t]]
    BY <1>1, <1>2
  <2>2. \A t \in Slot : slots'[t] \in SlotType
    BY <1>2, <1>4, <1>5, <1>6
  <2> HIDE DEF SlotType
  <2> QED
    BY <2>1, <2>2
<1> QED
  BY <1>1, <1>4, <1>5, <1>6, <1>7

LEMMA CopyNextChain ==
  ASSUME ChainInv, NEW owner, NEW place, NEW size, ChainInvAt(owner, place, size),
         NEW v \in Vector, NEW h \in Handler, Removes(v, h), NEW s \in Slot, owner[s] = v,
         slots[s].handler = h, slots[s].link # End, RemoveBeforeNext(s)
  PROVE  ChainInv'
<1> USE ConstantsOfChains, FreeIsNoVector
<1>1. /\ \A t \in Slot : owner[t] = v => t \in Live(owner, v)
      /\ \A t \in Slot : owner[t] = v /\ slots[t].handler = h => t = s
      /\ vtable[v] \in Slot
      /\ at[v] # "idle" => at[v] = "handler" /\ pos[v] = s
      /\ at[v] = "idle" => pos[v] = End
  BY RemovedSlot DEF ChainInv
<1>2. /\ removed' \in [Vector -> BOOLEAN] /\ installed' \in [Vector -> SUBSET Handler]
      /\ asserted' \in [Vector -> SUBSET Handler]
      /\ UNCHANGED <<at, pos, running, adds>>
      /\ removed'[v] <=> at[v] = "handler"
      /\ installed'[v] = installed[v] \ {h}
      /\ \A w \in Vector : w # v => removed'[w] = removed[w] /\ installed'[w] = installed[w]
  BY RemovesFacts DEF ChainInv
<1>3. Layout(Links, Firsts, owner, place, size)
  BY DEF ChainInvAt
<1>4. /\ \A t \in Slot : place[t] \in Nat /\ owner[t] \in Owner /\ place[t] < size[owner[t]]
      /\ \A o \in Owner : size[o] \in Nat
      /\ \A t, u \in Slot : owner[t] = owner[u] /\ place[t] = place[u] => t = u
      /\ \A t \in Slot :
           IF place[t] + 1 = size[owner[t]] THEN slots[t].link \notin Slot
           ELSE slots[t].link \in Slot /\ owner[slots[t].link] = owner[t] /\ place[slots[t].link] = place[t] + 1
      /\ \A o \in Owner :
           IF size[o] = 0 THEN Firsts[o] \notin Slot
           ELSE Firsts[o] \in Slot /\ owner[Firsts[o]] = o /\ place[Firsts[o]] = 0
  BY <1>3, LinksAre DEF Layout, LayoutTypes, PlacesDiffer, PlacesFilled, LinksFollow, FirstsFollow
<1>5. PICK next : next = slots[s].link
  OBVIOUS
<1>6. next \in Slot /\ slots[s].link # Trashed
  <2>1. slots[s].link # Trashed
    BY <1>1 DEF Live
  <2> QED
    BY <1>5, <2>1, TypeFacts DEF ChainInv
<1>7. owner[next] = v /\ place[next] = place[s] + 1 /\ next # s
  BY <1>4, <1>5, <1>6
<1>8. \A t \in Slot : slots[t].link = next <=> t = s
  BY <1>4, <1>5, <1>6, <1>7
<1>9. /\ slots' \in [Slot -> SlotType]
      /\ free_slot_head' = next /\ vtable' = vtable
      /\ slots'[s].first = slots[s].first /\ slots'[s].inst3 = slots[next].inst3
      /\ slots'[s].link = slots[next].link /\ slots'[s].priority = slots[next].priority
      /\ slots'[s].handler = slots[next].handler
      /\ slots'[next].link = free_slot_head
      /\ \A t \in Slot : t # s /\ t # next => slots'[t] = slots[t]
  BY <1>5, <1>6, <1>7, CopyNextSlots DEF ChainInv
<1>10. IrqTypeOK'
  BY <1>2, <1>6, <1>9 DEF ChainInv, IrqTypeOK
<1>11. PICK o2, p2, z2 : /\ o2 = MovedOwner(owner, next, Free)
                         /\ p2 = MovedPlace(owner, place, next, Free, 0)
                         /\ z2 = MovedSize(owner, size, next, Free)
  OBVIOUS
<1>12. Movable(owner, size, next, Free, 0)
  BY <1>4, <1>6, <1>7, LinksAre DEF Movable
<1>13. /\ \A t \in Slot : o2[t] = IF t = next THEN Free ELSE owner[t]
       /\ \A t \in Slot : p2[t] = IF t = next THEN 0
                  ELSE IF owner[t] = owner[next] /\ place[t] > place[next] THEN place[t] - 1
                  ELSE IF owner[t] = Free /\ place[t] >= 0 THEN place[t] + 1
                  ELSE place[t]
  BY <1>3, <1>11, <1>12, MoveFacts DEF Layout
<1>14. /\ \A t \in Slot : Links'[t] = slots'[t].link
       /\ \A w \in Vector : Firsts'[w] = vtable'[w]
       /\ Firsts'[Free] = free_slot_head'
  BY LinksAre DEF Links, Firsts, Owner
<1>15. LinksMoved(Links, Firsts, Links', owner, place, next, Free, 0)
  <2>1. ASSUME NEW t \in Slot, t # next
        PROVE  IF owner[t] = owner[next] /\ place[t] + 1 = place[next] THEN Same(Links'[t], Links[next])
               ELSE IF owner[t] = Free /\ place[t] + 1 = 0 THEN Links'[t] = next
               ELSE Same(Links'[t], Links[t])
    <3>1. place[t] + 1 # 0
      BY <1>4
    <3>2. owner[t] = owner[next] /\ place[t] + 1 = place[next] <=> t = s
      BY <1>4, <1>7
    <3>3. t = s => Links'[t] = Links[next]
      BY <1>6, <1>9, <1>14, LinksAre
    <3>4. t # s => Links'[t] = Links[t]
      BY <1>9, <1>14, <2>1, LinksAre
    <3> QED
      BY <3>1, <3>2, <3>3, <3>4 DEF Same
  <2>2. Same(Links'[next], Firsts[Free])
    BY <1>6, <1>9, <1>14, LinksAre DEF Same
  <2> QED
    BY <2>1, <2>2 DEF LinksMoved
<1>16. FirstsMoved(Links, Firsts, Firsts', owner, place, next, Free, 0)
  <2>1. ASSUME NEW w \in Vector PROVE Same(Firsts'[w], Firsts[w])
    BY <1>9, <1>14, LinksAre DEF Same
  <2>2. place[next] # 0
    BY <1>4, <1>7
  <2>3. Firsts'[Free] = next
    BY <1>9, <1>14
  <2> QED
    BY <2>1, <2>2, <2>3 DEF FirstsMoved, Owner
<1>17. Layout(Links', Firsts', o2, p2, z2)
  BY <1>3, <1>11, <1>12, <1>15, <1>16, MoveLinks
<1>18. CodeInv(o2, p2)'
  <2> SUFFICES ASSUME NEW t \in Slot, o2[t] \in Vector
               PROVE  slots'[t].inst3 = slots'[t].link /\ (slots'[t].first <=> p2[t] = 0)
    BY DEF CodeInv
  <2>1. t # next /\ owner[t] \in Vector
    BY <1>13
  <2>2. slots[t].inst3 = slots[t].link /\ (slots[t].first <=> place[t] = 0)
    BY <2>1 DEF ChainInvAt, CodeInv
  <2>3. p2[t] = 0 <=> place[t] = 0
    BY <1>4, <1>7, <1>13, <2>1
  <2>4. slots[next].inst3 = slots[next].link
    BY <1>6, <1>7 DEF ChainInvAt, CodeInv
  <2> QED
    BY <1>9, <2>1, <2>2, <2>3, <2>4
<1>19. \A t \in Slot : slots'[t].link = Trashed <=> slots[t].link = Trashed
  <2>1. slots[next].link # Trashed
    BY <1>1, <1>6, <1>7 DEF Live
  <2>2. free_slot_head # Trashed
    BY DEF ChainInv, IrqTypeOK
  <2> QED
    BY <1>6, <1>9, <2>1, <2>2
<1>20. \A t \in Slot : owner[t] = v => slots[t].link # Trashed
  BY <1>1 DEF Live
<1>21. TrashInv(o2)'
  <2> SUFFICES ASSUME NEW t \in Slot, slots'[t].link = Trashed
               PROVE  /\ o2[t] \in Vector /\ pos'[o2[t]] = t
                      /\ at'[o2[t]] = "tail" \/ (at'[o2[t]] = "handler" /\ removed'[o2[t]])
    BY DEF TrashInv
  <2>1. slots[t].link = Trashed /\ owner[t] # v /\ t # next
    BY <1>7, <1>19, <1>20
  <2>2. /\ owner[t] \in Vector /\ pos[owner[t]] = t
        /\ at[owner[t]] = "tail" \/ (at[owner[t]] = "handler" /\ removed[owner[t]])
    BY <2>1 DEF ChainInvAt, TrashInv
  <2> QED
    BY <1>2, <1>13, <2>1, <2>2
<1>22. ExecInv(o2)'
  <2> SUFFICES ASSUME NEW w \in Vector
               PROVE  /\ pos'[w] # End =>
                           /\ o2[pos'[w]] = w /\ at'[w] # "idle"
                           /\ at'[w] = "handler" /\ ~removed'[w] => slots'[pos'[w]].handler = running'[w]
                      /\ at'[w] = "tail" => pos'[w] # End /\ slots'[pos'[w]].link = Trashed
                      /\ at'[w] = "handler" /\ ~removed'[w] /\ pos'[w] = End => vtable'[w] \in Handler
    BY DEF ExecInv
  <2>1. CASE w = v
    <3>1. pos[v] # End => pos[v] = s /\ at[v] = "handler"
      BY <1>1
    <3>2. o2[s] = v
      BY <1>7, <1>13
    <3> QED
      BY <1>1, <1>2, <2>1, <3>1, <3>2
  <2>2. CASE w # v
    <3>1. /\ pos[w] # End =>
               /\ owner[pos[w]] = w /\ at[w] # "idle"
               /\ at[w] = "handler" /\ ~removed[w] => slots[pos[w]].handler = running[w]
          /\ at[w] = "tail" => pos[w] # End /\ slots[pos[w]].link = Trashed
          /\ at[w] = "handler" /\ ~removed[w] /\ pos[w] = End => vtable[w] \in Handler
          /\ pos[w] \in Slot \cup {End}
      BY TypeFacts DEF ChainInv, ChainInvAt, ExecInv
    <3>2. pos[w] # s /\ pos[w] # next
      BY <1>6, <1>7, <2>2, <3>1
    <3>3. removed'[w] = removed[w] /\ UNCHANGED <<at, pos, running, vtable>>
      BY <1>2, <1>9, <2>2
    <3>4. pos[w] # End => slots'[pos[w]] = slots[pos[w]] /\ o2[pos[w]] = owner[pos[w]]
      BY <1>9, <1>13, <3>1, <3>2
    <3> QED
      BY <3>1, <3>3, <3>4
  <2> QED
    BY <2>1, <2>2
<1>23. \A w \in Vector : Live(o2, w)' = Live(owner, w) \ {next}
  <2>1. \A t \in Slot, w \in Vector :
          (o2[t] = w /\ slots'[t].link # Trashed) <=> (owner[t] = w /\ slots[t].link # Trashed /\ t # next)
    BY <1>13, <1>19
  <2> QED
    BY <2>1 DEF Live
<1>24. HandlersInv(o2)'
  <2> SUFFICES ASSUME NEW w \in Vector
               PROVE  /\ \A t \in Live(owner, w) \ {next} : slots'[t].handler \in installed'[w]
                      /\ \A t, u \in Live(owner, w) \ {next} : slots'[t].handler = slots'[u].handler => t = u
                      /\ vtable[w] \in Slot =>
                           \A g \in installed'[w] : \E t \in Live(owner, w) \ {next} : slots'[t].handler = g
                      /\ vtable[w] = Unhandled => installed'[w] = {}
                      /\ vtable[w] \in Handler => installed'[w] = {vtable[w]}
    BY <1>9, <1>23 DEF HandlersInv, IsShared
  <2>1. /\ \A t \in Live(owner, w) : slots[t].handler \in installed[w]
        /\ \A t, u \in Live(owner, w) : slots[t].handler = slots[u].handler => t = u
        /\ vtable[w] \in Slot => \A g \in installed[w] : \E t \in Live(owner, w) : slots[t].handler = g
        /\ vtable[w] = Unhandled => installed[w] = {}
        /\ vtable[w] \in Handler => installed[w] = {vtable[w]}
    BY DEF ChainInvAt, HandlersInv, IsShared
  <2>2. \A t \in Live(owner, w) : t \in Slot /\ owner[t] = w
    BY DEF Live
  <2>3. CASE w # v
    <3>1. Live(owner, w) \ {next} = Live(owner, w)
      BY <1>7, <2>2, <2>3
    <3>2. \A t \in Live(owner, w) : slots'[t].handler = slots[t].handler
      BY <1>7, <1>9, <2>2, <2>3
    <3>3. installed'[w] = installed[w]
      BY <1>2, <2>3
    <3> QED
      BY <2>1, <3>1, <3>2, <3>3
  <2>4. CASE w = v
    <3>1. s \in Live(owner, v) /\ next \in Live(owner, v)
      BY <1>1, <1>6, <1>7
    <3>2. \A t \in Live(owner, v) : slots[t].handler = h => t = s
      BY <1>1, <2>2, <2>4
    <3>3. \A t \in Live(owner, v) \ {next} :
            slots'[t].handler = IF t = s THEN slots[next].handler ELSE slots[t].handler
      BY <1>9, <2>2, <2>4
    <3>4. \A t \in Live(owner, w) \ {next} : slots'[t].handler \in installed'[w]
      BY <1>2, <1>7, <2>1, <2>4, <3>1, <3>2, <3>3
    <3>5. \A t, u \in Live(owner, w) \ {next} : slots'[t].handler = slots'[u].handler => t = u
      BY <2>1, <2>4, <3>1, <3>3
    <3>6. ASSUME NEW g \in installed'[w] PROVE \E t \in Live(owner, w) \ {next} : slots'[t].handler = g
      <4>1. g \in installed[w] /\ g # h
        BY <1>2, <2>4
      <4>2. PICK u \in Live(owner, w) : slots[u].handler = g
        BY <1>1, <2>1, <2>4, <4>1
      <4>3. u # s
        BY <4>1, <4>2
      <4>4. CASE u = next
        BY <1>7, <2>4, <3>1, <3>3, <4>2, <4>4
      <4>5. CASE u # next
        BY <2>4, <3>3, <4>2, <4>3, <4>5
      <4> QED
        BY <4>4, <4>5
    <3> QED
      BY <1>1, <2>4, <3>4, <3>5, <3>6
  <2> QED
    BY <2>3, <2>4
<1>25. OrderInv(o2)'
  <2> SUFFICES ASSUME NEW t \in Slot, o2[t] \in Vector, slots'[t].link \in Slot,
                      slots'[slots'[t].link].link # Trashed
               PROVE  slots'[t].priority >= slots'[slots'[t].link].priority
    BY DEF OrderInv
  <2>0. \A u \in Slot : owner[u] \in Vector /\ slots[u].link \in Slot
                        /\ slots[slots[u].link].link # Trashed =>
                          slots[u].priority >= slots[slots[u].link].priority
    BY DEF ChainInvAt, OrderInv
  <2>1. t # next /\ owner[t] \in Vector
    BY <1>13
  <2>2. CASE t = s
    <3>1. PICK u : u = slots[next].link
      OBVIOUS
    <3>2. slots'[t].link = u /\ u \in Slot
      BY <1>9, <2>2, <3>1
    <3>3. u # s /\ u # next
      BY <1>4, <1>6, <1>7, <3>1, <3>2
    <3>4. slots'[u] = slots[u]
      BY <1>9, <3>2, <3>3
    <3>5. slots[next].priority >= slots[u].priority
      BY <1>6, <1>7, <2>0, <3>1, <3>2, <3>4
    <3> QED
      BY <1>9, <2>2, <3>2, <3>4, <3>5
  <2>3. CASE t # s
    <3>1. slots'[t] = slots[t]
      BY <1>9, <2>1, <2>3
    <3>2. slots[t].link # next
      BY <1>8, <2>3
    <3>3. CASE slots[t].link = s
      <4>1. slots[t].priority >= slots[s].priority
        BY <1>6, <2>0, <2>1, <3>3
      <4>2. slots[next].link # Trashed
        BY <1>6, <1>7, <1>20
      <4>3. slots[s].priority >= slots[next].priority
        BY <1>5, <1>6, <2>0, <4>2
      <4>4. slots[t].priority >= slots[next].priority
        <5>1. slots[t].priority \in Nat /\ slots[s].priority \in Nat /\ slots[next].priority \in Nat
          BY <1>6, TypeFacts DEF ChainInv
        <5> QED
          BY <4>1, <4>3, <5>1
      <4> QED
        BY <1>9, <3>1, <3>3, <4>4
    <3>4. CASE slots[t].link # s
      <4>1. slots'[slots[t].link] = slots[slots[t].link]
        BY <1>9, <3>1, <3>2, <3>4
      <4> QED
        BY <2>0, <2>1, <3>1, <4>1
    <3> QED
      BY <3>3, <3>4
  <2> QED
    BY <2>2, <2>3
<1>26. ChainInvAt(o2, p2, z2)'
  BY <1>17, <1>18, <1>21, <1>22, <1>24, <1>25 DEF ChainInvAt
<1> QED
  BY <1>10, <1>26 DEF ChainInv

LEMMA RemoveChain ==
  ASSUME ChainInv, NEW v \in Vector, NEW h \in Handler, Remove(v, h)
  PROVE  ChainInv'
<1>1. PICK owner, place, size : ChainInvAt(owner, place, size)
  BY DEF ChainInv
<1>2. Removes(v, h)
  BY DEF Remove, Removes
<1>3. CASE IsShared(v) /\ \E s \in Chain(v) : slots[s].handler = h /\ RemoveSlot(v, s)
  <2>1. PICK s \in Chain(v) : slots[s].handler = h /\ RemoveSlot(v, s)
    BY <1>3
  <2>2. s \in Slot /\ owner[s] = v
    <3>1. v \in Owner /\ Firsts[v] = vtable[v]
      BY LinksAre
    <3>2. Chain(v) = {t \in Slot : owner[t] = v}
      BY <1>1, <3>1, ListedIs DEF Chain, ChainInvAt
    <3> QED
      BY <2>1, <3>2
  <2>3. CASE slots[s].link # End /\ RemoveBeforeNext(s)
    BY <1>1, <1>2, <2>1, <2>2, <2>3, CopyNextChain
  <2>4. CASE slots[s].link = End /\ at[v] = "idle" /\ Unlink(v, s)
    BY <1>1, <1>2, <2>1, <2>2, <2>4, UnlinkChain
  <2>5. CASE slots[s].link = End /\ at[v] # "idle" /\ RemoveLater(s)
    BY <1>1, <1>2, <2>1, <2>2, <2>5, RemoveLaterChain
  <2> QED
    BY <2>1, <2>3, <2>4, <2>5 DEF RemoveSlot
<1>4. CASE /\ vtable[v] = h /\ vtable' = [vtable EXCEPT ![v] = Unhandled]
           /\ UNCHANGED <<slots, free_slot_head>>
  BY <1>2, <1>4, RemoveExclusiveChain
<1> QED
  BY <1>3, <1>4 DEF Remove

\* Where Rank finds that the new slot belongs.
LEMMA RankIs ==
  ASSUME IrqTypeOK, NEW owner, NEW place, NEW size, Layout(Links, Firsts, owner, place, size),
         NEW v \in Vector, NEW p \in Nat, NEW n, n = Rank(v, p)
  PROVE  /\ n \in 0..MaxHandlers
         /\ \A m \in 0..(n - 1) : Along(vtable[v])[m] \in Slot /\ slots[Along(vtable[v])[m]].priority > p
         /\ \/ Along(vtable[v])[n] \notin Slot
            \/ slots[Along(vtable[v])[n]].priority <= p
<1> DEFINE f == Along(vtable[v])
           Fits(k) == f[k] \notin Slot \/ slots[f[k]].priority <= p
           Some == {k \in 0..MaxHandlers : f[k] \notin Slot \/ ~(slots[f[k]].priority > p)}
<1>1. v \in Owner /\ Firsts[v] = vtable[v]
  BY LinksAre
<1>2. size[v] \in 0..MaxHandlers /\ f[size[v]] \notin Slot
  <2>1. /\ size[v] \in 0..MaxHandlers
        /\ \A k \in 0..MaxHandlers :
             LET x == Along(Firsts[v])[k] IN
             IF k < size[v] THEN x \in Slot /\ owner[x] = v /\ place[x] = k ELSE x \notin Slot
    BY <1>1, AlongList
  <2>2. ~(size[v] < size[v])
    BY <2>1, IrqChainAssumption
  <2> QED
    BY <1>1, <2>1, <2>2
<1> HIDE DEF f
<1>3. PICK k \in Some : \A m \in Some : k <= m
  <2>1. Some \subseteq Nat /\ Some # {}
    BY <1>2, IrqChainAssumption
  <2> HIDE DEF Some
  <2> QED
    BY <2>1, Least
<1>4. \A m \in 0..(k - 1) : f[m] \in Slot /\ slots[f[m]].priority > p
  <2> SUFFICES ASSUME NEW m \in 0..(k - 1) PROVE m \notin Some /\ m \in 0..MaxHandlers
    OBVIOUS
  <2>1. k \in 0..MaxHandlers
    BY <1>3
  <2>2. m \in 0..MaxHandlers /\ ~(k <= m)
    BY <2>1, IrqChainAssumption
  <2> QED
    BY <1>3, <2>2
<1>5. k \in 0..MaxHandlers /\ Fits(k)
  <2>1. k \in 0..MaxHandlers /\ (f[k] \notin Slot \/ ~(slots[f[k]].priority > p))
    BY <1>3
  <2>2. f[k] \in Slot => slots[f[k]].priority \in Nat
    BY TypeFacts
  <2> QED
    BY <2>1, <2>2
<1>6. \E j \in 0..MaxHandlers :
        /\ \A m \in 0..(j - 1) : f[m] \in Slot /\ slots[f[m]].priority > p
        /\ Fits(j)
  BY <1>4, <1>5
<1>7. n = CHOOSE j \in 0..MaxHandlers :
        /\ \A m \in 0..(j - 1) : f[m] \in Slot /\ slots[f[m]].priority > p
        /\ Fits(j)
  BY DEF Rank, f
<1>8. /\ n \in 0..MaxHandlers
      /\ \A m \in 0..(n - 1) : f[m] \in Slot /\ slots[f[m]].priority > p
      /\ Fits(n)
  <2> HIDE DEF Fits
  <2> QED
    BY <1>6, <1>7
<1> QED
  BY <1>8 DEF f

\* A slot whose link was overwritten is the tail of its chain.
LEMMA TrashedTail ==
  ASSUME NEW owner, NEW place, NEW size, Layout(Links, Firsts, owner, place, size),
         NEW v \in Vector, slots[TailOf(v)].link # Trashed
  PROVE  \A s \in Slot : owner[s] = v => slots[s].link # Trashed
<1> SUFFICES ASSUME NEW s \in Slot, owner[s] = v, slots[s].link = Trashed PROVE FALSE
  OBVIOUS
<1>1. Chain(v) = {t \in Slot : owner[t] = v}
  BY LinksAre, ListedIs DEF Chain
<1>2. \A t \in Slot : owner[t] = v /\ slots[t].link \notin Slot => t = s
  <2> SUFFICES ASSUME NEW t \in Slot, owner[t] = v, slots[t].link \notin Slot PROVE t = s
    OBVIOUS
  <2>1. place[t] + 1 = size[v] /\ place[s] + 1 = size[v]
    BY ConstantsOfChains, LinksAre DEF Layout, LinksFollow
  <2>2. place[t] \in Nat /\ place[s] \in Nat
    BY DEF Layout, LayoutTypes
  <2> QED
    BY <2>1, <2>2 DEF Layout, PlacesDiffer
<1>3. TailOf(v) = s
  BY <1>1, <1>2, ConstantsOfChains DEF TailOf
<1> QED
  BY <1>3

\* irq_add_shared_handler: slot f takes place j of the chain of v.
Inserts(owner, place, v, h, f, j) ==
  /\ slots' \in [Slot -> SlotType]
  /\ slots'[f].handler = h /\ slots'[f].priority = Priority[h]
  /\ slots'[f].inst3 = slots'[f].link /\ (slots'[f].first <=> j = 0)
  /\ slots'[f].link # Trashed
  /\ slots'[f].link \in Slot =>
       slots'[f].link # f /\ slots[slots'[f].link].priority <= Priority[h]
  /\ \A t \in Slot : t # f =>
       /\ slots'[t].handler = slots[t].handler /\ slots'[t].priority = slots[t].priority
       /\ slots'[t].link = Trashed <=> slots[t].link = Trashed
       /\ owner[t] \in Vector =>
            /\ slots'[t].inst3 = slots'[t].link
            /\ slots'[t].first <=> slots[t].first /\ ~(owner[t] = v /\ j = 0)
            /\ slots'[t].link = slots[t].link
               \/ (slots'[t].link = f /\ slots[t].priority >= Priority[h])
  /\ LinksMoved(Links, Firsts, Links', owner, place, f, v, j)
  /\ FirstsMoved(Links, Firsts, Firsts', owner, place, f, v, j)
  /\ vtable' \in [Vector -> Slot \cup Handler \cup {Unhandled}] /\ vtable'[v] \in Slot
  /\ \A w \in Vector : w # v => vtable'[w] = vtable[w]

LEMMA InsertChain ==
  ASSUME ChainInv, NEW owner, NEW place, NEW size, ChainInvAt(owner, place, size),
         NEW v \in Vector, NEW h \in Handler, NEW f \in Slot, NEW j \in 0..size[v],
         f = free_slot_head, h \notin installed[v], adds < MaxAdds, vtable[v] \notin Handler,
         Inserts(owner, place, v, h, f, j), free_slot_head' = slots[f].link,
         installed' = [installed EXCEPT ![v] = @ \cup {h}], adds' = adds + 1,
         UNCHANGED <<execVars, removed, asserted>>
  PROVE  ChainInv'
<1> USE ConstantsOfChains, FreeIsNoVector
<1>1. Layout(Links, Firsts, owner, place, size)
  BY DEF ChainInvAt
<1>2. /\ \A t \in Slot : place[t] \in Nat /\ owner[t] \in Owner
      /\ \A o \in Owner : size[o] \in Nat
      /\ owner[f] = Free /\ place[f] = 0
  BY <1>1, LinksAre DEF Layout, LayoutTypes, FirstsFollow
<1>3. slots[f].link # Trashed
  BY <1>2 DEF ChainInvAt, TrashInv
<1>4. /\ installed'[v] = installed[v] \cup {h}
      /\ \A w \in Vector : w # v => installed'[w] = installed[w]
      /\ installed' \in [Vector -> SUBSET Handler]
      /\ UNCHANGED <<at, pos, running, removed, asserted>>
  BY DEF ChainInv, IrqTypeOK, execVars
<1>5. IrqTypeOK'
  <2>1. slots[f].link \in Slot \cup {End}
    BY <1>3, TypeFacts DEF ChainInv
  <2>2. slots' \in [Slot -> SlotType] /\ vtable' \in [Vector -> Slot \cup Handler \cup {Unhandled}]
    BY DEF Inserts
  <2>3. adds + 1 \in 0..MaxAdds
    BY DEF ChainInv, IrqTypeOK
  <2> QED
    BY <1>4, <2>1, <2>2, <2>3 DEF ChainInv, IrqTypeOK
<1>6. PICK o2, p2, z2 : /\ o2 = MovedOwner(owner, f, v)
                        /\ p2 = MovedPlace(owner, place, f, v, j)
                        /\ z2 = MovedSize(owner, size, f, v)
  OBVIOUS
<1>7. Movable(owner, size, f, v, j)
  BY <1>2, LinksAre DEF Movable
<1>8. /\ \A t \in Slot : o2[t] = IF t = f THEN v ELSE owner[t]
      /\ \A t \in Slot : p2[t] = IF t = f THEN j
                  ELSE IF owner[t] = owner[f] /\ place[t] > place[f] THEN place[t] - 1
                  ELSE IF owner[t] = v /\ place[t] >= j THEN place[t] + 1
                  ELSE place[t]
  BY <1>1, <1>6, <1>7, MoveFacts DEF Layout
<1>9. Layout(Links', Firsts', o2, p2, z2)
  BY <1>1, <1>6, <1>7, MoveLinks DEF Inserts
<1>10. CodeInv(o2, p2)'
  <2> SUFFICES ASSUME NEW t \in Slot, o2[t] \in Vector
               PROVE  slots'[t].inst3 = slots'[t].link /\ (slots'[t].first <=> p2[t] = 0)
    BY DEF CodeInv
  <2>1. CASE t = f
    BY <1>8, <2>1 DEF Inserts
  <2>2. CASE t # f
    <3>1. owner[t] \in Vector /\ owner[t] # owner[f]
      BY <1>2, <1>8, <2>2
    <3>2. slots[t].first <=> place[t] = 0
      BY <3>1 DEF ChainInvAt, CodeInv
    <3>3. p2[t] = 0 <=> place[t] = 0 /\ ~(owner[t] = v /\ j = 0)
      BY <1>2, <1>8, <2>2, <3>1
    <3>4. slots'[t].inst3 = slots'[t].link /\ (slots'[t].first <=> slots[t].first /\ ~(owner[t] = v /\ j = 0))
      BY <2>2, <3>1 DEF Inserts
    <3> QED
      BY <3>2, <3>3, <3>4
  <2> QED
    BY <2>1, <2>2
<1>11. /\ slots'[f].link # Trashed
       /\ \A t \in Slot : t # f => (slots'[t].link = Trashed <=> slots[t].link = Trashed)
       /\ \A t \in Slot : t # f => slots'[t].handler = slots[t].handler
       /\ slots'[f].handler = h
       /\ vtable'[v] \in Slot /\ \A w \in Vector : w # v => vtable'[w] = vtable[w]
  BY DEF Inserts
<1>12. TrashInv(o2)'
  <2> SUFFICES ASSUME NEW t \in Slot, slots'[t].link = Trashed
               PROVE  /\ o2[t] \in Vector /\ pos'[o2[t]] = t
                      /\ at'[o2[t]] = "tail" \/ (at'[o2[t]] = "handler" /\ removed'[o2[t]])
    BY DEF TrashInv
  <2>1. t # f /\ slots[t].link = Trashed
    BY <1>11
  <2> QED
    BY <1>4, <1>8, <2>1 DEF ChainInvAt, TrashInv
<1>13. ExecInv(o2)'
  <2> SUFFICES ASSUME NEW w \in Vector
               PROVE  /\ pos'[w] # End =>
                           /\ o2[pos'[w]] = w /\ at'[w] # "idle"
                           /\ at'[w] = "handler" /\ ~removed'[w] => slots'[pos'[w]].handler = running'[w]
                      /\ at'[w] = "tail" => pos'[w] # End /\ slots'[pos'[w]].link = Trashed
                      /\ at'[w] = "handler" /\ ~removed'[w] /\ pos'[w] = End => vtable'[w] \in Handler
    BY DEF ExecInv
  <2>1. /\ pos[w] # End =>
             /\ owner[pos[w]] = w /\ at[w] # "idle"
             /\ at[w] = "handler" /\ ~removed[w] => slots[pos[w]].handler = running[w]
        /\ at[w] = "tail" => pos[w] # End /\ slots[pos[w]].link = Trashed
        /\ at[w] = "handler" /\ ~removed[w] /\ pos[w] = End => vtable[w] \in Handler
        /\ pos[w] \in Slot \cup {End}
    BY TypeFacts DEF ChainInv, ChainInvAt, ExecInv
  <2>2. pos[w] # f
    BY <1>2, <2>1
  <2>3. pos[w] # End => /\ slots'[pos[w]].handler = slots[pos[w]].handler
                        /\ slots'[pos[w]].link = Trashed <=> slots[pos[w]].link = Trashed
                        /\ o2[pos[w]] = owner[pos[w]]
    BY <1>8, <1>11, <2>1, <2>2
  <2>4. vtable[w] \in Handler => vtable'[w] = vtable[w]
    BY <1>11
  <2> QED
    BY <1>4, <2>1, <2>3, <2>4
<1>14. \A w \in Vector : Live(o2, w)' = IF w = v THEN Live(owner, w) \cup {f} ELSE Live(owner, w)
  <2>1. \A t \in Slot, w \in Vector :
          (o2[t] = w /\ slots'[t].link # Trashed)
            <=> ((owner[t] = w /\ slots[t].link # Trashed) \/ (w = v /\ t = f))
    BY <1>2, <1>8, <1>11
  <2> QED
    BY <2>1 DEF Live
<1>15. HandlersInv(o2)'
  <2> SUFFICES ASSUME NEW w \in Vector
               PROVE  /\ \A t \in Live(o2, w)' : slots'[t].handler \in installed'[w]
                      /\ \A t, u \in Live(o2, w)' : slots'[t].handler = slots'[u].handler => t = u
                      /\ vtable'[w] \in Slot =>
                           \A g \in installed'[w] : \E t \in Live(o2, w)' : slots'[t].handler = g
                      /\ vtable'[w] = Unhandled => installed'[w] = {}
                      /\ vtable'[w] \in Handler => installed'[w] = {vtable'[w]}
    BY DEF HandlersInv, IsShared
  <2>1. /\ \A t \in Live(owner, w) : slots[t].handler \in installed[w]
        /\ \A t, u \in Live(owner, w) : slots[t].handler = slots[u].handler => t = u
        /\ vtable[w] \in Slot => \A g \in installed[w] : \E t \in Live(owner, w) : slots[t].handler = g
        /\ vtable[w] = Unhandled => installed[w] = {}
        /\ vtable[w] \in Handler => installed[w] = {vtable[w]}
    BY DEF ChainInvAt, HandlersInv, IsShared
  <2>2. \A t \in Live(owner, w) : t \in Slot /\ owner[t] = w /\ t # f /\ slots'[t].handler = slots[t].handler
    BY <1>2, <1>11 DEF Live
  <2>3. CASE w # v
    <3>1. Live(o2, w)' = Live(owner, w) /\ vtable'[w] = vtable[w] /\ installed'[w] = installed[w]
      BY <1>4, <1>11, <1>14, <2>3
    <3> QED
      BY <2>1, <2>2, <3>1
  <2>4. CASE w = v
    <3>1. Live(o2, w)' = Live(owner, w) \cup {f} /\ installed'[w] = installed[w] \cup {h}
      BY <1>4, <1>14, <2>4
    <3>2. \A t \in Live(owner, w) : slots[t].handler # h
      BY <2>1, <2>4
    <3>3. \A t \in Live(o2, w)' : slots'[t].handler \in installed'[w]
      BY <1>11, <2>1, <2>2, <3>1
    <3>4. \A t, u \in Live(o2, w)' : slots'[t].handler = slots'[u].handler => t = u
      BY <1>11, <2>1, <2>2, <3>1, <3>2
    <3>5. ASSUME NEW g \in installed'[w] PROVE \E t \in Live(o2, w)' : slots'[t].handler = g
      <4>1. CASE g = h
        BY <1>11, <3>1, <4>1
      <4>2. CASE g # h
        <5>1. g \in installed[w]
          BY <3>1, <4>2
        <5>2. vtable[w] \in Slot
          BY <2>1, <2>4, <5>1 DEF ChainInv, IrqTypeOK
        <5> QED
          BY <2>1, <2>2, <3>1, <5>1, <5>2
      <4> QED
        BY <4>1, <4>2
    <3> QED
      BY <1>11, <2>4, <3>3, <3>4, <3>5
  <2> QED
    BY <2>3, <2>4
<1>16. OrderInv(o2)'
  <2> SUFFICES ASSUME NEW t \in Slot, o2[t] \in Vector, slots'[t].link \in Slot,
                      slots'[slots'[t].link].link # Trashed
               PROVE  slots'[t].priority >= slots'[slots'[t].link].priority
    BY DEF OrderInv
  <2>1. CASE t = f
    <3>1. PICK u : u = slots'[f].link
      OBVIOUS
    <3>2. u \in Slot /\ u # f /\ slots[u].priority <= Priority[h]
      BY <2>1, <3>1 DEF Inserts
    <3>3. slots'[u].priority = slots[u].priority /\ slots'[f].priority = Priority[h]
      BY <3>2 DEF Inserts
    <3>4. slots[u].priority \in Nat
      BY <3>2, TypeFacts DEF ChainInv
    <3> QED
      BY <2>1, <3>1, <3>2, <3>3, <3>4
  <2>2. CASE t # f
    <3>1. owner[t] \in Vector
      BY <1>8, <2>2
    <3>2. /\ slots'[t].priority = slots[t].priority
          /\ slots'[t].link = slots[t].link
             \/ (slots'[t].link = f /\ slots[t].priority >= Priority[h])
      BY <2>2, <3>1 DEF Inserts
    <3>3. CASE slots'[t].link = f
      <4>1. slots[t].link # f
        <5>1. slots[t].link = f => owner[f] = owner[t]
          BY <1>1, LinksAre DEF Layout, LinksFollow
        <5> QED
          BY <1>2, <3>1, <5>1
      <4> QED
        BY <3>2, <3>3, <4>1 DEF Inserts
    <3>4. CASE slots'[t].link # f
      <4>1. slots'[t].link = slots[t].link /\ slots[t].link \in Slot /\ slots[t].link # f
        BY <3>2, <3>4
      <4>2. slots[slots[t].link].link # Trashed /\ slots'[slots[t].link].priority = slots[slots[t].link].priority
        BY <1>11, <4>1 DEF Inserts
      <4> QED
        BY <3>1, <3>2, <4>1, <4>2 DEF ChainInvAt, OrderInv
    <3> QED
      BY <3>3, <3>4
  <2> QED
    BY <2>1, <2>2
<1>17. ChainInvAt(o2, p2, z2)'
  BY <1>9, <1>10, <1>12, <1>13, <1>15, <1>16 DEF ChainInvAt
<1> QED
  BY <1>5, <1>17 DEF ChainInv

NewSlot(h) ==
  [first |-> FALSE, inst3 |-> End, link |-> End, priority |-> Priority[h], handler |-> h]

\* What the invariant says where a slot is inserted.
LEMMA InsertFacts ==
  ASSUME ChainInv, NEW owner, NEW place, NEW size, ChainInvAt(owner, place, size),
         NEW v \in Vector, NEW f \in Slot, f = free_slot_head
  PROVE  /\ \A t \in Slot : place[t] \in Nat /\ owner[t] \in Owner /\ place[t] < size[owner[t]]
         /\ \A o \in Owner : size[o] \in Nat
         /\ owner[f] = Free /\ place[f] = 0 /\ owner[f] # v
         /\ \A t \in Slot : place[t] + 1 # 0
         /\ \A t \in Slot : slots[t].link \in Slot => owner[slots[t].link] = owner[t]
         /\ \A t \in Slot : owner[t] \in Vector =>
              slots[t].inst3 = slots[t].link /\ (slots[t].first <=> place[t] = 0)
         /\ \A t, u \in Slot : owner[t] = owner[u] /\ place[t] = place[u] => t = u
         /\ v \in Owner /\ vtable \in [Vector -> Slot \cup Handler \cup {Unhandled}]
         /\ f # End /\ f # Trashed
<1>1. Layout(Links, Firsts, owner, place, size) /\ CodeInv(owner, place)
  BY DEF ChainInvAt
<1>2. owner[f] = Free /\ place[f] = 0
  BY <1>1, LinksAre, FreeIsNoVector DEF Layout, FirstsFollow
<1>3. \A t \in Slot : place[t] \in Nat /\ owner[t] \in Owner /\ place[t] < size[owner[t]]
  BY <1>1 DEF Layout, LayoutTypes, PlacesFilled
<1>4. \A t \in Slot : slots[t].link \in Slot => owner[slots[t].link] = owner[t]
  BY <1>1, LinksAre DEF Layout, LinksFollow
<1>5. /\ \A o \in Owner : size[o] \in Nat
      /\ \A t, u \in Slot : owner[t] = owner[u] /\ place[t] = place[u] => t = u
  BY <1>1 DEF Layout, LayoutTypes, PlacesDiffer
<1>6. v \in Owner /\ v # Free /\ vtable \in [Vector -> Slot \cup Handler \cup {Unhandled}]
  BY LinksAre DEF ChainInv, IrqTypeOK
<1>7. \A t \in Slot : place[t] + 1 # 0
  BY <1>3
<1> QED
  BY <1>1, <1>2, <1>3, <1>4, <1>5, <1>6, <1>7, ConstantsOfChains DEF CodeInv

LEMMA LinksNext ==
  /\ \A t \in Slot : Links'[t] = slots'[t].link
  /\ \A w \in Vector : Firsts'[w] = vtable'[w]
  /\ Firsts'[Free] = free_slot_head'
BY LinksAre DEF Links, Firsts, Owner

LEMMA AddFirstInserts ==
  ASSUME ChainInv, NEW owner, NEW place, NEW size, ChainInvAt(owner, place, size),
         NEW v \in Vector, NEW h \in Handler, NEW f \in Slot, f = free_slot_head,
         free_slot_head' = slots[f].link, vtable[v] = Unhandled, AddFirst(v, NewSlot(h))
  PROVE  Inserts(owner, place, v, h, f, 0)
<1> USE ConstantsOfChains
<1>1. /\ \A t \in Slot : place[t] \in Nat /\ owner[t] \in Owner /\ place[t] < size[owner[t]]
      /\ owner[f] = Free /\ place[f] = 0 /\ owner[f] # v
      /\ \A t \in Slot : place[t] + 1 # 0
      /\ \A t \in Slot : owner[t] \in Vector => slots[t].inst3 = slots[t].link
      /\ v \in Owner /\ vtable \in [Vector -> Slot \cup Handler \cup {Unhandled}]
      /\ f # End /\ f # Trashed
  BY InsertFacts
<1>2. \A t \in Slot : owner[t] # v
  BY EmptyList, LinksAre DEF ChainInvAt
<1>3. /\ slots' = [slots EXCEPT ![f] = [NewSlot(h) EXCEPT !.first = TRUE]]
      /\ vtable' = [vtable EXCEPT ![v] = f]
  BY DEF AddFirst
<1>4. slots \in [Slot -> SlotType]
  BY TypeFacts DEF ChainInv
<1>5. /\ [NewSlot(h) EXCEPT !.first = TRUE] \in SlotType
      /\ slots'[f] = [NewSlot(h) EXCEPT !.first = TRUE]
      /\ \A t \in Slot : t # f => slots'[t] = slots[t]
  BY <1>3, <1>4 DEF NewSlot
<1>6. /\ slots'[f].handler = h /\ slots'[f].priority = Priority[h]
      /\ slots'[f].inst3 = End /\ slots'[f].link = End /\ slots'[f].first = TRUE
  BY <1>5 DEF NewSlot
<1>7. slots' \in [Slot -> SlotType]
  <2> HIDE DEF SlotType
  <2> QED
    BY <1>3, <1>4, <1>5
<1>8. LinksMoved(Links, Firsts, Links', owner, place, f, v, 0)
  <2>1. \A t \in Slot : t # f => Links'[t] = Links[t]
    BY <1>5, LinksAre, LinksNext
  <2>2. Same(Links'[f], Firsts[v])
    BY <1>6, LinksAre, LinksNext DEF Same
  <2> QED
    BY <1>1, <2>1, <2>2 DEF LinksMoved, Same
<1>9. vtable'[v] = f /\ \A w \in Vector : w # v => vtable'[w] = vtable[w]
  BY <1>1, <1>3
<1>10. FirstsMoved(Links, Firsts, Firsts', owner, place, f, v, 0)
  <2>1. Firsts'[Free] = Links[f] /\ Firsts'[v] = f
    BY <1>9, LinksAre, LinksNext
  <2>2. \A w \in Vector : w # v => Firsts'[w] = Firsts[w]
    BY <1>9, LinksAre, LinksNext
  <2> QED
    BY <1>1, <2>1, <2>2 DEF FirstsMoved, Same, Owner
<1>11. vtable' \in [Vector -> Slot \cup Handler \cup {Unhandled}]
  BY <1>1, <1>3
<1> HIDE DEF SlotType
<1> QED
  BY <1>1, <1>2, <1>5, <1>6, <1>7, <1>8, <1>9, <1>10, <1>11 DEF Inserts

LEMMA AddHeadInserts ==
  ASSUME ChainInv, NEW owner, NEW place, NEW size, ChainInvAt(owner, place, size),
         NEW v \in Vector, NEW h \in Handler, NEW f \in Slot, f = free_slot_head,
         free_slot_head' = slots[f].link, vtable[v] \in Slot,
         slots[vtable[v]].priority <= Priority[h], AddHead(v, NewSlot(h))
  PROVE  Inserts(owner, place, v, h, f, 0)
<1> USE ConstantsOfChains
<1>1. /\ \A t \in Slot : place[t] \in Nat /\ owner[t] \in Owner /\ place[t] < size[owner[t]]
      /\ owner[f] = Free /\ place[f] = 0 /\ owner[f] # v
      /\ \A t \in Slot : place[t] + 1 # 0
      /\ \A t \in Slot : owner[t] \in Vector =>
           slots[t].inst3 = slots[t].link /\ (slots[t].first <=> place[t] = 0)
      /\ \A t, u \in Slot : owner[t] = owner[u] /\ place[t] = place[u] => t = u
      /\ v \in Owner /\ vtable \in [Vector -> Slot \cup Handler \cup {Unhandled}]
      /\ f # End /\ f # Trashed
  BY InsertFacts
<1>2. PICK first : first = vtable[v]
  OBVIOUS
<1>3. first \in Slot /\ owner[first] = v /\ place[first] = 0 /\ first # f
  BY <1>1, <1>2, LinksAre DEF ChainInvAt, Layout, FirstsFollow
<1>4. /\ slots' = [slots EXCEPT ![f] = [NewSlot(h) EXCEPT !.first = TRUE, !.inst3 = first, !.link = first],
                                ![first] = [@ EXCEPT !.first = FALSE]]
      /\ vtable' = [vtable EXCEPT ![v] = f]
  <2>1. /\ slots' = [slots EXCEPT ![f] = [NewSlot(h) EXCEPT !.first = TRUE, !.inst3 = first, !.link = first],
                                  ![first].first = FALSE]
        /\ vtable' = [vtable EXCEPT ![v] = f]
    BY <1>2 DEF AddHead
  <2>2. slots \in [Slot -> SlotType]
    BY TypeFacts DEF ChainInv
  <2> QED
    BY <1>3, <2>1, <2>2
<1>5. slots \in [Slot -> SlotType] /\ slots[first] \in SlotType
  BY <1>3, TypeFacts DEF ChainInv
<1>6. /\ slots'[f] = [NewSlot(h) EXCEPT !.first = TRUE, !.inst3 = first, !.link = first]
      /\ slots'[first] = [slots[first] EXCEPT !.first = FALSE]
      /\ \A t \in Slot : t # f /\ t # first => slots'[t] = slots[t]
  BY <1>3, <1>4, <1>5
<1>7. /\ slots'[f] \in SlotType
      /\ slots'[f].handler = h /\ slots'[f].priority = Priority[h]
      /\ slots'[f].inst3 = first /\ slots'[f].link = first /\ slots'[f].first = TRUE
  BY <1>3, <1>6 DEF NewSlot
<1>8. /\ slots'[first] \in SlotType /\ slots'[first].first = FALSE
      /\ slots'[first].handler = slots[first].handler
      /\ slots'[first].priority = slots[first].priority
      /\ slots'[first].inst3 = slots[first].inst3 /\ slots'[first].link = slots[first].link
  <2>1. PICK r \in SlotType : r = slots[first]
    BY <1>5
  <2>2. PICK r2 : r2 = slots'[first]
    OBVIOUS
  <2>3. r2 = [r EXCEPT !.first = FALSE]
    BY <1>6, <2>1, <2>2
  <2>4. /\ r2 \in SlotType /\ r2.first = FALSE /\ r2.handler = r.handler
        /\ r2.priority = r.priority /\ r2.inst3 = r.inst3 /\ r2.link = r.link
    BY <2>3
  <2> QED
    BY <2>1, <2>2, <2>4
<1>9. slots' \in [Slot -> SlotType]
  <2> HIDE DEF SlotType
  <2>1. slots' = [t \in Slot |-> slots'[t]]
    BY <1>4, <1>5
  <2>2. \A t \in Slot : slots'[t] \in SlotType
    BY <1>5, <1>6, <1>7, <1>8
  <2> QED
    BY <2>1, <2>2
<1>10. LinksMoved(Links, Firsts, Links', owner, place, f, v, 0)
  <2>1. \A t \in Slot : t # f => Links'[t] = Links[t]
    BY <1>3, <1>6, <1>8, LinksAre, LinksNext
  <2>2. Same(Links'[f], Firsts[v])
    BY <1>2, <1>7, LinksAre, LinksNext DEF Same
  <2> QED
    BY <1>1, <2>1, <2>2 DEF LinksMoved, Same
<1>11. vtable'[v] = f /\ \A w \in Vector : w # v => vtable'[w] = vtable[w]
  BY <1>1, <1>4
<1>12. FirstsMoved(Links, Firsts, Firsts', owner, place, f, v, 0)
  <2>1. Firsts'[Free] = Links[f] /\ Firsts'[v] = f
    BY <1>11, LinksAre, LinksNext
  <2>2. \A w \in Vector : w # v => Firsts'[w] = Firsts[w]
    BY <1>11, LinksAre, LinksNext
  <2> QED
    BY <1>1, <2>1, <2>2 DEF FirstsMoved, Same, Owner
<1>13. vtable' \in [Vector -> Slot \cup Handler \cup {Unhandled}]
  BY <1>1, <1>4
<1>14. ASSUME NEW t \in Slot, t # f
       PROVE  /\ slots'[t].handler = slots[t].handler /\ slots'[t].priority = slots[t].priority
              /\ slots'[t].link = slots[t].link
              /\ owner[t] \in Vector =>
                   /\ slots'[t].inst3 = slots'[t].link
                   /\ slots'[t].first <=> slots[t].first /\ ~(owner[t] = v /\ 0 = 0)
  <2>1. CASE t = first
    BY <1>1, <1>3, <1>8, <2>1
  <2>2. CASE t # first
    <3>1. slots'[t] = slots[t]
      BY <1>6, <1>14, <2>2
    <3>2. owner[t] = v => place[t] # 0
      BY <1>1, <1>3, <2>2
    <3> QED
      BY <1>1, <3>1, <3>2
  <2> QED
    BY <2>1, <2>2
<1> HIDE DEF SlotType
<1> QED
  BY <1>1, <1>2, <1>3, <1>7, <1>9, <1>10, <1>11, <1>12, <1>13, <1>14 DEF Inserts

LEMMA AddAfterInserts ==
  ASSUME ChainInv, NEW owner, NEW place, NEW size, ChainInvAt(owner, place, size),
         NEW v \in Vector, NEW h \in Handler, NEW f \in Slot, f = free_slot_head,
         free_slot_head' = slots[f].link, vtable[v] \in Slot,
         NEW prev \in Slot, owner[prev] = v, slots[prev].link # Trashed,
         slots[prev].priority > Priority[h],
         slots[prev].link \in Slot => slots[slots[prev].link].priority <= Priority[h],
         AddAfter(prev, NewSlot(h)), NEW j, j = place[prev] + 1
  PROVE  j \in 0..size[v] /\ Inserts(owner, place, v, h, f, j)
<1> USE ConstantsOfChains
<1>1. /\ \A t \in Slot : place[t] \in Nat /\ owner[t] \in Owner /\ place[t] < size[owner[t]]
      /\ \A o \in Owner : size[o] \in Nat
      /\ owner[f] = Free /\ place[f] = 0 /\ owner[f] # v
      /\ \A t \in Slot : place[t] + 1 # 0
      /\ \A t \in Slot : slots[t].link \in Slot => owner[slots[t].link] = owner[t]
      /\ \A t \in Slot : owner[t] \in Vector =>
           slots[t].inst3 = slots[t].link /\ (slots[t].first <=> place[t] = 0)
      /\ \A t, u \in Slot : owner[t] = owner[u] /\ place[t] = place[u] => t = u
      /\ v \in Owner /\ vtable \in [Vector -> Slot \cup Handler \cup {Unhandled}]
      /\ f # End /\ f # Trashed
  BY InsertFacts
<1>2. prev # f /\ j \in 0..size[v] /\ j # 0
  BY <1>1
<1>3. /\ slots' = [slots EXCEPT ![f] = [NewSlot(h) EXCEPT !.inst3 = slots[prev].inst3, !.link = slots[prev].link],
                                ![prev] = [@ EXCEPT !.inst3 = f, !.link = f]]
      /\ vtable' = vtable
  <2>1. /\ slots' = [slots EXCEPT ![f] = [NewSlot(h) EXCEPT !.inst3 = slots[prev].inst3, !.link = slots[prev].link],
                                  ![prev].inst3 = f, ![prev].link = f]
        /\ vtable' = vtable
    BY DEF AddAfter
  <2>2. slots \in [Slot -> SlotType]
    BY TypeFacts DEF ChainInv
  <2> QED
    BY <1>2, <2>1, <2>2
<1>4. slots \in [Slot -> SlotType] /\ slots[prev] \in SlotType
  BY TypeFacts DEF ChainInv
<1>5. /\ slots'[f] = [NewSlot(h) EXCEPT !.inst3 = slots[prev].inst3, !.link = slots[prev].link]
      /\ slots'[prev] = [slots[prev] EXCEPT !.inst3 = f, !.link = f]
      /\ \A t \in Slot : t # f /\ t # prev => slots'[t] = slots[t]
  BY <1>2, <1>3, <1>4
<1>6. /\ slots'[f] \in SlotType
      /\ slots'[f].handler = h /\ slots'[f].priority = Priority[h]
      /\ slots'[f].inst3 = slots[prev].inst3 /\ slots'[f].link = slots[prev].link
      /\ slots'[f].first = FALSE
  BY <1>4, <1>5 DEF NewSlot
<1>7. /\ slots'[prev] \in SlotType /\ slots'[prev].first = slots[prev].first
      /\ slots'[prev].handler = slots[prev].handler
      /\ slots'[prev].priority = slots[prev].priority
      /\ slots'[prev].inst3 = f /\ slots'[prev].link = f
  BY <1>4, <1>5
<1>8. slots' \in [Slot -> SlotType]
  <2>1. slots' = [t \in Slot |-> slots'[t]]
    BY <1>3, <1>4
  <2>2. \A t \in Slot : slots'[t] \in SlotType
    BY <1>4, <1>5, <1>6, <1>7
  <2> HIDE DEF SlotType
  <2> QED
    BY <2>1, <2>2
<1>9. LinksMoved(Links, Firsts, Links', owner, place, f, v, j)
  <2>1. \A t \in Slot : t # f /\ t # prev => Links'[t] = Links[t]
    BY <1>5, LinksAre, LinksNext
  <2>2. Links'[prev] = f /\ Links'[f] = Links[prev]
    BY <1>6, <1>7, LinksAre, LinksNext
  <2>3. \A t \in Slot : owner[t] = v /\ place[t] + 1 = j <=> t = prev
    BY <1>1
  <2>4. \E t \in Slot : owner[t] = v /\ place[t] + 1 = j /\ Same(Links'[f], Links[t])
    BY <2>2, <2>3 DEF Same
  <2> QED
    BY <1>1, <1>2, <2>1, <2>2, <2>3, <2>4 DEF LinksMoved, Same
<1>10. FirstsMoved(Links, Firsts, Firsts', owner, place, f, v, j)
  <2>1. Firsts'[Free] = Links[f]
    BY LinksAre, LinksNext
  <2>2. \A w \in Vector : Firsts'[w] = Firsts[w]
    BY <1>3, LinksAre, LinksNext
  <2> QED
    BY <1>1, <1>2, <2>1, <2>2 DEF FirstsMoved, Same, Owner
<1>11. ASSUME NEW t \in Slot, t # f
       PROVE  /\ slots'[t].handler = slots[t].handler /\ slots'[t].priority = slots[t].priority
              /\ slots'[t].link = Trashed <=> slots[t].link = Trashed
              /\ owner[t] \in Vector =>
                   /\ slots'[t].inst3 = slots'[t].link
                   /\ slots'[t].first <=> slots[t].first /\ ~(owner[t] = v /\ j = 0)
                   /\ slots'[t].link = slots[t].link
                      \/ (slots'[t].link = f /\ slots[t].priority >= Priority[h])
  <2>1. CASE t = prev
    <3>1. slots[prev].priority >= Priority[h]
      <4>1. slots[prev].priority \in Nat /\ Priority[h] \in Nat
        BY TypeFacts DEF ChainInv
      <4> QED
        BY <4>1
    <3> QED
      BY <1>1, <1>2, <1>7, <2>1, <3>1
  <2>2. CASE t # prev
    <3>1. slots'[t] = slots[t]
      BY <1>5, <1>11, <2>2
    <3> QED
      BY <1>1, <1>2, <3>1
  <2> QED
    BY <2>1, <2>2
<1>12. slots'[f].link \in Slot =>
         slots'[f].link # f /\ slots[slots'[f].link].priority <= Priority[h]
  BY <1>1, <1>6
<1>13. slots'[f].inst3 = slots'[f].link /\ (slots'[f].first <=> j = 0) /\ slots'[f].link # Trashed
  BY <1>1, <1>2, <1>6
<1> HIDE DEF SlotType
<1> QED
  BY <1>1, <1>2, <1>3, <1>6, <1>8, <1>9, <1>10, <1>11, <1>12, <1>13 DEF Inserts

LEMMA AddSharedChain ==
  ASSUME ChainInv, NEW v \in Vector, NEW h \in Handler, AddShared(v, h)
  PROVE  ChainInv'
<1> USE ConstantsOfChains
<1>1. PICK owner, place, size : ChainInvAt(owner, place, size)
  BY DEF ChainInv
<1>2. PICK f : f = free_slot_head
  OBVIOUS
<1>3. PICK rank : rank = Rank(v, Priority[h])
  OBVIOUS
<1>4. /\ h \notin installed[v] /\ adds < MaxAdds /\ f # End
      /\ \/ vtable[v] = Unhandled /\ AddFirst(v, NewSlot(h))
         \/ /\ IsShared(v) /\ slots[TailOf(v)].link # Trashed
            /\ IF rank = 0 THEN AddHead(v, NewSlot(h))
               ELSE AddAfter(Along(vtable[v])[rank - 1], NewSlot(h))
      /\ free_slot_head' = slots[f].link
      /\ installed' = [installed EXCEPT ![v] = @ \cup {h}]
      /\ adds' = adds + 1
      /\ UNCHANGED <<execVars, removed, asserted>>
  BY <1>2, <1>3 DEF AddShared, NewSlot
<1>5. f \in Slot
  BY <1>2, <1>4 DEF ChainInv, IrqTypeOK
<1>6. Layout(Links, Firsts, owner, place, size) /\ IrqTypeOK /\ v \in Owner /\ Firsts[v] = vtable[v]
  BY <1>1, LinksAre DEF ChainInv, ChainInvAt
<1>7. size[v] \in Nat /\ 0 \in 0..size[v]
  BY <1>6 DEF Layout, LayoutTypes
<1>8. CASE vtable[v] = Unhandled /\ AddFirst(v, NewSlot(h))
  <2>1. Inserts(owner, place, v, h, f, 0)
    BY <1>1, <1>2, <1>4, <1>5, <1>8, AddFirstInserts
  <2>2. vtable[v] \notin Handler
    BY <1>8
  <2> QED
    BY <1>1, <1>2, <1>4, <1>5, <1>7, <2>1, <2>2, InsertChain
<1>9. CASE /\ IsShared(v) /\ slots[TailOf(v)].link # Trashed
           /\ IF rank = 0 THEN AddHead(v, NewSlot(h))
              ELSE AddAfter(Along(vtable[v])[rank - 1], NewSlot(h))
  <2>1. vtable[v] \in Slot /\ vtable[v] \notin Handler
    BY <1>9 DEF IsShared
  <2>2. /\ rank \in 0..MaxHandlers
        /\ \A m \in 0..(rank - 1) :
             Along(vtable[v])[m] \in Slot /\ slots[Along(vtable[v])[m]].priority > Priority[h]
        /\ \/ Along(vtable[v])[rank] \notin Slot
           \/ slots[Along(vtable[v])[rank]].priority <= Priority[h]
    BY <1>3, <1>6, RankIs
  <2>3. /\ Along(vtable[v])[0] = vtable[v]
        /\ \A n \in 1..MaxHandlers :
             Along(vtable[v])[n] = IF Along(vtable[v])[n - 1] \in Slot
                                   THEN slots[Along(vtable[v])[n - 1]].link ELSE End
    BY AlongIs
  <2>4. CASE rank = 0
    <3>1. slots[vtable[v]].priority <= Priority[h]
      BY <2>1, <2>2, <2>3, <2>4
    <3>2. Inserts(owner, place, v, h, f, 0)
      BY <1>1, <1>2, <1>4, <1>5, <1>9, <2>1, <2>4, <3>1, AddHeadInserts
    <3> QED
      BY <1>1, <1>2, <1>4, <1>5, <1>7, <2>1, <3>2, InsertChain
  <2>5. CASE rank # 0
    <3>1. PICK prev : prev = Along(vtable[v])[rank - 1]
      OBVIOUS
    <3>2. rank \in 1..MaxHandlers /\ rank - 1 \in 0..(rank - 1) /\ rank - 1 \in 0..MaxHandlers
      BY <2>2, <2>5
    <3>3. prev \in Slot /\ slots[prev].priority > Priority[h] /\ Along(vtable[v])[rank] = slots[prev].link
      BY <2>2, <2>3, <3>1, <3>2
    <3>4. slots[prev].link \in Slot => slots[slots[prev].link].priority <= Priority[h]
      BY <2>2, <3>3
    <3>5. owner[prev] = v
      <4>1. IF rank - 1 < size[v] THEN prev \in Slot /\ owner[prev] = v /\ place[prev] = rank - 1
            ELSE prev \notin Slot
        BY <1>6, <3>1, <3>2, AlongList
      <4> QED
        BY <3>3, <4>1
    <3>6. slots[prev].link # Trashed
      BY <1>6, <1>9, <3>3, <3>5, TrashedTail
    <3>7. PICK j : j = place[prev] + 1
      OBVIOUS
    <3>8. j \in 0..size[v] /\ Inserts(owner, place, v, h, f, j)
      <4>1. AddAfter(prev, NewSlot(h))
        BY <1>9, <2>5, <3>1
      <4> QED
        BY <1>1, <1>2, <1>4, <1>5, <2>1, <3>3, <3>4, <3>5, <3>6, <3>7, <4>1, AddAfterInserts
    <3> QED
      BY <1>1, <1>2, <1>4, <1>5, <2>1, <3>8, InsertChain
  <2> QED
    BY <2>4, <2>5
<1> QED
  BY <1>4, <1>8, <1>9
-----------------------------------------------------------------------------
(* The invariant holds *)

LEMMA NextAsserted == ChainInv /\ AssertedInv /\ [IrqNext]_irqVars => AssertedInv'
<1> SUFFICES ASSUME ChainInv, AssertedInv, [IrqNext]_irqVars PROVE AssertedInv'
  OBVIOUS
<1>1. asserted \in [Vector -> SUBSET Handler] /\ installed \in [Vector -> SUBSET Handler]
  BY DEF ChainInv, IrqTypeOK
<1>2. \A v \in Vector : vtable[v] = Unhandled => installed[v] = {}
  BY DEF ChainInv, ChainInvAt, HandlersInv
<1>3. ASSUME NEW v \in Vector, Enter(v) PROVE AssertedInv'
  BY <1>3 DEF Enter, AssertedInv
<1>4. ASSUME NEW v \in Vector, Return(v) PROVE AssertedInv'
  BY <1>1, <1>4 DEF Return, AssertedInv
<1>5. ASSUME NEW v \in Vector, RemoveTail(v) PROVE AssertedInv'
  BY <1>5 DEF RemoveTail, AssertedInv
<1>6. ASSUME NEW v \in Vector, NEW h \in Handler, Assert(v, h) PROVE AssertedInv'
  BY <1>1, <1>6 DEF Assert, AssertedInv
<1>7. ASSUME NEW v \in Vector, NEW h \in Handler, Remove(v, h) PROVE AssertedInv'
  BY <1>1, <1>7 DEF Remove, AssertedInv
<1>8. ASSUME NEW v \in Vector, NEW h \in Handler, SetExclusive(v, h) PROVE AssertedInv'
  BY <1>1, <1>2, <1>8 DEF SetExclusive, AssertedInv
<1>9. ASSUME NEW v \in Vector, NEW h \in Handler, AddShared(v, h) PROVE AssertedInv'
  BY <1>1, <1>9 DEF AddShared, AssertedInv
<1>10. CASE UNCHANGED irqVars
  BY <1>10 DEF irqVars, AssertedInv
<1> QED
  BY <1>3, <1>4, <1>5, <1>6, <1>7, <1>8, <1>9, <1>10 DEF IrqNext, Execute

LEMMA NextChain == ChainInv /\ AssertedInv /\ [IrqNext]_irqVars => ChainInv'
<1> SUFFICES ASSUME ChainInv, AssertedInv, [IrqNext]_irqVars PROVE ChainInv'
  OBVIOUS
<1>1. CASE UNCHANGED irqVars
  <2>1. PICK owner, place, size : ChainInvAt(owner, place, size)
    BY DEF ChainInv
  <2>2. UNCHANGED <<slots, free_slot_head, vtable, at, pos, running, removed, asserted, installed, adds>>
    BY <1>1 DEF irqVars, execVars
  <2>3. IrqTypeOK'
    BY <2>2 DEF ChainInv, IrqTypeOK
  <2>4. TrashInv(owner)' /\ ExecInv(owner)'
    BY <2>1, <2>2 DEF ChainInvAt, TrashInv, ExecInv
  <2> QED
    BY <2>1, <2>2, <2>3, <2>4, ListsKept DEF ChainInv, ChainInvAt
<1> QED
  BY <1>1, EnterChain, ReturnChain, RemoveTailChain, AssertChain, RemoveChain,
     SetExclusiveChain, AddSharedChain DEF IrqNext, Execute

LEMMA ChainInvariance == IrqSpec => [](ChainInv /\ AssertedInv)
<1>1. IrqInit => ChainInv /\ AssertedInv
  BY InitChain DEF IrqInit, AssertedInv
<1>2. ChainInv /\ AssertedInv /\ [IrqNext]_irqVars => (ChainInv /\ AssertedInv)'
  BY NextAsserted, NextChain
<1> QED
  BY <1>1, <1>2, PTL DEF IrqSpec

\* The slots of the lists, for what the properties say of them.
LEMMA ChainsAre ==
  ASSUME NEW owner, NEW place, NEW size, Layout(Links, Firsts, owner, place, size)
  PROVE  /\ \A v \in Vector : /\ Chain(v) = {s \in Slot : owner[s] = v}
                              /\ IsShared(v) => owner[vtable[v]] = v /\ place[vtable[v]] = 0
                              /\ \A s \in Slot : owner[s] = v => IsShared(v)
         /\ Listed(free_slot_head) = {s \in Slot : owner[s] = Free}
         /\ \A s \in Slot : owner[s] \in Owner
<1>1. ASSUME NEW v \in Vector
      PROVE  /\ Chain(v) = {s \in Slot : owner[s] = v}
             /\ IsShared(v) => owner[vtable[v]] = v /\ place[vtable[v]] = 0
             /\ \A s \in Slot : owner[s] = v => IsShared(v)
  <2>1. v \in Owner /\ Firsts[v] = vtable[v]
    BY LinksAre
  <2>2. Listed(Firsts[v]) = {s \in Slot : owner[s] = v}
    BY <2>1, ListedIs
  <2>3. vtable[v] \in Slot => owner[vtable[v]] = v /\ place[vtable[v]] = 0
    BY <2>1 DEF Layout, FirstsFollow
  <2>4. \A s \in Slot : owner[s] = v => vtable[v] \in Slot
    BY <2>1, EmptyList
  <2> QED
    BY <2>1, <2>2, <2>3, <2>4 DEF Chain, IsShared
<1>2. Listed(free_slot_head) = {s \in Slot : owner[s] = Free}
  <2>1. Free \in Owner /\ Firsts[Free] = free_slot_head
    BY LinksAre
  <2>2. Listed(Firsts[Free]) = {s \in Slot : owner[s] = Free}
    BY <2>1, ListedIs
  <2> QED
    BY <2>1, <2>2
<1>3. \A s \in Slot : owner[s] \in Owner
  BY DEF Layout, LayoutTypes
<1> QED
  BY <1>1, <1>2, <1>3

LEMMA AccountedByChainInv == ChainInv => SlotsAccounted
<1> SUFFICES ASSUME ChainInv PROVE SlotsAccounted
  OBVIOUS
<1>1. PICK owner, place, size : ChainInvAt(owner, place, size)
  BY DEF ChainInv
<1>2. /\ \A v \in Vector : /\ Chain(v) = {s \in Slot : owner[s] = v}
                           /\ IsShared(v) => owner[vtable[v]] = v
                           /\ \A s \in Slot : owner[s] = v => IsShared(v)
      /\ Listed(free_slot_head) = {s \in Slot : owner[s] = Free}
      /\ \A s \in Slot : owner[s] \in Owner
  BY <1>1, ChainsAre DEF ChainInvAt
<1>3. PICK lists : lists = {vtable[v] : v \in {w \in Vector : IsShared(w)}} \cup {free_slot_head}
  OBVIOUS
<1>4. \A a \in lists : \/ \E v \in Vector : IsShared(v) /\ a = vtable[v] /\ Listed(a) = Chain(v)
                       \/ a = free_slot_head
  BY <1>3 DEF Chain
<1>5. \A a \in lists : Listed(a) \subseteq Slot
  BY DEF Listed
<1>6. ASSUME NEW s \in Slot PROVE \E a \in lists : s \in Listed(a)
  <2>1. CASE owner[s] = Free
    BY <1>2, <1>3, <2>1
  <2>2. CASE owner[s] \in Vector
    <3>1. IsShared(owner[s]) /\ s \in Listed(vtable[owner[s]])
      BY <1>2, <2>2 DEF Chain
    <3> QED
      BY <1>3, <2>2, <3>1
  <2> QED
    BY <1>2, <2>1, <2>2 DEF Owner
<1>7. UNION {Listed(head) : head \in lists} = Slot
  BY <1>5, <1>6
<1>8. ASSUME NEW a \in lists, NEW b \in lists, NEW s, s \in Listed(a), s \in Listed(b)
      PROVE  a = b
  <2>1. CASE owner[s] = Free
    BY <1>2, <1>4, <1>8, <2>1, FreeIsNoVector
  <2>2. CASE owner[s] # Free
    BY <1>2, <1>4, <1>8, <2>2
  <2> QED
    BY <2>1, <2>2
<1>9. \A v, w \in Vector : v # w /\ IsShared(v) => vtable[v] # vtable[w]
  BY <1>2 DEF IsShared
<1>10. IrqTypeOK
  BY DEF ChainInv
<1> QED
  BY <1>3, <1>7, <1>8, <1>9, <1>10 DEF SlotsAccounted

LEMMA CodeByChainInv == ChainInv => CodeFollowsLinks
<1> SUFFICES ASSUME ChainInv, NEW v \in Vector, IsShared(v)
             PROVE  /\ slots[vtable[v]].first
                    /\ \A s \in Chain(v) :
                         slots[s].inst3 = slots[s].link /\ slots[s].first = (s = vtable[v])
  BY DEF CodeFollowsLinks
<1>1. PICK owner, place, size : ChainInvAt(owner, place, size)
  BY DEF ChainInv
<1>2. /\ Chain(v) = {s \in Slot : owner[s] = v}
      /\ vtable[v] \in Slot /\ owner[vtable[v]] = v /\ place[vtable[v]] = 0
  BY <1>1, ChainsAre DEF ChainInvAt, IsShared
<1>3. \A s \in Slot : owner[s] = v =>
        slots[s].inst3 = slots[s].link /\ (slots[s].first <=> place[s] = 0)
  BY <1>1 DEF ChainInvAt, CodeInv
<1>4. \A s \in Slot : owner[s] = v => (place[s] = 0 <=> s = vtable[v])
  BY <1>1, <1>2 DEF ChainInvAt, Layout, PlacesDiffer
<1>5. \A s \in Slot : slots[s].first \in BOOLEAN
  BY TypeFacts DEF ChainInv
<1> QED
  BY <1>2, <1>3, <1>4, <1>5

LEMMA OrderByChainInv == ChainInv => CalledInOrder
<1> SUFFICES ASSUME ChainInv, NEW v \in Vector, IsShared(v),
                    NEW live, live = {s \in Chain(v) : slots[s].link # Trashed}
             PROVE  /\ {slots[s].handler : s \in live} = installed[v]
                    /\ Cardinality(live) = Cardinality(installed[v])
                    /\ \A s \in live : slots[s].link \in live =>
                         slots[s].priority >= slots[slots[s].link].priority
  BY DEF CalledInOrder
<1>1. PICK owner, place, size : ChainInvAt(owner, place, size)
  BY DEF ChainInv
<1>2. live = {s \in Slot : owner[s] = v /\ slots[s].link # Trashed}
  BY <1>1, ChainsAre DEF ChainInvAt
<1>3. /\ \A s \in live : slots[s].handler \in installed[v]
      /\ \A s, t \in live : slots[s].handler = slots[t].handler => s = t
      /\ \A h \in installed[v] : \E s \in live : slots[s].handler = h
  BY <1>1, <1>2 DEF ChainInvAt, HandlersInv, Live
<1>4. \A s \in live : slots[s].link \in live =>
        slots[s].priority >= slots[slots[s].link].priority
  BY <1>1, <1>2 DEF ChainInvAt, OrderInv
<1>5. IsFiniteSet(live)
  <2>1. 0 \in Int /\ MaxHandlers - 1 \in Int
    BY IrqChainAssumption
  <2>2. IsFiniteSet(Slot)
    BY <2>1, FS_Interval DEF Slot
  <2> QED
    BY <1>2, <2>2, FS_Subset
<1> DEFINE f == [s \in live |-> slots[s].handler]
<1>6. f \in [live -> installed[v]] /\ \A s \in live : f[s] = slots[s].handler
  BY <1>3
<1> HIDE DEF f
<1>7. f \in Bijection(live, installed[v])
  BY <1>3, <1>6 DEF Bijection, Injection, Surjection, IsInjective
<1>8. Cardinality(installed[v]) = Cardinality(live)
  BY <1>5, <1>7, FS_Bijection DEF ExistsBijection
<1> QED
  BY <1>3, <1>4, <1>8

LEMMA ExecutionByChainInv == ChainInv => ExecutionInChain
<1> USE ConstantsOfChains
<1> SUFFICES ASSUME ChainInv, NEW v \in Vector
             PROVE  /\ pos[v] # End =>
                         /\ IsShared(v) /\ pos[v] \in Chain(v)
                         /\ at[v] = "handler" /\ ~removed[v] =>
                              slots[pos[v]].handler = running[v]
                    /\ IsShared(v) => \A s \in Chain(v) : slots[s].link = Trashed => pos[v] = s
  BY DEF ExecutionInChain
<1>1. PICK owner, place, size : ChainInvAt(owner, place, size)
  BY DEF ChainInv
<1>2. /\ Chain(v) = {s \in Slot : owner[s] = v}
      /\ \A s \in Slot : owner[s] = v => IsShared(v)
  BY <1>1, ChainsAre DEF ChainInvAt
<1>3. pos[v] \in Slot \cup {End}
  BY TypeFacts DEF ChainInv
<1>4. pos[v] # End =>
        /\ owner[pos[v]] = v
        /\ at[v] = "handler" /\ ~removed[v] => slots[pos[v]].handler = running[v]
  BY <1>1 DEF ChainInvAt, ExecInv
<1>5. \A s \in Slot : slots[s].link = Trashed => pos[owner[s]] = s
  BY <1>1 DEF ChainInvAt, TrashInv
<1> QED
  BY <1>2, <1>3, <1>4, <1>5

\* hardware_irq, the types: a slot is linked to a slot, to the end of its
\* list, or to irq_handler_chain_remove_tail.
THEOREM IrqTypeCorrect == IrqSpec => []IrqTypeOK
<1>1. ChainInv => IrqTypeOK
  BY DEF ChainInv
<1> QED
  BY <1>1, ChainInvariance, PTL

\* irq_add_shared_handler, irq_remove_handler and irq_add_tail_to_free_list
\* lose no slot and let no slot stand in two lists, for any number of slots,
\* vectors and handlers.
THEOREM SlotsStayAccounted == IrqSpec => []SlotsAccounted
  BY AccountedByChainInv, ChainInvariance, PTL

\* The instructions that irq_add_shared_handler and irq_remove_handler write
\* into the slots of a chain branch to where the links of the chain go, and
\* only the slot the vector enters saves the return address.
THEOREM CodeStaysLinked == IrqSpec => []CodeFollowsLinks
  BY CodeByChainInv, ChainInvariance, PTL

\* A shared chain holds the installed handlers, each once, and goes from the
\* greatest order_priority to the smallest.
THEOREM HandlersStayOrdered == IrqSpec => []CalledInOrder
  BY OrderByChainInv, ChainInvariance, PTL

\* A handler returns into its own slot, in the chain of its vector, whatever
\* irq_remove_handler and irq_add_shared_handler did meanwhile.
THEOREM ExecutionStaysInChain == IrqSpec => []ExecutionInChain
  BY ExecutionByChainInv, ChainInvariance, PTL
=============================================================================
