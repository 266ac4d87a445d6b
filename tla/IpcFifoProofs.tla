--------------------------- MODULE IpcFifoProofs ---------------------------
(***************************************************************************)
(* Proofs about the shared-memory FIFO, for any ring size, any number of   *)
(* threads and fewer buffers than slots.                                   *)
(***************************************************************************)
EXTENDS IpcFifo, FiniteSetTheorems, SequenceTheorems, TLAPS

LEMMA MaxType ==
  MAX \in Nat /\ MAX > 0
  BY MaxAssumption

\* The cursor arithmetic stays in the ring.
LEMMA IncrementType ==
  ASSUME NEW i \in Index
  PROVE  FIFOINCREMENT(i) \in Index
  BY MaxType DEF Index, FIFOINCREMENT, ClearMaxBit

\* The thread in the region is the one that fills a slot, and only it holds a
\* message.
RegionInv ==
  /\ \A t \in Threads : pc[t] = "index" <=> region = t
  /\ \A t \in Threads : pc[t] = "index" =>
       /\ orig[t] = WriteIndex
       /\ msg[t] \in Buffers
       /\ Slot[WriteIndex] = msg[t]
  /\ \A t \in Threads : pc[t] # "index" => msg[t] = NoBuffer

\* What the reader has found out is still so.
ReaderInv ==
  /\ rpc \in {"load", "advance"} => ReadIndex # WriteIndex
  /\ rpc = "advance" => rbuf = Slot[ReadIndex]

Base == TypeOK /\ RegionInv
-----------------------------------------------------------------------------
LEMMA BaseStep ==
  ASSUME Base, rbuf \in Buffers \/ rpc # "advance", [Next]_vars
  PROVE  Base'
<1> USE MaxType, BuffersAssumption DEF Base, TypeOK, RegionInv, writerVars, readerVars
<1>1. ASSUME NEW t \in Threads, NEW b \in Buffers, WriteSlot(t, b)
      PROVE  Base'
  BY <1>1 DEF WriteSlot
<1>2. ASSUME NEW t \in Threads, WriteAdvance(t)
      PROVE  Base'
  <2>1. WriteIndex' \in Index
    BY <1>2, IncrementType DEF WriteAdvance
  <2>2. \A u \in Threads : u # t => pc[u] # "index"
    BY <1>2 DEF WriteAdvance
  <2> QED BY <1>2, <2>1, <2>2 DEF WriteAdvance
<1>3. ASSUME NEW t \in Threads, WriteCheck(t)
      PROVE  Base'
  <2>1. 0 \in Index
    BY DEF Index
  <2> QED BY <1>3, <2>1 DEF WriteCheck
<1>4. ASSUME NEW t \in Threads, WriteRaise(t)
      PROVE  Base'
  BY <1>4 DEF WriteRaise
<1>5. CASE Interrupt \/ OtherInterrupt
  BY <1>5 DEF Interrupt, OtherInterrupt
<1>6. CASE WorkStart
  BY <1>6 DEF WorkStart
<1>7. CASE ReadTest
  BY <1>7 DEF ReadTest
<1>8. CASE ReadSlot
  BY <1>8 DEF ReadSlot
<1>9. CASE ReadAdvance
  <2>1. ReadIndex' \in Index
    BY <1>9, IncrementType DEF ReadAdvance, Deliver
  <2> QED BY <1>9, <2>1 DEF ReadAdvance, Deliver
<1>10. ASSUME NEW b \in Buffers, Recycle(b)
       PROVE  Base'
  BY <1>10 DEF Recycle
<1>11. CASE UNCHANGED vars
  BY <1>11 DEF vars
<1> QED
  BY <1>1, <1>2, <1>3, <1>4, <1>5, <1>6, <1>7, <1>8, <1>9, <1>10, <1>11 DEF Next

\* The wakeup is not lost: the writer that filled the slot under the read
\* cursor remembers it, and the reader sleeps only on an empty FIFO.
LEMMA NoLostWakeupStep ==
  ASSUME Base, NoLostWakeup, [Next]_vars
  PROVE  NoLostWakeup'
<1> USE DEF Base, TypeOK, RegionInv, writerVars, readerVars
<1>1. ASSUME NEW t \in Threads, NEW b \in Buffers, WriteSlot(t, b)
      PROVE  NoLostWakeup'
  BY <1>1 DEF WriteSlot, NoLostWakeup
<1>2. ASSUME NEW t \in Threads, WriteAdvance(t)
      PROVE  NoLostWakeup'
  <2>1. CASE ReadIndex = WriteIndex
    <3>1. pc'[t] = "check" /\ orig'[t] = ReadIndex'
      BY <1>2, <2>1 DEF WriteAdvance
    <3> QED BY <3>1 DEF NoLostWakeup
  <2>2. CASE ReadIndex # WriteIndex
    BY <1>2, <2>2 DEF WriteAdvance, NoLostWakeup
  <2> QED BY <2>1, <2>2
<1>3. ASSUME NEW t \in Threads, WriteCheck(t)
      PROVE  NoLostWakeup'
  BY <1>3 DEF WriteCheck, NoLostWakeup
<1>4. ASSUME NEW t \in Threads, WriteRaise(t)
      PROVE  NoLostWakeup'
  BY <1>4 DEF WriteRaise, NoLostWakeup
<1>5. CASE Interrupt \/ OtherInterrupt
  BY <1>5 DEF Interrupt, OtherInterrupt, NoLostWakeup
<1>6. CASE WorkStart
  BY <1>6 DEF WorkStart, NoLostWakeup
<1>7. CASE ReadTest
  BY <1>7 DEF ReadTest, NoLostWakeup
<1>8. CASE ReadSlot
  BY <1>8 DEF ReadSlot, NoLostWakeup
<1>9. CASE ReadAdvance
  BY <1>9 DEF ReadAdvance, Deliver, NoLostWakeup
<1>10. ASSUME NEW b \in Buffers, Recycle(b)
       PROVE  NoLostWakeup'
  BY <1>10 DEF Recycle, NoLostWakeup
<1>11. CASE UNCHANGED vars
  BY <1>11 DEF vars, NoLostWakeup
<1> QED
  BY <1>1, <1>2, <1>3, <1>4, <1>5, <1>6, <1>7, <1>8, <1>9, <1>10, <1>11 DEF Next
-----------------------------------------------------------------------------
(* The ring.                                                               *)

LEMMA RingFacts ==
  ASSUME ReadIndex \in Index, WriteIndex \in Index
  PROVE  /\ FIFOCOUNT \in 0..MAX-1
         /\ FIFOCOUNT = 0 <=> ReadIndex = WriteIndex
         /\ \A k \in 0..MAX-1 : At(k) \in Index
         /\ At(FIFOCOUNT) = WriteIndex
         /\ \A k \in 0..FIFOCOUNT-1 : At(k) # WriteIndex
         /\ At(0) = ReadIndex
  BY MaxType DEF Index, FIFOCOUNT, At, ClearMaxBit

LEMMA ContentsFacts ==
  ASSUME ReadIndex \in Index, WriteIndex \in Index
  PROVE  /\ DOMAIN Contents = 1..FIFOCOUNT
         /\ \A k \in 1..FIFOCOUNT : Contents[k] = Slot[At(k - 1)]
  BY RingFacts DEF Contents

\* A CPU owns fewer buffers than the ring has slots, so while a buffer is
\* being written there is a free slot behind it.
LEMMA RingNotFull ==
  ASSUME Base, OnePlace
  PROVE  /\ NeverWraps
         /\ \A t \in Threads : pc[t] = "index" => FIFOCOUNT + 1 < MAX
<1> SUFFICES ASSUME NEW t \in Threads, pc[t] = "index"
             PROVE  FIFOCOUNT + 1 < MAX /\ FIFOINCREMENT(WriteIndex) # ReadIndex
  BY DEF NeverWraps
<1>0. ReadIndex \in Index /\ WriteIndex \in Index
  BY DEF Base, TypeOK
<1> DEFINE n == FIFOCOUNT
           f == [k \in 1..n+1 |-> IF k = n + 1 THEN msg[t] ELSE Contents[k]]
<1>1. n \in 0..MAX-1 /\ DOMAIN Contents = 1..n
  BY <1>0, RingFacts, ContentsFacts
<1>2. msg[t] \in Buffers
  BY DEF Base, RegionInv
<1>3. \A k \in 1..n : Contents[k] \in Buffers /\ Contents[k] # msg[t]
  BY <1>1 DEF OnePlace
<1>4. f \in [1..n+1 -> Buffers]
  BY <1>1, <1>2, <1>3, MaxType
<1>5. \A j, k \in 1..n+1 : f[j] = f[k] => j = k
  <2>1. ASSUME NEW j \in 1..n+1, NEW k \in 1..n+1, f[j] = f[k]
        PROVE  j = k
    <3>1. CASE j = n + 1 /\ k = n + 1
      BY <3>1
    <3>2. CASE j = n + 1 /\ k # n + 1
      BY <1>1, <1>3, <2>1, <3>2, MaxType
    <3>3. CASE j # n + 1 /\ k = n + 1
      BY <1>1, <1>3, <2>1, <3>3, MaxType
    <3>4. CASE j # n + 1 /\ k # n + 1
      <4>1. j \in DOMAIN Contents /\ k \in DOMAIN Contents /\ Contents[j] = Contents[k]
        BY <1>1, <2>1, <3>4, MaxType
      <4> QED BY <4>1 DEF OnePlace
    <3> QED BY <3>1, <3>2, <3>3, <3>4
  <2> QED BY <2>1
<1>6. IsFiniteSet(1..n+1) /\ Cardinality(1..n+1) = n + 1
  BY <1>1, MaxType, FS_Interval
<1>7. Cardinality(Buffers) \in Nat /\ Cardinality(Buffers) < MAX
  BY BuffersAssumption, FS_CardinalityType
<1>8. n + 1 <= Cardinality(Buffers)
  <2>1. SUFFICES ASSUME Cardinality(Buffers) < Cardinality(1..n+1)
                 PROVE  FALSE
    BY <1>1, <1>6, <1>7, MaxType
  <2>2. \E x, y \in 1..n+1 : x # y /\ f[x] = f[y]
    <3> DEFINE S == 1..n+1
    <3>1. IsFiniteSet(S) /\ IsFiniteSet(Buffers) /\ f \in [S -> Buffers]
      BY <1>4, <1>6, BuffersAssumption
    <3>2. Cardinality(Buffers) < Cardinality(S)
      BY <2>1
    <3> HIDE DEF f, S
    <3>3. \E x, y \in S : x # y /\ f[x] = f[y]
      BY <3>1, <3>2, FS_PigeonHole, Zenon
    <3> QED BY <3>3 DEF S
  <2> QED BY <1>5, <2>2
<1>9. FIFOCOUNT + 1 < MAX
  BY <1>1, <1>7, <1>8, MaxType
<1> QED BY <1>0, <1>9, MaxType DEF Index, FIFOCOUNT, FIFOINCREMENT, ClearMaxBit

\* How each step changes what is in the FIFO.
LEMMA WriteSlotContents ==
  ASSUME Base, NEW t \in Threads, NEW b \in Buffers, WriteSlot(t, b)
  PROVE  Contents' = Contents
<1>0. ReadIndex \in Index /\ WriteIndex \in Index
  BY DEF Base, TypeOK
<1>1. ReadIndex' = ReadIndex /\ WriteIndex' = WriteIndex
  BY DEF WriteSlot
<1>2. FIFOCOUNT' = FIFOCOUNT /\ \A k : At(k)' = At(k)
  BY <1>1 DEF FIFOCOUNT, At
<1>3. \A k \in 1..FIFOCOUNT : Slot'[At(k - 1)] = Slot[At(k - 1)]
  <2> SUFFICES ASSUME NEW k \in 1..FIFOCOUNT
               PROVE  Slot'[At(k - 1)] = Slot[At(k - 1)]
    OBVIOUS
  <2>1. k - 1 \in 0..FIFOCOUNT-1 /\ k - 1 \in 0..MAX-1
    BY <1>0, RingFacts, MaxType
  <2>2. At(k - 1) \in Index /\ At(k - 1) # WriteIndex
    BY <1>0, <2>1, RingFacts
  <2> QED BY <2>2 DEF WriteSlot, Base, TypeOK
<1> QED BY <1>2, <1>3 DEF Contents

LEMMA WriteAdvanceContents ==
  ASSUME Base, OnePlace, NEW t \in Threads, WriteAdvance(t)
  PROVE  /\ FIFOCOUNT' = FIFOCOUNT + 1
         /\ DOMAIN Contents' = 1..FIFOCOUNT+1
         /\ \A k \in 1..FIFOCOUNT : Contents'[k] = Contents[k]
         /\ Contents'[FIFOCOUNT + 1] = msg[t]
<1>0. ReadIndex \in Index /\ WriteIndex \in Index /\ FIFOCOUNT \in 0..MAX-1
  BY RingFacts DEF Base, TypeOK
<1>1. /\ ReadIndex' = ReadIndex /\ Slot' = Slot
      /\ WriteIndex' = FIFOINCREMENT(WriteIndex)
  BY DEF WriteAdvance, Base, RegionInv
<1>2. FIFOCOUNT + 1 < MAX
  BY RingNotFull DEF WriteAdvance
<1>3. FIFOCOUNT' = FIFOCOUNT + 1
  BY <1>0, <1>1, <1>2, MaxType DEF FIFOCOUNT, FIFOINCREMENT, ClearMaxBit, Index
<1>4. \A k : At(k)' = At(k)
  BY <1>1 DEF At
<1>5. Contents' = [k \in 1..FIFOCOUNT+1 |-> Slot[At(k - 1)]]
  BY <1>1, <1>3, <1>4 DEF Contents
<1>6. Slot[At(FIFOCOUNT)] = msg[t]
  BY <1>0, RingFacts DEF WriteAdvance, Base, RegionInv
<1>7. \A k \in 1..FIFOCOUNT : Contents'[k] = Contents[k]
  <2> SUFFICES ASSUME NEW k \in 1..FIFOCOUNT
               PROVE  Contents'[k] = Contents[k]
    OBVIOUS
  <2>1. k \in 1..FIFOCOUNT+1
    BY <1>0, MaxType
  <2>2. Contents'[k] = Slot[At(k - 1)]
    BY <1>5, <2>1
  <2>3. Contents[k] = Slot[At(k - 1)]
    BY <1>0, ContentsFacts
  <2> QED BY <2>2, <2>3
<1>8. Contents'[FIFOCOUNT + 1] = Slot[At(FIFOCOUNT + 1 - 1)]
  BY <1>0, <1>5, MaxType
<1>9. FIFOCOUNT + 1 - 1 = FIFOCOUNT
  BY <1>0, MaxType
<1> QED BY <1>3, <1>5, <1>6, <1>7, <1>8, <1>9

LEMMA ReadAdvanceContents ==
  ASSUME Base, ReaderInv, ReadAdvance
  PROVE  /\ FIFOCOUNT \in 1..MAX-1
         /\ FIFOCOUNT' = FIFOCOUNT - 1
         /\ DOMAIN Contents' = 1..FIFOCOUNT-1
         /\ \A k \in 1..FIFOCOUNT-1 : Contents'[k] = Contents[k + 1]
         /\ Contents[1] = rbuf
<1>0. ReadIndex \in Index /\ WriteIndex \in Index /\ FIFOCOUNT \in 0..MAX-1
  BY RingFacts DEF Base, TypeOK
<1>1. /\ ReadIndex' = FIFOINCREMENT(ReadIndex)
      /\ WriteIndex' = WriteIndex /\ Slot' = Slot
  BY DEF ReadAdvance, Deliver
<1>2. ReadIndex # WriteIndex /\ rbuf = Slot[ReadIndex]
  BY DEF ReaderInv, ReadAdvance, Deliver
<1>3. FIFOCOUNT \in 1..MAX-1
  BY <1>0, <1>2, RingFacts, MaxType
<1>4. FIFOCOUNT' = FIFOCOUNT - 1
  BY <1>0, <1>1, <1>2, MaxType DEF FIFOCOUNT, FIFOINCREMENT, ClearMaxBit, Index
<1>5. \A k \in 1..FIFOCOUNT-1 : At(k - 1)' = At(k)
  BY <1>0, <1>1, <1>3, MaxType DEF At, FIFOINCREMENT, ClearMaxBit, Index
<1>6. Contents' = [k \in 1..FIFOCOUNT-1 |-> Slot[At(k - 1)']]
  BY <1>1, <1>4 DEF Contents
<1>7. \A k \in 1..FIFOCOUNT-1 : Contents'[k] = Contents[k + 1]
  <2> SUFFICES ASSUME NEW k \in 1..FIFOCOUNT-1
               PROVE  Contents'[k] = Contents[k + 1]
    OBVIOUS
  <2>1. Contents'[k] = Slot[At(k)]
    BY <1>5, <1>6
  <2>2. k + 1 \in 1..FIFOCOUNT /\ k + 1 - 1 = k
    BY <1>3, MaxType
  <2>3. Contents[k + 1] = Slot[At(k + 1 - 1)]
    BY <2>2 DEF Contents
  <2> QED BY <2>1, <2>2, <2>3
<1>8. Contents[1] = rbuf
  <2>1. 1 \in 1..FIFOCOUNT /\ 1 - 1 = 0
    BY <1>3, MaxType
  <2>2. Contents[1] = Slot[At(0)]
    BY <2>1 DEF Contents
  <2> QED BY <1>0, <1>2, <2>2, RingFacts
<1> QED BY <1>3, <1>4, <1>6, <1>7, <1>8
-----------------------------------------------------------------------------
(* Every buffer is in one place.                                           *)

\* What the reader is about to take out is a buffer.
LEMMA ReadIsBuffer ==
  ASSUME Base, ReaderInv, OnePlace, rpc = "advance"
  PROVE  rbuf \in Buffers
<1>0. ReadIndex \in Index /\ WriteIndex \in Index
  BY DEF Base, TypeOK
<1>1. FIFOCOUNT \in 1..MAX-1 /\ At(0) = ReadIndex
  BY <1>0, RingFacts, MaxType DEF ReaderInv
<1>2. 1 \in 1..FIFOCOUNT /\ 1 - 1 = 0
  BY <1>1, MaxType
<1>3. 1 \in DOMAIN Contents /\ Contents[1] = Slot[ReadIndex]
  BY <1>0, <1>1, <1>2, ContentsFacts
<1> QED BY <1>3 DEF OnePlace, ReaderInv

LEMMA ReaderInvStep ==
  ASSUME Base, OnePlace, ReaderInv, [Next]_vars
  PROVE  ReaderInv'
<1> USE DEF ReaderInv
<1>1. ASSUME NEW t \in Threads, NEW b \in Buffers, WriteSlot(t, b)
      PROVE  ReaderInv'
  BY <1>1 DEF WriteSlot, readerVars, Base, TypeOK
<1>2. ASSUME NEW t \in Threads, WriteAdvance(t)
      PROVE  ReaderInv'
  <2>1. WriteIndex' = FIFOINCREMENT(WriteIndex) /\ WriteIndex' # ReadIndex
    BY <1>2, RingNotFull DEF WriteAdvance, Base, RegionInv, NeverWraps
  <2> QED BY <1>2, <2>1 DEF WriteAdvance, readerVars
<1>3. ASSUME NEW t \in Threads, WriteCheck(t) \/ WriteRaise(t)
      PROVE  ReaderInv'
  BY <1>3 DEF WriteCheck, WriteRaise, readerVars
<1>4. CASE Interrupt \/ OtherInterrupt \/ WorkStart \/ ReadTest \/ ReadSlot \/ ReadAdvance
  BY <1>4 DEF Interrupt, OtherInterrupt, WorkStart, ReadTest, ReadSlot, ReadAdvance, Deliver, readerVars
<1>5. ASSUME NEW b \in Buffers, Recycle(b)
      PROVE  ReaderInv'
  BY <1>5 DEF Recycle, readerVars
<1>6. CASE UNCHANGED vars
  BY <1>6 DEF vars
<1> QED BY <1>1, <1>2, <1>3, <1>4, <1>5, <1>6 DEF Next

LEMMA OnePlaceStep ==
  ASSUME Base, OnePlace, ReaderInv, [Next]_vars
  PROVE  OnePlace'
<1> USE BuffersAssumption
<1>0. ReadIndex \in Index /\ WriteIndex \in Index /\ FIFOCOUNT \in 0..MAX-1
  BY RingFacts DEF Base, TypeOK
<1>00. DOMAIN Contents = 1..FIFOCOUNT
  BY <1>0, ContentsFacts
\* The buffer leaves held and is the message of t.
<1>1. ASSUME NEW t \in Threads, NEW b \in Buffers, WriteSlot(t, b)
      PROVE  OnePlace'
  <2>1. Contents' = Contents
    BY <1>1, WriteSlotContents
  <2> QED BY <1>1, <2>1 DEF OnePlace, WriteSlot, Base, TypeOK
\* The message of t becomes the last entry.
<1>2. ASSUME NEW t \in Threads, WriteAdvance(t)
      PROVE  OnePlace'
  <2> DEFINE n == FIFOCOUNT
  <2>1. /\ DOMAIN Contents' = 1..n+1
        /\ \A k \in 1..n : Contents'[k] = Contents[k]
        /\ Contents'[n + 1] = msg[t]
    BY <1>2, WriteAdvanceContents
  <2>2. msg[t] \in Buffers /\ pc[t] = "index"
    BY <1>2 DEF WriteAdvance, Base, RegionInv
  <2>3. held' = held /\ got' = got
    BY <1>2 DEF WriteAdvance
  <2>4. \A u \in Threads : msg'[u] = NoBuffer
    BY <1>2, <2>2 DEF WriteAdvance, Base, RegionInv, TypeOK
  <2>5. \A k \in 1..n+1 : k = n + 1 \/ k \in 1..n
    BY <1>0, MaxType
  <2>6. \A k \in 1..n : Contents[k] \in Buffers \ (held \cup got) /\ msg[t] # Contents[k]
    BY <1>00 DEF OnePlace
  <2>7. \A k \in 1..n+1 : Contents'[k] \in Buffers \ (held \cup got)
    BY <2>1, <2>2, <2>5, <2>6 DEF OnePlace
  <2>8. \A j, k \in 1..n+1 : Contents'[j] = Contents'[k] => j = k
    <3> SUFFICES ASSUME NEW j \in 1..n+1, NEW k \in 1..n+1, Contents'[j] = Contents'[k]
                 PROVE  j = k
      OBVIOUS
    <3>1. CASE j \in 1..n /\ k \in 1..n
      BY <1>00, <2>1, <3>1 DEF OnePlace
    <3>2. CASE j = n + 1 /\ k \in 1..n
      BY <2>1, <2>6, <3>2
    <3>3. CASE j \in 1..n /\ k = n + 1
      BY <2>1, <2>6, <3>3
    <3> QED BY <2>5, <3>1, <3>2, <3>3
  <2>9. held \cap got = {} /\ NoBuffer \notin held \cup got
    BY DEF OnePlace, Base, TypeOK
  <2> HIDE DEF n
  <2> QED BY <2>1, <2>3, <2>4, <2>7, <2>8, <2>9 DEF OnePlace
<1>3. ASSUME NEW t \in Threads, WriteCheck(t) \/ WriteRaise(t)
      PROVE  OnePlace'
  <2>1. Contents' = Contents
    BY <1>3 DEF WriteCheck, WriteRaise, Contents, FIFOCOUNT, At
  <2> QED BY <1>3, <2>1 DEF OnePlace, WriteCheck, WriteRaise
<1>4. CASE Interrupt \/ OtherInterrupt \/ WorkStart \/ ReadTest \/ ReadSlot
  <2>1. Contents' = Contents
    BY <1>4 DEF Interrupt, OtherInterrupt, WorkStart, ReadTest, ReadSlot, Contents, FIFOCOUNT, At
  <2> QED BY <1>4, <2>1 DEF OnePlace, Interrupt, OtherInterrupt, WorkStart, ReadTest, ReadSlot, writerVars
\* The first entry is taken out and becomes received.
<1>5. CASE ReadAdvance
  <2> DEFINE n == FIFOCOUNT
  <2>1. /\ n \in 1..MAX-1
        /\ DOMAIN Contents' = 1..n-1
        /\ \A k \in 1..n-1 : Contents'[k] = Contents[k + 1]
        /\ Contents[1] = rbuf
    BY <1>5, ReadAdvanceContents
  <2>2. held' = held /\ got' = got \cup {rbuf} /\ msg' = msg
    BY <1>5 DEF ReadAdvance, Deliver, writerVars
  <2>3. 1 \in 1..n /\ \A k \in 1..n-1 : k + 1 \in 1..n /\ k + 1 # 1
    BY <2>1, MaxType
  <2>4. rbuf \in Buffers \ (held \cup got) /\ \A t \in Threads : msg[t] # rbuf
    BY <1>00, <2>1, <2>3 DEF OnePlace
  <2>5. \A k \in 1..n-1 : Contents[k + 1] # rbuf
    BY <1>00, <2>1, <2>3 DEF OnePlace
  <2>6. \A k \in 1..n-1 : /\ Contents'[k] \in Buffers \ (held' \cup got')
                          /\ \A t \in Threads : msg'[t] # Contents'[k]
    <3> SUFFICES ASSUME NEW k \in 1..n-1
                 PROVE  /\ Contents'[k] \in Buffers \ (held' \cup got')
                        /\ \A t \in Threads : msg'[t] # Contents'[k]
      OBVIOUS
    <3>1. k + 1 \in DOMAIN Contents /\ Contents'[k] = Contents[k + 1]
      BY <1>00, <2>1, <2>3
    <3> QED BY <2>2, <2>5, <3>1 DEF OnePlace
  <2>7. \A j, k \in 1..n-1 : Contents'[j] = Contents'[k] => j = k
    <3> SUFFICES ASSUME NEW j \in 1..n-1, NEW k \in 1..n-1, Contents'[j] = Contents'[k]
                 PROVE  j = k
      OBVIOUS
    <3>1. /\ j + 1 \in DOMAIN Contents /\ k + 1 \in DOMAIN Contents
          /\ Contents[j + 1] = Contents[k + 1]
      BY <1>00, <2>1, <2>3
    <3>2. j + 1 = k + 1
      BY <3>1 DEF OnePlace
    <3> QED BY <2>1, <3>2, MaxType
  <2>8. held' \cap got' = {} /\ \A t \in Threads : msg'[t] \notin held' \cup got'
    BY <2>2, <2>4 DEF OnePlace
  <2> HIDE DEF n
  <2> QED BY <2>1, <2>6, <2>7, <2>8 DEF OnePlace
<1>6. ASSUME NEW b \in Buffers, Recycle(b)
      PROVE  OnePlace'
  <2>1. Contents' = Contents
    BY <1>6 DEF Recycle, Contents, FIFOCOUNT, At
  <2> QED BY <1>6, <2>1 DEF OnePlace, Recycle, writerVars
<1>7. CASE UNCHANGED vars
  <2>1. Contents' = Contents
    BY <1>7 DEF vars, Contents, FIFOCOUNT, At
  <2> QED BY <1>7, <2>1 DEF OnePlace, vars
<1> QED BY <1>1, <1>2, <1>3, <1>4, <1>5, <1>6, <1>7 DEF Next
-----------------------------------------------------------------------------
(* The theorems.                                                           *)

IInv == Base /\ ReaderInv /\ OnePlace /\ NoLostWakeup

LEMMA Initially ==
  ASSUME Init
  PROVE  IInv /\ Contents = << >>
<1> USE MaxType, BuffersAssumption DEF Init
<1>1. Base
  <2>1. 0 \in Index
    BY DEF Index
  <2> QED BY <2>1 DEF Base, TypeOK, RegionInv
<1>2. FIFOCOUNT = 0
  BY DEF FIFOCOUNT, ClearMaxBit
<1>3. Contents = << >>
  BY <1>2 DEF Contents
<1>4. OnePlace
  <2>1. DOMAIN Contents = {}
    BY <1>2 DEF Contents
  <2> QED BY <2>1 DEF OnePlace
<1> QED BY <1>1, <1>3, <1>4 DEF IInv, ReaderInv, NoLostWakeup

LEMMA Invariance ==
  SafeSpec => []IInv
<1>1. Init => IInv
  BY Initially
<1>2. IInv /\ [Next]_vars => IInv'
  BY BaseStep, ReadIsBuffer, ReaderInvStep, OnePlaceStep, NoLostWakeupStep DEF IInv
<1> QED BY <1>1, <1>2, PTL DEF SafeSpec

\* The cursors stay inside Buffer[], in particular (IPC_FIFOINCREMENT).
THEOREM TypeCorrect ==
  SafeSpec => []TypeOK
<1>1. IInv => TypeOK
  BY DEF IInv, Base
<1> QED BY <1>1, Invariance, PTL

\* IPC_SmFifoWrite, which does not test for a full FIFO, never fills it: the
\* limit of IPC_SmPoolAlloc on the buffers of a CPU is enough.
THEOREM FifoNeverWraps ==
  SafeSpec => []NeverWraps
<1>1. IInv => NeverWraps
  BY RingNotFull DEF IInv
<1> QED BY <1>1, Invariance, PTL

\* No buffer is overwritten in a slot, duplicated or delivered twice.
THEOREM BuffersInOnePlace ==
  SafeSpec => []OnePlace
<1>1. IInv => OnePlace
  BY DEF IInv
<1> QED BY <1>1, Invariance, PTL

\* IPC_SmFifoWrite's test "ReadIndex == OriginalWritePointer", made outside
\* the critical region, never leaves a sleeping reader with a full FIFO.
THEOREM WakeupsNotLost ==
  SafeSpec => []NoLostWakeup
<1>1. IInv => NoLostWakeup
  BY DEF IInv
<1> QED BY <1>1, Invariance, PTL
-----------------------------------------------------------------------------
(* Refinement.                                                             *)

\* Buffers with the writing CPU, the one being written included.
HeldBar == held \cup {msg[t] : t \in {u \in Threads : pc[u] = "index"}}

LEMMA HeldOutside ==
  ASSUME \A t \in Threads : pc[t] # "index"
  PROVE  HeldBar = held
  BY DEF HeldBar

LEMMA HeldInside ==
  ASSUME NEW t \in Threads, pc[t] = "index",
         \A u \in Threads : pc[u] = "index" => u = t
  PROVE  HeldBar = held \cup {msg[t]}
  BY DEF HeldBar

LEMMA ContentsIsSeq ==
  ASSUME Base, OnePlace
  PROVE  Contents \in Seq(Buffers) /\ Len(Contents) = FIFOCOUNT
<1>1. ReadIndex \in Index /\ WriteIndex \in Index /\ FIFOCOUNT \in 0..MAX-1
  BY RingFacts DEF Base, TypeOK
<1>2. FIFOCOUNT \in Nat
  BY <1>1, MaxType
<1>3. DOMAIN Contents = 1..FIFOCOUNT
  BY <1>1, ContentsFacts
<1>4. \A k \in 1..FIFOCOUNT : Contents[k] \in Buffers
  BY <1>3 DEF OnePlace
<1>5. Contents \in [1..FIFOCOUNT -> Buffers]
  <2>1. Contents = [k \in 1..FIFOCOUNT |-> Contents[k]]
    BY DEF Contents
  <2> QED BY <1>4, <2>1
<1> HIDE DEF Contents, FIFOCOUNT
<1>6. Contents \in Seq(Buffers)
  BY <1>2, <1>5, SeqDef
<1> QED BY <1>2, <1>3, <1>6, LenProperties

\* Two sequences of one length with the same entries are the same.
LEMMA SameSeq ==
  ASSUME NEW s \in Seq(Buffers), NEW r \in Seq(Buffers), Len(s) = Len(r),
         \A k \in 1..Len(s) : s[k] = r[k]
  PROVE  s = r
<1>1. s \in [1..Len(s) -> Buffers] /\ r \in [1..Len(s) -> Buffers]
  BY LenProperties
<1> QED BY <1>1

\* A step of the FIFO is a step of the channel, or none.
LEMMA StepRefines ==
  ASSUME IInv, IInv', [Next]_vars
  PROVE  Channel!Next \/ UNCHANGED <<HeldBar, Contents, got>>
<1> USE DEF IInv
<1>0. Contents \in Seq(Buffers) /\ Len(Contents) = FIFOCOUNT
  BY ContentsIsSeq
<1>00. Contents' \in Seq(Buffers) /\ Len(Contents') = FIFOCOUNT'
  <2>1. (Base /\ OnePlace => Contents \in Seq(Buffers) /\ Len(Contents) = FIFOCOUNT)'
    BY ContentsIsSeq, PTL
  <2> QED BY <2>1
<1>1. ASSUME NEW t \in Threads, NEW b \in Buffers, WriteSlot(t, b)
      PROVE  UNCHANGED <<HeldBar, Contents, got>>
  <2>1. Contents' = Contents
    BY <1>1, WriteSlotContents
  <2>2. \A u \in Threads : pc[u] # "index"
    BY <1>1, BuffersAssumption DEF WriteSlot, Base, RegionInv
  <2>3. HeldBar = held
    BY <2>2, HeldOutside
  <2>4. HeldBar' = held' \cup {b}
    BY <1>1, <2>2 DEF WriteSlot, HeldBar, Base, TypeOK
  <2> QED BY <1>1, <2>1, <2>3, <2>4 DEF WriteSlot
<1>2. ASSUME NEW t \in Threads, WriteAdvance(t)
      PROVE  Channel!Next
  <2>1. \A u \in Threads : pc[u] = "index" => u = t
    BY <1>2 DEF WriteAdvance, Base, RegionInv
  <2>2. HeldBar = held \cup {msg[t]} /\ msg[t] \in Buffers /\ msg[t] \notin held
    BY <1>2, <2>1, HeldInside DEF WriteAdvance, Base, RegionInv, OnePlace
  <2>3. HeldBar' = held
    BY <1>2, <2>1 DEF WriteAdvance, HeldBar, Base, TypeOK
  <2>4. Contents' = Append(Contents, msg[t])
    <3> DEFINE a == Append(Contents, msg[t])
    <3>1. /\ a \in Seq(Buffers) /\ Len(a) = FIFOCOUNT + 1
          /\ \A k \in 1..FIFOCOUNT : a[k] = Contents[k]
          /\ a[FIFOCOUNT + 1] = msg[t]
      BY <1>0, <2>2, AppendProperties
    <3>2. /\ FIFOCOUNT' = FIFOCOUNT + 1
          /\ \A k \in 1..FIFOCOUNT : Contents'[k] = Contents[k]
          /\ Contents'[FIFOCOUNT + 1] = msg[t]
      BY <1>2, WriteAdvanceContents
    <3>3. FIFOCOUNT \in Nat
      BY <1>0, LenProperties
    <3>4. \A k \in 1..FIFOCOUNT+1 : k \in 1..FIFOCOUNT \/ k = FIFOCOUNT + 1
      BY <3>3
    <3>5. \A k \in 1..FIFOCOUNT+1 : Contents'[k] = a[k]
      BY <3>1, <3>2, <3>4
    <3> HIDE DEF a, Contents, FIFOCOUNT
    <3> QED BY <1>00, <3>1, <3>2, <3>5, SameSeq DEF a
  <2>5. PICK b \in Buffers : b = msg[t]
    BY <2>2
  <2>6. Channel!Send(b)
    BY <1>2, <2>2, <2>3, <2>4, <2>5 DEF Channel!Send, HeldBar, WriteAdvance
  <2> QED BY <2>6 DEF Channel!Next
<1>3. ASSUME NEW t \in Threads, WriteCheck(t) \/ WriteRaise(t)
      PROVE  UNCHANGED <<HeldBar, Contents, got>>
  <2>1. \A u \in Threads : pc[u] # "index" /\ pc'[u] # "index"
    BY <1>3, BuffersAssumption DEF WriteCheck, WriteRaise, Base, RegionInv, TypeOK
  <2> QED BY <1>3, <2>1 DEF WriteCheck, WriteRaise, HeldBar, Contents, FIFOCOUNT, At
<1>4. CASE Interrupt \/ OtherInterrupt \/ WorkStart \/ ReadTest \/ ReadSlot
  BY <1>4 DEF Interrupt, OtherInterrupt, WorkStart, ReadTest, ReadSlot, writerVars, HeldBar,
              Contents, FIFOCOUNT, At
<1>5. CASE ReadAdvance
  <2>1. /\ FIFOCOUNT \in 1..MAX-1
        /\ FIFOCOUNT' = FIFOCOUNT - 1
        /\ \A k \in 1..FIFOCOUNT-1 : Contents'[k] = Contents[k + 1]
        /\ Contents[1] = rbuf
    BY <1>5, ReadAdvanceContents
  <2>2. Contents # << >> /\ Head(Contents) = rbuf
    BY <1>0, <2>1, MaxType
  <2>3. Contents' = Tail(Contents)
    <3> DEFINE a == Tail(Contents)
    <3>1. /\ a \in Seq(Buffers) /\ Len(a) = FIFOCOUNT - 1
          /\ \A k \in 1..FIFOCOUNT-1 : a[k] = Contents[k + 1]
      BY <1>0, <2>2, HeadTailProperties
    <3>2. \A k \in 1..FIFOCOUNT-1 : Contents'[k] = a[k]
      BY <2>1, <3>1
    <3> HIDE DEF a, Contents, FIFOCOUNT
    <3> QED BY <1>00, <2>1, <3>1, <3>2, SameSeq DEF a
  <2>4. HeldBar' = HeldBar /\ got' = got \cup {rbuf}
    BY <1>5 DEF ReadAdvance, Deliver, writerVars, HeldBar
  <2>5. Channel!Receive
    BY <2>2, <2>3, <2>4 DEF Channel!Receive, HeldBar
  <2> QED BY <2>5 DEF Channel!Next
<1>6. ASSUME NEW b \in Buffers, Recycle(b)
      PROVE  Channel!Next
  <2>1. Contents' = Contents
    BY <1>6 DEF Recycle, Contents, FIFOCOUNT, At
  <2>2. HeldBar' = HeldBar \cup {b}
    BY <1>6 DEF Recycle, writerVars, HeldBar
  <2>3. Channel!Recycle(b)
    BY <1>6, <2>1, <2>2 DEF Recycle, Channel!Recycle, HeldBar
  <2> QED BY <1>6, <2>3 DEF Channel!Next
<1>7. CASE UNCHANGED vars
  BY <1>7 DEF vars, HeldBar, Contents, FIFOCOUNT, At
<1> QED BY <1>1, <1>2, <1>3, <1>4, <1>5, <1>6, <1>7 DEF Next

\* The ring buffer with its two unsynchronised cursors implements the channel
\* of IpcChannel: what is sent is received once and in order.
THEOREM FifoImplementsChannel ==
  SafeSpec => SafelyImplementsChannel
<1>1. Init => Channel!Init
  <2> SUFFICES ASSUME Init
               PROVE  Channel!Init
    OBVIOUS
  <2>1. Contents = << >>
    BY Initially
  <2>2. \A t \in Threads : pc[t] # "index"
    BY DEF Init
  <2>3. HeldBar = held
    BY <2>2, HeldOutside
  <2> QED BY <2>1, <2>3 DEF Init, Channel!Init, HeldBar
<1>2. IInv /\ IInv' /\ [Next]_vars => [Channel!Next]_(Channel!chanVars)
  BY StepRefines DEF Channel!chanVars, HeldBar
<1> QED
  BY <1>1, <1>2, Invariance, PTL DEF SafeSpec, SafelyImplementsChannel, Channel!SafeSpec
=============================================================================
