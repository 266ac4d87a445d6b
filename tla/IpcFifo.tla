------------------------------ MODULE IpcFifo ------------------------------
(***************************************************************************)
(* One shared-memory FIFO of fuse_ipc (ipc_sharedmemory.c, IPC_SmFifoWrite *)
(* and IPC_SmFifoRead), with the interrupt that tells the reading CPU to   *)
(* look at it (ipc_server.c, ipcs_interrupt and its work item).            *)
(*                                                                         *)
(* The threads of the writing CPU exclude each other by a critical region  *)
(* (preemption and interrupts off), which is no protection against the     *)
(* other CPU: the reader runs between any two stores of a writer.  Stores  *)
(* are seen in program order; the shared area is mapped as device memory.  *)
(***************************************************************************)
EXTENDS Integers, Sequences, FiniteSets

CONSTANTS
  Buffers,      \* the buffers that can be sent through this FIFO
  Threads,      \* threads of the writing CPU
  NoThread,     \* nobody is in the critical region
  NoBuffer,     \* a null buffer pointer
  MAX           \* IPC_SM_MAX_BUFFERS, the number of slots

\* "Must be a power of 2".
ASSUME MaxAssumption ==
  /\ MAX \in Nat \ {0}
  /\ \E p \in 0..30 : MAX = 2^p

\* IPC_SmPoolAlloc refuses a pool that would give a CPU MAX buffers or more.
ASSUME BuffersAssumption ==
  /\ IsFiniteSet(Buffers)
  /\ Cardinality(Buffers) < MAX
  /\ NoBuffer \notin Buffers
  /\ NoThread \notin Threads

VARIABLES
  ReadIndex, WriteIndex, \* the two cursors of IPC_Fifo_S
  Slot,                  \* its array Buffer[]
  pc, orig, msg,         \* per writer: next step, OriginalWritePointer, Message
  region,                \* the writer inside the critical region
  irq, work,             \* interrupt raised; intr_work queued
  rpc, rbuf,             \* reader: next step, the Buffer read
  held, got              \* buffers with the writing and the reading CPU

writerVars == <<pc, orig, msg, region>>
readerVars == <<rpc, rbuf>>
vars == <<ReadIndex, WriteIndex, Slot, pc, orig, msg, region, irq, work,
          rpc, rbuf, held, got>>

Index == 0..MAX-1

\* x & ~IPC_SM_MAX_BUFFERS, for 0 <= x < 2*MAX and MAX a power of two.
ClearMaxBit(x) == IF x >= MAX THEN x - MAX ELSE x
\* Seeded fault: the ring wraps one slot early.
FIFOINCREMENTShort(i) == IF i + 1 >= MAX - 1 THEN 0 ELSE i + 1

FIFOINCREMENT(i) == ClearMaxBit(i + 1)
FIFOCOUNT == ClearMaxBit(WriteIndex - ReadIndex + MAX)

Init ==
  /\ ReadIndex = 0
  /\ WriteIndex = 0
  /\ Slot = [i \in Index |-> NoBuffer]
  /\ pc = [t \in Threads |-> "idle"]
  /\ orig = [t \in Threads |-> 0]
  /\ msg = [t \in Threads |-> NoBuffer]
  /\ region = NoThread
  /\ irq = FALSE
  /\ work = FALSE
  /\ rpc = "asleep"
  /\ rbuf = NoBuffer
  /\ held = Buffers
  /\ got = {}
-----------------------------------------------------------------------------
(* IPC_SmFifoWrite.  A thread runs only when no other is in the region.    *)

\* Seeded fault: the critical region is not entered.
WriteSlotUnlocked(t, b) ==
  /\ pc[t] = "idle"
  /\ b \in held
  /\ held' = held \ {b}
  /\ orig' = [orig EXCEPT ![t] = WriteIndex]
  /\ msg' = [msg EXCEPT ![t] = b]
  /\ Slot' = [Slot EXCEPT ![WriteIndex] = b]
  /\ pc' = [pc EXCEPT ![t] = "index"]
  /\ UNCHANGED <<ReadIndex, WriteIndex, region, irq, work, readerVars, got>>

\* Enter the region, remember the write cursor and fill its slot.
WriteSlot(t, b) ==
  /\ pc[t] = "idle"
  /\ region = NoThread
  /\ b \in held
  /\ held' = held \ {b}
  /\ region' = t
  /\ orig' = [orig EXCEPT ![t] = WriteIndex]
  /\ msg' = [msg EXCEPT ![t] = b]
  /\ Slot' = [Slot EXCEPT ![WriteIndex] = b]
  /\ pc' = [pc EXCEPT ![t] = "index"]
  /\ UNCHANGED <<ReadIndex, WriteIndex, irq, work, readerVars, got>>

\* Seeded fault: the write cursor is put back where it was.
WriteAdvanceNowhere(t) ==
  /\ pc[t] = "index"
  /\ WriteIndex' = orig[t]
  /\ region' = NoThread
  /\ msg' = [msg EXCEPT ![t] = NoBuffer]
  /\ pc' = [pc EXCEPT ![t] = "check"]
  /\ UNCHANGED <<ReadIndex, Slot, orig, irq, work, readerVars, held, got>>

\* Publish the slot by moving the write cursor, and leave the region.
WriteAdvance(t) ==
  /\ pc[t] = "index"
  /\ WriteIndex' = FIFOINCREMENT(orig[t])
  /\ region' = NoThread
  /\ msg' = [msg EXCEPT ![t] = NoBuffer]
  /\ pc' = [pc EXCEPT ![t] = "check"]
  /\ UNCHANGED <<ReadIndex, Slot, orig, irq, work, readerVars, held, got>>

\* Seeded fault: interrupt if one entry is in the FIFO now, instead of if the
\* FIFO was empty when this entry was written.
WriteCheckNow(t) ==
  /\ pc[t] = "check"
  /\ region = NoThread
  /\ pc' = [pc EXCEPT ![t] = IF FIFOCOUNT = 1 THEN "raise" ELSE "idle"]
  /\ orig' = [orig EXCEPT ![t] = 0]
  /\ UNCHANGED <<ReadIndex, WriteIndex, Slot, msg, region, irq, work,
                 readerVars, held, got>>

\* "Remote end is not currently reading FIFO": tested outside the region.
WriteCheck(t) ==
  /\ pc[t] = "check"
  /\ region = NoThread
  /\ pc' = [pc EXCEPT ![t] = IF ReadIndex = orig[t] THEN "raise" ELSE "idle"]
  /\ orig' = [orig EXCEPT ![t] = 0]
  /\ UNCHANGED <<ReadIndex, WriteIndex, Slot, msg, region, irq, work,
                 readerVars, held, got>>

\* RAISE_INTERRUPT.
WriteRaise(t) ==
  /\ pc[t] = "raise"
  /\ region = NoThread
  /\ irq' = TRUE
  /\ pc' = [pc EXCEPT ![t] = "idle"]
  /\ UNCHANGED <<ReadIndex, WriteIndex, Slot, orig, msg, region, work,
                 readerVars, held, got>>
-----------------------------------------------------------------------------
(* The reading CPU: interrupt, work item, IPC_ProcessEvents' drain loop.   *)

\* ipcs_interrupt queues the work item; queueing a queued item does nothing.
Interrupt ==
  /\ irq
  /\ irq' = FALSE
  /\ work' = TRUE
  /\ UNCHANGED <<ReadIndex, WriteIndex, Slot, writerVars, readerVars, held, got>>

\* The same interrupt announces the other FIFO of this CPU, start-up and a
\* crash: it is also raised when there may be nothing here.
OtherInterrupt ==
  /\ irq' = TRUE
  /\ UNCHANGED <<ReadIndex, WriteIndex, Slot, writerVars, work, readerVars,
                 held, got>>

\* The work item is marked not queued before its function runs.
WorkStart ==
  /\ rpc = "asleep"
  /\ work
  /\ work' = FALSE
  /\ rpc' = "test"
  /\ UNCHANGED <<ReadIndex, WriteIndex, Slot, writerVars, irq, rbuf, held, got>>

\* Seeded fault: the drain loop spins on the last entry until one follows it.
ReadTestNotLast ==
  /\ rpc = "test"
  /\ rpc' = IF ReadIndex = WriteIndex THEN "asleep"
             ELSE IF FIFOCOUNT = 1 THEN "test" ELSE "load"
  /\ UNCHANGED <<ReadIndex, WriteIndex, Slot, writerVars, irq, work, rbuf,
                 held, got>>

\* IPC_SmFifoRead: an empty FIFO ends the drain loop.
ReadTest ==
  /\ rpc = "test"
  /\ rpc' = IF ReadIndex = WriteIndex THEN "asleep" ELSE "load"
  /\ UNCHANGED <<ReadIndex, WriteIndex, Slot, writerVars, irq, work, rbuf,
                 held, got>>

ReadSlot ==
  /\ rpc = "load"
  /\ rbuf' = Slot[ReadIndex]
  /\ rpc' = "advance"
  /\ UNCHANGED <<ReadIndex, WriteIndex, Slot, writerVars, irq, work, held, got>>

\* IPC_ProcessEvents hands the buffer to its delivery function.
Deliver ==
  /\ got' = got \cup {rbuf}
  /\ rbuf' = NoBuffer

\* Free the slot; the buffer is delivered and the loop goes on.
ReadAdvance ==
  /\ rpc = "advance"
  /\ ReadIndex' = FIFOINCREMENT(ReadIndex)
  /\ Deliver
  /\ rpc' = "test"
  /\ UNCHANGED <<WriteIndex, Slot, writerVars, irq, work, held>>

\* The buffer travels back to the writing CPU (freed through the other FIFO).
Recycle(b) ==
  /\ b \in got
  /\ got' = got \ {b}
  /\ held' = held \cup {b}
  /\ UNCHANGED <<ReadIndex, WriteIndex, Slot, writerVars, irq, work, readerVars>>
-----------------------------------------------------------------------------
Writer(t) == WriteAdvance(t) \/ WriteCheck(t) \/ WriteRaise(t)
Reader == Interrupt \/ WorkStart \/ ReadTest \/ ReadSlot \/ ReadAdvance

Next ==
  \/ \E t \in Threads, b \in Buffers : WriteSlot(t, b)
  \/ \E t \in Threads : WriteAdvance(t)
  \/ \E t \in Threads : WriteCheck(t)
  \/ \E t \in Threads : WriteRaise(t)
  \/ Interrupt
  \/ OtherInterrupt
  \/ WorkStart
  \/ ReadTest
  \/ ReadSlot
  \/ ReadAdvance
  \/ \E b \in Buffers : Recycle(b)

SafeSpec == Init /\ [][Next]_vars

\* A thread that called IPC_SmFifoWrite finishes it, a raised interrupt is
\* taken, and the work item and its loop keep running.  Nothing obliges a
\* thread to send or a receiver to give a buffer back.
Fairness ==
  /\ \A t \in Threads : WF_vars(Writer(t))
  /\ WF_vars(Interrupt)
  /\ WF_vars(WorkStart \/ ReadTest \/ ReadSlot \/ ReadAdvance)

Spec == SafeSpec /\ Fairness
-----------------------------------------------------------------------------
(* Properties.                                                             *)

\* The slot k places after the read cursor, and the buffers in the FIFO.
At(k) == ClearMaxBit(ReadIndex + k)
Contents == [k \in 1..FIFOCOUNT |-> Slot[At(k - 1)]]

\* Types: both cursors, the second of which is computed with a mask, stay
\* inside the ring (IPC_SmFifoWrite, IPC_SmFifoRead).
TypeOK ==
  /\ ReadIndex \in Index
  /\ WriteIndex \in Index
  /\ Slot \in [Index -> Buffers \cup {NoBuffer}]
  /\ pc \in [Threads -> {"idle", "index", "check", "raise"}]
  /\ orig \in [Threads -> Index]
  /\ msg \in [Threads -> Buffers \cup {NoBuffer}]
  /\ region \in Threads \cup {NoThread}
  /\ irq \in BOOLEAN
  /\ work \in BOOLEAN
  /\ rpc \in {"asleep", "test", "load", "advance"}
  /\ rbuf \in Buffers \cup {NoBuffer}
  /\ held \subseteq Buffers
  /\ got \subseteq Buffers

\* Publishing a slot never makes a full FIFO look empty: the ring cannot be
\* filled, because a CPU owns fewer than IPC_SM_MAX_BUFFERS buffers.
NeverWraps ==
  \A t \in Threads : pc[t] = "index" => FIFOINCREMENT(WriteIndex) # ReadIndex

\* No buffer is in two places: held, being written, in the FIFO or received.
OnePlace ==
  /\ \A j, k \in DOMAIN Contents : Contents[j] = Contents[k] => j = k
  /\ \A k \in DOMAIN Contents :
       /\ Contents[k] \in Buffers \ (held \cup got)
       /\ \A t \in Threads : msg[t] # Contents[k]
  /\ held \cap got = {}
  /\ \A t \in Threads : msg[t] \notin held \cup got

\* The interrupt test, made after the region is left and against a moving
\* read cursor, loses no wakeup: a FIFO with something in it has a reader at
\* work or on its way, or a writer that is going to call it.
NoLostWakeup ==
  ReadIndex # WriteIndex =>
    \/ irq
    \/ work
    \/ rpc # "asleep"
    \/ \E t \in Threads :
         \/ pc[t] = "raise"
         \/ pc[t] = "check" /\ orig[t] = ReadIndex

\* Refinement: the FIFO is the channel of IpcChannel.  A buffer is sent when
\* the write cursor passes it, and received when the read cursor does.
Channel == INSTANCE IpcChannel WITH
             held <- held \cup {msg[t] : t \in {u \in Threads : pc[u] = "index"}},
             chan <- Contents

\* With the fairness of the writers, the interrupt and the work item, nothing
\* stays in the channel.
ImplementsChannel == Channel!Spec

\* The safety part alone: once each and in order.
SafelyImplementsChannel == Channel!SafeSpec
=============================================================================
