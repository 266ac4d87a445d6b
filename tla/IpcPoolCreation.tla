-------------------------- MODULE IpcPoolCreation --------------------------
(***************************************************************************)
(* How buffer pools come into being.  A thread that wants a buffer of an   *)
(* interface whose pool does not exist yet creates it (rpc_ipc.c,          *)
(* RPC_PACKET_AllocateBufferEx and RPC_CreateBufferPool): it takes a piece *)
(* of the shared memory between the two marks that the AP moves up and the *)
(* CP moves down (ipc_sharedmemory.c, IPC_SmPoolAlloc and IPC_SmAlloc),    *)
(* puts the pool on the list both CPUs share (IPC_SmAddPool), fills it in  *)
(* (ipc_bufferpool.c, IPC_CreateBufferPoolWithDescriptor) and only then    *)
(* stores its handle.  There is no lock anywhere: neither between the two  *)
(* CPUs nor between two threads of one, so every access to shared state is *)
(* a step of its own.                                                      *)
(*                                                                         *)
(* A creation that fails leaves the handle null, and the next allocation   *)
(* tries again.  The marks are UInt32, and so is their difference.         *)
(***************************************************************************)
EXTENDS Integers, FiniteSets

CONSTANTS
  Threads, CpuOf,   \* threads and the CPU each runs on, "AP" or "CP"
  Types,            \* interfaces that have a pool
  SizeOf, CountOf,  \* per type: bytes of shared memory, number of buffers
  Base, Area,       \* size of IPC_SmControl_T; size of the shared memory
  WORD,             \* 2^32
  MAX,              \* IPC_SM_MAX_BUFFERS
  NoType,           \* a thread that creates nothing
  MaxTries          \* bound: creations a thread begins

Cpus == {"AP", "CP"}

ASSUME CreationAssumption ==
  /\ CpuOf \in [Threads -> Cpus]
  /\ IsFiniteSet(Threads) /\ IsFiniteSet(Types)
  /\ SizeOf \in [Types -> Nat \ {0}] /\ CountOf \in [Types -> Nat \ {0}]
  /\ Base \in Nat \ {0} /\ Area \in Nat /\ WORD \in Nat
  /\ Base <= Area /\ Area < WORD
  /\ \A i \in Types : SizeOf[i] < WORD
  /\ MAX \in Nat \ {0}
  /\ NoType \notin Types /\ MaxTries \in Nat

VARIABLES
  Allocated,        \* the two marks
  CurrentBuffers,   \* buffers of each CPU's pools
  FirstPool, LastPool, NextPool, \* the list of pools
  handle,           \* ipc_buf_pool: per CPU and type, the pool's address or 0
  pc, type, mine,   \* per thread: next step, the type it creates, its pool
  tries,            \* per thread: creations begun
  pools,            \* the pools that were handed out
  serial,           \* per CPU: no two threads were creating at the same time
  apart,            \* neither were a thread of the AP and one of the CP
  overrun           \* a mark was moved when the marks had crossed already

shared == <<Allocated, CurrentBuffers>>
list == <<FirstPool, LastPool, NextPool>>
ghosts == <<pools, serial, apart, overrun>>
vars == <<shared, list, handle, pc, type, mine, tries, ghosts>>

Addresses == 0..WORD-1

Steps == {"idle", "count", "space", "take", "move", "verify", "first",
          "set first", "last", "set last", "link", "init", "store"}

\* The basic set-up in IPC_SmInitialise.
Init ==
  /\ Allocated = [c \in Cpus |-> IF c = "AP" THEN Base ELSE Area]
  /\ CurrentBuffers = [c \in Cpus |-> 0]
  /\ FirstPool = 0 /\ LastPool = 0
  /\ NextPool = [a \in Addresses |-> 0]
  /\ handle = [c \in Cpus |-> [i \in Types |-> 0]]
  /\ pc = [t \in Threads |-> "idle"]
  /\ type = [t \in Threads |-> NoType]
  /\ mine = [t \in Threads |-> 0]
  /\ tries = [t \in Threads |-> 0]
  /\ pools = {}
  /\ serial = [c \in Cpus |-> TRUE]
  /\ apart = TRUE
  /\ overrun = FALSE

Goto(t, step) == pc' = [pc EXCEPT ![t] = step]
Creating(c) == {t \in Threads : CpuOf[t] = c /\ pc[t] # "idle"}
Crossed == Allocated["CP"] < Allocated["AP"]

\* RPC_PACKET_AllocateBufferEx finds no pool.  No lock is held: a second thread
\* of the CPU can find none either, and create the pool once more.
Begin(t, i) ==
  /\ pc[t] = "idle"
  /\ handle[CpuOf[t]][i] = 0
  /\ tries[t] < MaxTries
  /\ tries' = [tries EXCEPT ![t] = @ + 1]
  /\ type' = [type EXCEPT ![t] = i]
  /\ serial' = [serial EXCEPT ![CpuOf[t]] = @ /\ Creating(CpuOf[t]) = {}]
  /\ apart' = (apart /\ \A c \in Cpus \ {CpuOf[t]} : Creating(c) = {})
  /\ Goto(t, "count")
  /\ UNCHANGED <<shared, list, handle, mine, pools, overrun>>

\* RPC_CreateBufferPool stores what the creation returned, be it null.
Store(t, pool) ==
  /\ handle' = [handle EXCEPT ![CpuOf[t]][type[t]] = pool]
  /\ mine' = [mine EXCEPT ![t] = 0]
  /\ type' = [type EXCEPT ![t] = NoType]
  /\ Goto(t, "idle")

Continue(t, step) == Goto(t, step) /\ UNCHANGED <<handle, mine, type>>
-----------------------------------------------------------------------------
(* IPC_SmPoolAlloc and IPC_SmAlloc.                                        *)

\* Seeded fault: > for >=.
CountTestOffByOne(t) ==
  /\ pc[t] = "count"
  /\ IF CurrentBuffers[CpuOf[t]] + CountOf[type[t]] > MAX
       THEN Store(t, 0)
       ELSE Continue(t, "space")
  /\ UNCHANGED <<shared, list, tries, ghosts>>

CountTest(t) ==
  /\ pc[t] = "count"
  /\ IF CurrentBuffers[CpuOf[t]] + CountOf[type[t]] >= MAX
       THEN Store(t, 0)
       ELSE Continue(t, "space")
  /\ UNCHANGED <<shared, list, tries, ghosts>>

SpaceTest(t) ==
  /\ pc[t] = "space"
  /\ IF (Allocated["CP"] - Allocated["AP"]) % WORD < SizeOf[type[t]]
       THEN Store(t, 0)
       ELSE Continue(t, "take")
  /\ UNCHANGED <<shared, list, tries, ghosts>>

\* "Allocate from the bottom up for AP": the mark is read, then moved.
TakeAp(t) ==
  /\ pc[t] = "take" /\ CpuOf[t] = "AP"
  /\ mine' = [mine EXCEPT ![t] = Allocated["AP"]]
  /\ Goto(t, "move")
  /\ UNCHANGED <<shared, list, handle, type, tries, ghosts>>

\* Seeded fault: the mark does not wrap.
MoveApWide(t) ==
  /\ pc[t] = "move" /\ CpuOf[t] = "AP"
  /\ Allocated' = [Allocated EXCEPT !["AP"] = @ + SizeOf[type[t]]]
  /\ overrun' = (overrun \/ Crossed)
  /\ Goto(t, "verify")
  /\ UNCHANGED <<CurrentBuffers, list, handle, type, mine, tries, pools,
                 serial, apart>>

MoveAp(t) ==
  /\ pc[t] = "move" /\ CpuOf[t] = "AP"
  /\ Allocated' = [Allocated EXCEPT !["AP"] = (@ + SizeOf[type[t]]) % WORD]
  /\ overrun' = (overrun \/ Crossed)
  /\ Goto(t, "verify")
  /\ UNCHANGED <<CurrentBuffers, list, handle, type, mine, tries, pools,
                 serial, apart>>

\* "Allocate from the top down for CP": the mark is moved, then read.
MoveCp(t) ==
  /\ pc[t] = "take" /\ CpuOf[t] = "CP"
  /\ Allocated' = [Allocated EXCEPT !["CP"] = (@ - SizeOf[type[t]]) % WORD]
  /\ overrun' = (overrun \/ Crossed)
  /\ Goto(t, "move")
  /\ UNCHANGED <<CurrentBuffers, list, handle, type, mine, tries, pools,
                 serial, apart>>

TakeCp(t) ==
  /\ pc[t] = "move" /\ CpuOf[t] = "CP"
  /\ mine' = [mine EXCEPT ![t] = Allocated["CP"]]
  /\ Goto(t, "verify")
  /\ UNCHANGED <<shared, list, handle, type, tries, ghosts>>

\* Seeded fault: the second test is missing.
VerifyNothing(t) ==
  /\ pc[t] = "verify"
  /\ CurrentBuffers' = [CurrentBuffers EXCEPT ![CpuOf[t]] = @ + CountOf[type[t]]]
  /\ pools' = pools \cup {[at |-> mine[t], type |-> type[t], cpu |-> CpuOf[t]]}
  /\ Continue(t, "first")
  /\ UNCHANGED <<Allocated, list, tries, serial, apart, overrun>>

\* "Memory overallocated": the marks stay where they are.  An address of 0,
\* which the marks can wrap to, means failure too.
Verify(t) ==
  /\ pc[t] = "verify"
  /\ IF Crossed \/ mine[t] = 0
       THEN Store(t, 0) /\ UNCHANGED <<CurrentBuffers, pools>>
       ELSE /\ CurrentBuffers' = [CurrentBuffers EXCEPT ![CpuOf[t]] = @ + CountOf[type[t]]]
            /\ pools' = pools \cup {[at |-> mine[t], type |-> type[t], cpu |-> CpuOf[t]]}
            /\ Continue(t, "first")
  /\ UNCHANGED <<Allocated, list, tries, serial, apart, overrun>>
-----------------------------------------------------------------------------
(* IPC_SmAddPool, and the pool's own initialisation.                       *)

TestFirst(t) ==
  /\ pc[t] = "first"
  /\ Goto(t, IF FirstPool = 0 THEN "set first" ELSE "last")
  /\ UNCHANGED <<shared, list, handle, type, mine, tries, ghosts>>

SetFirst(t) ==
  /\ pc[t] = "set first"
  /\ FirstPool' = mine[t]
  /\ Goto(t, "last")
  /\ UNCHANGED <<shared, LastPool, NextPool, handle, type, mine, tries, ghosts>>

TestLast(t) ==
  /\ pc[t] = "last"
  /\ Goto(t, IF LastPool = 0 THEN "set last" ELSE "link")
  /\ UNCHANGED <<shared, list, handle, type, mine, tries, ghosts>>

\* Seeded fault: the link points the wrong way.
LinkBackwards(t) ==
  /\ pc[t] = "link"
  /\ NextPool' = [NextPool EXCEPT ![mine[t]] = LastPool]
  /\ Goto(t, "set last")
  /\ UNCHANGED <<shared, FirstPool, LastPool, handle, type, mine, tries, ghosts>>

Link(t) ==
  /\ pc[t] = "link"
  /\ NextPool' = [NextPool EXCEPT ![LastPool] = mine[t]]
  /\ Goto(t, "set last")
  /\ UNCHANGED <<shared, FirstPool, LastPool, handle, type, mine, tries, ghosts>>

SetLast(t) ==
  /\ pc[t] = "set last"
  /\ LastPool' = mine[t]
  /\ Goto(t, "init")
  /\ UNCHANGED <<shared, FirstPool, NextPool, handle, type, mine, tries, ghosts>>

\* The pool is filled in after it was put on the list, its link included.
InitPool(t) ==
  /\ pc[t] = "init"
  /\ NextPool' = [NextPool EXCEPT ![mine[t]] = 0]
  /\ Goto(t, "store")
  /\ UNCHANGED <<shared, FirstPool, LastPool, handle, type, mine, tries, ghosts>>

StoreHandle(t) ==
  /\ pc[t] = "store"
  /\ Store(t, mine[t])
  /\ UNCHANGED <<shared, list, tries, ghosts>>
-----------------------------------------------------------------------------
Next ==
  \/ \E t \in Threads, i \in Types : Begin(t, i)
  \/ \E t \in Threads : CountTest(t) \/ SpaceTest(t)
  \/ \E t \in Threads : TakeAp(t) \/ MoveAp(t) \/ MoveCp(t) \/ TakeCp(t) \/ Verify(t)
  \/ \E t \in Threads : TestFirst(t) \/ SetFirst(t) \/ TestLast(t) \/ Link(t) \/ SetLast(t)
  \/ \E t \in Threads : InitPool(t) \/ StoreHandle(t)

Spec == Init /\ [][Next]_vars
-----------------------------------------------------------------------------
(* Properties.                                                             *)

TypeOK ==
  /\ Allocated \in [Cpus -> Addresses]
  /\ CurrentBuffers \in [Cpus -> Nat]
  /\ FirstPool \in Addresses /\ LastPool \in Addresses
  /\ NextPool \in [Addresses -> Addresses]
  /\ handle \in [Cpus -> [Types -> Addresses]]
  /\ pc \in [Threads -> Steps]
  /\ type \in [Threads -> Types \cup {NoType}]
  /\ \A t \in Threads : type[t] = NoType <=> pc[t] = "idle"
  /\ mine \in [Threads -> Addresses]
  /\ tries \in [Threads -> 0..MaxTries]
  /\ pools \subseteq [at : Addresses, type : Types, cpu : Cpus]
  /\ serial \in [Cpus -> BOOLEAN] /\ apart \in BOOLEAN /\ overrun \in BOOLEAN

EndOf(p) == p.at + SizeOf[p.type]

AllSerial == \A c \in Cpus : serial[c]

\* Two pools never share memory, and none lies outside the shared memory or
\* on its control block, although the CPUs do not exclude each other: as long
\* as each CPU creates its pools one at a time, and as no mark is moved once
\* the marks have crossed.
PoolsDisjoint ==
  AllSerial /\ ~overrun =>
    /\ \A p \in pools : Base <= p.at /\ EndOf(p) <= Area
    /\ \A p, q \in pools : p # q => EndOf(p) <= q.at \/ EndOf(q) <= p.at

\* A CPU's pools have fewer than IPC_SM_MAX_BUFFERS buffers together, which
\* is what keeps the FIFOs from wrapping (BuffersAssumption of IpcFifo), if
\* the CPU creates its pools one at a time.
BuffersFit ==
  \A c \in Cpus : serial[c] => CurrentBuffers[c] < MAX

\* The k-th pool of the list, as IPC_PoolDumpAll walks it.
Listed[k \in Nat] ==
  IF k = 0 THEN FirstPool
  ELSE IF Listed[k - 1] = 0 THEN 0 ELSE NextPool[Listed[k - 1]]

\* When nobody is creating a pool, IPC_PoolDumpAll comes to the end of the
\* list and meets only pools, even if both CPUs appended at the same time
\* (one may then be missing); without such an overlap it meets them all.
ListIsSound ==
  AllSerial /\ ~overrun /\ (\A t \in Threads : pc[t] = "idle") =>
    LET met == {Listed[k] : k \in 0..Cardinality(pools)}
        ats == {p.at : p \in pools}
    IN  /\ 0 \in met
        /\ met \ {0} \subseteq ats
        /\ apart => ats \subseteq met
=============================================================================
