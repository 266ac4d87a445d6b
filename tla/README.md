# fuse_ipc, fuse_rpc, fuse_net: TLA+ models, checks and proofs

This directory specifies the core of the Merruk Technology kernel's own code for
the Samsung GT-S5360: `fuse_ipc`, the shared-memory link between the application
processor (AP, which runs this Linux) and the communications processor (CP, the
modem), and what is built on it: the synchronous calls and the packet pools of
`fuse_rpc` and the network devices of `fuse_net`. The models are written from the
C code under `src/modules/drivers/char/brcm` (paths below are relative to it),
checked by TLC on small instances, and every invariant they satisfy is proved
by TLAPS for every value of the parameters. `PROJECT.json` maps every definition to
the lines it models.

## 1. The system

The repository is a Linux 2.6.35 Android kernel (`src/common`), nearly all of it
upstream, Android or third-party code, plus the Broadcom modules
(`src/modules/drivers/char/brcm`) that are built with it. The BCM21553 has two
ARM cores with separate operating systems; everything the telephone does with
the network goes through a block of shared memory and one interrupt in each
direction. The AP is a uniprocessor with a preemptible kernel.

| Part | State | Operations | Interacts with |
|---|---|---|---|
| Shared-memory FIFO (`ipc_CIB/src/ipc_sharedmemory.c`) | two cursors and a ring of 1024 slots per direction and purpose (send, free) | `IPC_SmFifoWrite`, `IPC_SmFifoRead`, drain loop of `IPC_ProcessEvents` | the other CPU reads concurrently; raises its interrupt |
| Shared-memory control (same file) | `Initialised` words, allocation marks, pool list, endpoint table, crash report | `IPC_Initialise`, `IPC_Configured`, `IPC_SmAlloc`, `IPC_SmAddPool`, `IPC_EndpointRegister`, `IPC_SmSendBuffer`, `IPC_SmFreeBuffer` | both CPUs write it |
| Buffer pool (`ipc_bufferpool.c`) | `FreeBuffers`, free queue, flow-control state, pending flag, empty event | allocate, allocate and wait, return, report | FIFO (free messages from the other CPU), flow-control callback of the user |
| Buffers (`ipc_buffer.c`) | header and data offsets, status, destination | send, free, header and data access | pool and FIFO |
| Queues (`ipc_queues.c`) | linked list | add, get | pool |
| Deep-sleep handshake (`ipc_powersaving.c`) | two access flags, two answers | AP check, CP check, CP wakeup | power hardware |
| Server (`ipc_server.c`, `ipc_server_ccb.c`, `lnx_support.c`) | `ap_ipc_init_done`, `ipc_state`, early-interrupt flag, work item, wake lock, events | module init, interrupt, work item, event wait/set/clear, critical regions | all of the above |
| Crash support (`ipc_crashsupport.c`) | crash count, dump state | crash check, crash dump | crash report in shared memory |
| Synchronous calls (`fuse_rpc/rpc_CIB/srpc/src/rpc_sync.c`) | id counter, `sTaskRequestMap` with two semaphores per slot | take an id, wait for ack and response, lock and release the response buffer, handle ack, handle response | tasks and the message thread share the slots |
| Packet interface (`fuse_rpc/rpc_CIB/arpc/src/rpc_ipc.c`) | a pool handle per interface | create the pool on demand, allocate, send, flow-control callback | allocator, pool, `fuse_net` |
| `fuse_net` (`fuse_net/bcm_fuse_net.c`) | device table, transmit queues | open, stop, transmit, flow control | packet interface, network stack |
| `fuse_at`, `fuse_sysparm`, `fuse_vsp`, `fuse_pdp`, `fuse_ril` | device tables | character devices | `fuse_rpc` |
| `fuse_log`, cameras, 3D, xscript | device state | drivers | kernel |

What is hard here. The two CPUs share memory with no lock: a critical region
(`lnx_support.c`: preemption and interrupts off) excludes the threads of one CPU
only. The code relies on single-writer cursors, on flags and on the order of
stores. Threads of the AP are preempted between any two regions, and the code
uses values from a region it has left. The CP may start earlier or later than
the AP and may crash at any moment. `PROJECT.json` lists each such place under
"hazards" with the property that watches it, or the reason there is none yet.

What makes the parts correct:

- FIFO: what is sent is received once each, in order, eventually; a ring without
  a full test is never filled; no wakeup is lost.
- Pool: no buffer is lost; the flow-control state is the hysteresis of the count;
  the user learns the last state; a waiter gets a returned buffer.
- Deep sleep: the CPUs exclude each other, do not spin on each other, and leave
  the hardware as the AP last answered.
- Start-up: nobody uses IPC before both ends are reset for the last time, both
  ends are told, a crash is recognised and dumped.
- Allocator and creation of pools: pools do not overlap, a CPU's pools stay below
  the number of buffers the FIFOs can carry, the shared list of pools can be walked.
- Synchronous calls: a call gets the answer to its own request, and a response is
  never written where no call waits for it any more.
- Network devices: a device in service keeps its table entry, the queues follow
  the pool's flow control, a transmission never sleeps in the soft interrupt, a
  stopped queue runs again, a packet buffer is lost only after a crash code, which
  may be that of an assertion on the AP.
- Crash dump: one dump, its packets in order; the panic notifier never maps a crash
  code as a packet, the work queue's dump only that of an assertion on the AP; every
  crash the CP signals is dealt with; a panic ends whether or not the CP answers
  for its log, unless it never publishes its dump; the wake lock is not left behind.

## 2. Modules

| Module | Models | Source |
|---|---|---|
| `IpcChannel` | abstract channel: send, receive in order, recycle | what the users of the FIFO rely on |
| `IpcFifo` | ring, writers of one CPU, interrupt, work item, reader | `ipc_sharedmemory.c`, `ipc_sharedmemory.h`, `ipc_server.c` |
| `IpcBufferPool` | pool, flow control, waiters | `ipc_bufferpool.c`, `EventWait` of `ipc_server.c` |
| `IpcPowerSaving` | deep-sleep handshake of both CPUs | `ipc_powersaving.c` |
| `IpcStartup` | initialisation of both CPUs, module init, crash reports | `ipc_sharedmemory.c`, `ipc_server.c`, `ipc_crashsupport.c` |
| `IpcCrashDump` | interrupt handler, wake lock, work item, crash check, the dump's packet exchange with the CP, panic notifier | `ipc_server.c`, `ipc_crashsupport.c`, `ipc_sharedmemory.c`, `src/common/drivers/misc/cp_crash.c`, `fuse_log/bcmlog.c` |
| `IpcPoolCreation` | shared-memory allocator, list of pools, pools created on demand by threads of both CPUs | `ipc_sharedmemory.c`, `ipc_bufferpool.c`, `rpc_ipc.c` |
| `RpcSync` | synchronous calls: ids, slots, semaphores, time-outs, the message thread | `rpc_sync.c`, `rpc_sys.c` |
| `FuseNet` | network devices composed with an instance of `IpcBufferPool`, the way of a packet buffer to the CP and back, the CP's crash | `bcm_fuse_net.c`, `rpc_ipc.c`, `ipc_sharedmemory.c`, `ipc_crashsupport.c` |
| `MCIpcFifo`, `MCIpcPoolCreation`, `MCRpcSync`, `MCIpcCrashDump` | instances and symmetry sets for TLC | |
| `*Proofs` | theorems and proofs, one module for each model but `IpcChannel`, which `IpcFifoProofs` refers to | |

Definitions whose comment begins "Seeded fault" are wrong on purpose. Nothing
uses them; each is a plausible bug that, put in place of the definition after it,
makes TLC report the property `PROJECT.json` names with it ("mutants").

### IpcFifo

`IPC_SmFifoWrite` is four actions, split where another actor can see a
difference. `WriteSlot` enters the region, copies the cursor and fills the slot;
`WriteAdvance` moves the cursor (the slot is now visible to the other CPU) and
leaves the region; `WriteCheck` is the test `ReadIndex == OriginalWritePointer`
outside the region; `WriteRaise` raises the interrupt. While a thread is in the
region no thread of that CPU takes a step, as with interrupts off; the reader, on
the other CPU, does. On the reading side `Interrupt` queues the work item (once),
`WorkStart` marks it not queued and enters the drain loop, and
`ReadTest`/`ReadSlot`/`ReadAdvance` are the three memory accesses of
`IPC_SmFifoRead`; with the last one the buffer is delivered (`Deliver`). `Recycle` is the way back through the free path
(`IPC_FreeBuffer`), taken as one step: the opposite FIFO is another instance of
this module. One interrupt line serves both FIFOs of a direction, start-up and
crash reports: `OtherInterrupt` is an interrupt that was raised for another
reason. `IPC_ProcessEvents` drains the send FIFO, then the free FIFO, and drains
neither once the CP has crashed; here the CP does not crash (`IpcCrashDump` does
that). The shared area is mapped uncached, as device memory, so stores
appear in program order.

A FIFO carries buffers of one owner only: the send FIFO of a CPU those it
allocated, its free FIFO those of the other CPU going home. `IPC_SmPoolAlloc`
(`ipc_sharedmemory.c:344`) keeps their number below the number of slots, which
is `BuffersAssumption`. `WriteCount` and `HighWaterMark` are left out.

### IpcBufferPool

One step per critical region, and one per unprotected read in
`IPC_BufferReturnToPool`. `CheckFlowState` is the macro `CHECK_FLOW_STATE`
together with the decision to call `IPC_ReportFlowControlEvent`; a thread that has
to report goes through `ReportCheck` and one or more `ReportCall`, then to
`next`. The callback runs inside the second region (the `UNDER_LINUX` branch), so
the callback and the test after it are one step; `told` records its argument.
`EmptyEvent` is the flag of the event; `EventWait` returns OK only if the flag is
set when the sleeper runs, which is why a flag cleared in between puts it back to
sleep. The free queue is its length: buffers of a pool are interchangeable here.
`IPC_BufferReturn`'s optional free callback is not modelled.
A wait without timeout really ends after 2^32 ticks, about seven weeks; it is
modelled as endless.

### IpcPowerSaving

One action per load or store of a shared flag, on either CPU.
`CheckDeepSleepAllowed`, a platform callback, answers anything.
`SemaphoreAccessDelay` is a platform callback too; whether it outlasts the few
instructions between the AP's last look at the CP's flag and the store of its own
is the constant `DelayCovers`. The CP half is compiled for the CP from the same
file.

### IpcStartup

Both CPUs run `InitTest`, `InitBasic`, `InitOwn`, `InitDone`, `Configure`,
`ConfigureTest`. On the AP `ipcs_module_init` continues with `CheckEarly` and
`Poll`. `ApInterrupt`, `WorkCrashCheck` and `WorkEvents` are `ipcs_interrupt` and
its work item. `CpAnalyse` and `CpCrash` are the two signals of a crashing CP, at
any point. The CP's own start-up and interrupt code is not in the repository: it
is taken to call the library in the order the AP does. The shared memory is taken
to be cleared by the boot loader. The AP-only boot (`ipc_server.c:458`), which
skips the wait for the CP, and failing registrations are left out.

### IpcCrashDump

The state after start-up. `Interrupt` is `ipcs_interrupt`: take the wake lock
(which does not count) and queue the work item. The work item is `WorkLoad` and
`WorkCheck` (`IpcCPCrashCheck`, split between its loads of the code and of the
dump), `WorkEvents` (`IPC_ProcessEvents`) and `WorkUnlock`, because interrupts and
the CP come in between. A first crash report queues the dump on the kernel's own
work queue (`DumpStart`) or, when the dump goes to flash, kills the AP.
`Dump(x)` is `ProcessCPCrashedDump` with `DUMP_CP_assert_log`, in the work queue
or in the panic notifier `do_cp_crash` (`PanicCheck`, `PanicAssert`, `PanicDump`):
one step per access of `SmControl->CrashCode`, the word that carries the crash
code, the AP's request and the CP's answer. `ApAssert` is one more writer of that word:
`CAPI2_Assert` (`fuse_ril/bcm_kril_capi2_handler.c:157`), which every assertion of
`fuse_rpc` calls when it fails (a request that timed out or was refused, a pool that
could not be created). It stores `IPC_AP_ASSERT` and returns; the AP goes on, and a
dump may be under way.

The constant `Configs` holds the build options (panic on a CP crash, crash dump) and
the destinations that may be configured; the variable `config` is one of them. Mapping shared memory may fail, and
so may opening the file. `logged` records what was written: a packet of the CP, or 0
for what was found at the address that a code happens to be (`Mapped`). The contents
of packets, the summary and the memory blocks of `DUMP_CPMemoryByList` are data
only. A log has `Packets` packets and an empty last one.

Taken from outside the repository: the CP answers a request it sees with its next
packet, at any time or never; it signals a crash of its own at any time or never, told
of an AP assert or not, and may die in the middle of the signal; `abort` leads to a panic because Android sets `panic_on_oops`; the AP may panic at
any moment for a reason of its own. Resetting a CP that has crashed is not
possible in this code.

### IpcPoolCreation

A thread that needs a buffer of an interface without a pool goes through
`RPC_CreateBufferPool`: `Begin` (the handle is null), `CountTest` and the final
update in `Verify` (`IPC_SmPoolAlloc`), `SpaceTest`, the move of the mark and the
second test (`IPC_SmAlloc`: `TakeAp` then `MoveAp` on the AP, `MoveCp` then `TakeCp`
on the CP, in the order of the code's statements), the list (`IPC_SmAddPool`:
`TestFirst`, `SetFirst`, `TestLast`, `Link`, `SetLast`), `InitPool` and
`StoreHandle`. Nothing in this path is protected by a region, so every access to
shared state is a step. Marks and their difference are words: once the marks have
crossed, the difference is huge, every further request passes the first test and
moves a mark again, and the marks can wrap and meet memory that is in use. That is
why `PoolsDisjoint` and `ListIsSound` are stated for histories in which no mark was
moved after a crossing (`overrun`). And two threads of one CPU can read the same
mark and get the same memory; the properties hold as long as each CPU creates its
pools one at a time (`serial`), while the two CPUs need not exclude each other.
No lock of the code makes a CPU do so: `serial` is a condition, recorded as a
variable, and the runs that break it are part of the model. It also decides whether
an interface gets one pool only, so that is not stated as a property (see "What else
the models showed").

### RpcSync

A task's call is `FoundMap`, `NewMap`, `RecycleMap` (with `ResetRecycled`) or
`NoMap`, then `Publish`, perhaps `LockResponseBuffer`, the two waits (`AckObtain`,
`RspObtain`, or `Timeout` and `ReadLate`) and `Return`. The message thread is
`Dispatch` or `DispatchNoMap`, then `HandleAck`, or `CopyCb` and `HandleResponse`.
The CP acknowledges and answers in any order, late or never. Calls are numbered so
that properties can tell whose ack, response or buffer a slot holds. An id is not
handed out while a request or message with it is still under way: 2^32 calls lie
between two uses of an id.

### FuseNet

The pool is an instance of `IpcBufferPool` with one waiter, the transmission in
the soft interrupt, and one returner, the work item; `Report` is the pool's
callback, which here is `RPC_FlowCntrl` and `bcm_fuse_net_fc_cb` and changes the
queues in the same step, inside the pool's region. `FindEntry` and `StartQueue` are
`bcm_fuse_net_open`, `OpenRefused` is its -EISCONN, `FreeEntry` and `StopQueue` are `bcm_fuse_net_stop`, `Tx` and
`SendData` are `bcm_fuse_net_tx`. The kernel's RTNL lock serialises opening and
closing (`Rtnl`).

An entry of the device table has a state and a PDP context id. Attach gives every
entry the id `BCM_NET_MAX_PDP_CNTXS`; opening gives the device's entry its own,
`RMNET_TO_CID`; closing frees the first entry that has the id of the device's entry
and makes that id invalid. The two ids coincide for one device, the last of the RIL
devices (rmnet2 in the code), and the model keeps that: the ids are numbers, computed
as in `bcm_fuse_net_if.h` from the number of devices and of DUN contexts.

`CpReport` is the CP's two-stage report of a crash and `ApAssert` an assertion that
fails on the AP (`CAPI2_Assert`); `cp` is what the CP has reported, `CrashCode` the word
both of them store to. `MeetReport` and `TakeBack` are `IPC_ProcessEvents`, which
raises `g_bCpCrashed` at the first code and takes it back while the code says that the
CP is still analysing: in between, `IPC_SmSendBuffer` drops buffers without telling
anyone.

## 3. Runs

| Run | Instance | Result |
|---|---|---|
| `fifo_safety` | 2 writers, 3 buffers, 4 slots | passes: `NeverWraps`, `OnePlace`, `NoLostWakeup`, `SafelyImplementsChannel` |
| `fifo_liveness` | 2 writers, 2 buffers, 4 slots | passes: `ImplementsChannel` (with fairness) |
| `pool` | 1 thread that allocates and returns, 1 that returns, 1 waiter with and without time-out, 3 buffers, limits 0 and 2 | passes: `Conserved`, `StateMatchesLevel`, `NoLostReport`, `NoStrandedWaiter`, `NoWaiterSleepsOnBuffers` |
| `pool_two_waiters` | 2 endless waiters, 1 returner, 2 buffers | `NoWaiterSleepsOnBuffers` violated |
| `deep_sleep` | both CPUs, `DelayCovers` | passes: `MutualExclusion`, `HwObeysAp`, `NoMutualSpin` |
| `startup` | both CPUs, crash anywhere, 2 polls | passes: `UpMeansReady`, `EarlyMeansCrash`, `HandshakeCompletes`, `CrashAfterUpIsDumped` |
| `startup_early_crash` | same | `EarlyCrashIsDumped` violated |
| `crash_dump` | every build, all three devices, 2 packets, 1 retry, 1 assertion on the running AP | passes: `AnswerOrAssert`, `LogInOrder`, `OneDump`, `LockHasOwner`, `CrashIsHandled`, `CrashKillsAp`, `PanicEnds`, `MessageIsTaken` |
| `rpc_sync` | 3 tasks, 2 slots, 3 calls, 2 ids beside 0, time-outs in one slot | passes: `TypeOK`, `AnswerIsMine`, `OnlyLateSlotsHarm`, `TableHasRoom` |
| `pool_creation` | 2 threads of the AP, 1 of the CP, 3 interfaces, 5 bytes of memory and words of 12 values, 2 creations per thread | passes: `TypeOK`, `PoolsDisjoint`, `BuffersFit`, `ListIsSound` |
| `fuse_net` | 2 devices (no DUN context), 2 buffers, limits 0 and 2 | passes: `EntryFollowsDevice`, `QueueFollowsFlow`, `XmitWaitsOnlyIfHasty`, `LostOnlyOnCrashCode`, `ImplementsPool`, `QueueRestarts` |
| `fuse_net_open` | 3 devices (1 DUN context), 2 buffers, limits 0 and 2 | `XmitNeverWaits` violated |

The three violations are places where the code does not do what its comment says
("findings" in `PROJECT.json`):

- Two threads that wait on one pool (`ipc_bufferpool.c:618`): the second one's
  `EVENT_CLEAR` takes away the wakeup of the first, and a return sets the event
  only when it makes the count 1, so the first may sleep on while buffers come
  back. One waiter is safe.
- A CP crash after `ap_ipc_init_done` but before IPC is configured is not dumped
  (`ipc_server.c:64`).
- A network device opened while the pool is in flow stop starts its queue, and its
  next transmission waits for a buffer in the soft interrupt, which "is not
  permitted in Net IRQ and results in crash" (`ipc_bufferpool.c:468`). Without such
  an opening no transmission waits (`XmitWaitsOnlyIfHasty`), although the queues
  are stopped only after the region in which the pool ran empty.

What else the models showed, without a run of its own. The "last ditch check -
should never happen" (`ipc_bufferpool.c:697`) does happen, because it compares an
old count; `NoLostReport` shows that it does no harm. The basic set-up "only done
once" (`ipc_sharedmemory.c:632`) is done by both CPUs when they start together, with
the same values; `UpMeansReady` shows that it is done, and not done again once IPC
is up. The crash dump is not always done "under IPC wakelock"
(`fuse_log/bcmlog.c:975`): an interrupt between `IPC_ProcessEvents` and the unlock
takes the lock that the work item then drops. The "full crash log"
(`ipc_crashsupport.c:316`) may lack a packet: an answer between the last look and
the repeated request is overwritten; and if the file on the SD card does not open,
the log goes nowhere, not "out RNDIS" (line 369). A device opened in flow stop can
take each buffer as it comes back and keep the pool from flow start for ever, which
is the exception in `QueueRestarts`. A late answer harms only its own slot: every
later call in that slot may read it, since the semaphores are not reset
(`OnlyLateSlotsHarm`, `AnswerIsMine`).

More of the same kind, each of them a path of the model that a property has to allow
for:

- rmnet2 closed while rmnet0 or rmnet1 has never been opened: the first entry with
  its id is one that attach left with it (`bcm_fuse_net.c:471`, `599`), which is
  "freed", and rmnet2's own stays in use. A later flow start wakes the queue of the
  closed device, and a reopening fails with -EISCONN. `EntryFollowsDevice` shows that
  this happens to no other device and that no device in service is hurt.
- An assertion that fails on the AP makes `IPC_ProcessEvents` stop looking into the
  FIFOs and `IPC_SmSendBuffer` drop what is sent, whether or not the CP has crashed
  (`LostOnlyOnCrashCode`).
- The same assertion during the work queue's dump is mapped as a log packet: code 13
  is not `IPC_AP_CLEAR_TO_SEND`, and the loop takes everything else for the "physical
  address of current assert buf" (`ipc_crashsupport.c:382`). What is written then is not from
  the CP's log; the packets that are stay in order (`AnswerOrAssert`, `LogInOrder`).
- The notifier's busy wait for the CP's dump (`ipc_crashsupport.c:173`) has no
  time-out. A CP that is dead or deaf to `IPC_AP_ASSERT` hangs the panic there, and
  nowhere else (`PanicEnds`).
- Two threads of the AP that need the first buffer of one interface both find the
  handle null (`rpc_ipc.c:201`) and both create a pool, against "first time only"
  (`rpc_ipc.h:42`); they may get the same memory, and one that fails stores null over
  the other's handle.

Bounds. Four slots and three buffers let the ring wrap, with the cursors in every
relation, and reach its limit of one free slot. Two writers give every race
between tests outside the region and the other's stores. Three buffers with
limits 0 and 2 give a count below, between, at and above both limits; three
threads let a report overlap two later changes. Two polls let the AP both
see the CP in time and give up. The parameters are not otherwise bounded: the
instances are finite, and `crashCount` and `done` are 0 or 1 because the code tells
only none from some. Two packets and the empty one let a packet be lost or
repeated with one before and one after it; one retry (the code has five) lets an
answer be in time, late and missing. The code does not bound the assertions that fail
on the AP; `MaxAsserts` does, to one, which can hit every step of a dump. Each one
that is mapped as a packet sets `retryCount` back to 0, so a dump ends
(`CrashIsHandled`) only if they come to an end; the proofs hold for any number of
them. Three calls of three tasks over two slots fill
the table, use a slot twice, take one over from a task that has ended and run out
of slots (`MaxCalls`); two ids make the counter wrap. `MaxLate` lets the waits of
one slot time out, so that the other slot is the one that must not be harmed. Five
bytes hold two pools of two or three bytes but not three; two creations per thread
(`MaxTries`) let a failed one be tried again and move a mark past the other twice.
Two buffers let one device take what another one waits for. Two devices without DUN
contexts have the ids 1 and 2, and 2 is the id attach sets, so that the second one
stands for rmnet2 and the first for rmnet0 and rmnet1.

`CHECK_DEADLOCK FALSE` is set where the system ends: start-up, the crash run, which
ends with a dead AP, and `rpc_sync` and `pool_creation`, which end when the bounded
number of calls or creations is used up.

Fairness. A thread inside a call is run again (`WF` per thread: the scheduler does
not starve a runnable thread), a raised interrupt is taken, and a queued work
item is run by its work queue. No thread is obliged to begin a call, no user to
give a buffer back, and the CP need not crash; a CP that has begun its crash report
finishes it in `IpcStartup`. In `IpcCrashDump` the handler, the work item, the dump's
work queue and the notifier are fair, each by itself; the CP is obliged to nothing,
neither to signal a crash it was told to have, nor to finish a signal, nor to answer
for its log. In `IpcPowerSaving` both
CPUs run with interrupts off from their first store to their last, but nothing
makes them start. In `FuseNet` the transmission and the work item are run, and a CP
that lives frees the buffers it has received; nobody is obliged to open, to close
or to send.

## 4. Proofs

TLAPS checks the following for every value of the constants that satisfies the
named assumptions.

| Module | Theorem | Shows |
|---|---|---|
| `IpcFifoProofs` | `TypeCorrect`, `FifoNeverWraps`, `BuffersInOnePlace`, `WakeupsNotLost`, `FifoImplementsChannel` | the safety of the ring for any power of two `MAX`, any set of threads and fewer than `MAX` buffers, and that it implements `IpcChannel` |
| `IpcBufferPoolProofs` | `TypeCorrect`, `BuffersConserved`, `FlowStateCorrect`, `ReportsNotLost`, `OneWaiterSafe` | the pool for any size, any limits Stop < Start and any finite sets of threads; the last one for at most one waiter |
| `IpcPowerSavingProofs` | `TypeCorrect`, `AccessIsExclusive`, `HardwareObeysAp` | exclusion whatever the delay; obedience if the delay is long enough |
| `IpcStartupProofs` | `TypeCorrect`, `UpIsReady`, `EarlyIsCrash` | start-up for any number of polls, with or without crashes |
| `IpcCrashDumpProofs` | `TypeCorrect`, `OnlyAnswersOrAsserts`, `DumpedOnce`, `LockIsOwned`, `LoggedInOrder` | the dump and the wake lock for any length of the log, any number of retries and of assertions on the AP, both build options and every device |
| `IpcPoolCreationProofs` | `TypeCorrect`, `BuffersBounded`, `PoolsDoNotOverlap`, `ListCanBeWalked` | creation of pools for any threads of the two CPUs, any interfaces, sizes and counts, any size of the memory and of a word |
| `RpcSyncProofs` | `TypeCorrect`, `TableSuffices`, `AnswersAreMine`, `HarmNeedsTimeout` | the synchronous calls for any number of tasks, slots, ids, calls and time-outs |
| `FuseNetProofs` | `UsesPoolAsSpecified`, `TypeCorrect`, `EntriesFollowDevices`, `QueuesFollowFlow`, `BuffersLostOnlyOnCrashCode`, `TransmissionDoesNotWait` | any number of devices whose ids fit in a byte, over a pool of any size and limits, the look-up by id as in the code; that the composition takes only steps of the pool |

The inductive invariants:

- `IpcFifo`: `Base` (types; the thread in the region is the one at "index", and
  its `orig` is the write cursor), `ReaderInv` (a reader at "load" or "advance"
  has a non-empty FIFO, and `rbuf` is its head), `OnePlace` and `NoLostWakeup`.
  `NeverWraps` is not inductive by itself: it follows from `OnePlace`, because
  the FIFO's contents and the message being written are different buffers, of
  which there are fewer than slots (lemma `RingNotFull`, the pigeonhole
  principle). The refinement shows for each action how `Contents` changes:
  appended to by `WriteAdvance`, beheaded by `ReadAdvance`, else the same.
- `IpcBufferPool`: the types and the steps from which each local variable has its
  meaning (`TypeInv`), `Conserved`, `StateMatchesLevel` and `NoLostReport`.
  `NoLostReport` is inductive because a thread at "check" whose news is news, or
  at "call", always remains until it has told the state it found; a report made by
  the last-ditch check may clear the pending flag of another reporter but cannot
  remove that reporter. `OneWaiterSafe` adds that between a failed second
  allocation and the wait only the one waiter could have cleared the event.
- `IpcPowerSaving`: each access flag is up exactly in the steps between its two
  stores (`FlagsMatch`), and a CP past "settle" has seen the AP's flag down while
  its own was up. `HwObeysAp` further needs what `DelayCovers` gives: the AP is
  not in its window when the CP settles.
- `IpcStartup`: a CPU's step and its `Initialised` word agree and a CPU
  that has passed or skipped the basic set-up finds it done (`ReadyInv`); an
  interrupt to the AP implies that the AP is past `InitDone` or the CP has crashed
  (`EarlyInv`); the polls are counted (`PollsInv`).
- `IpcCrashDump`: the panic notifier's steps and its dump agree with `ap`
  (`PanicInv`); a dump that is past its busy wait has seen the CP's `CrashDump`, so
  the CP is past its last store of a code, and past the first request `CrashCode`
  holds a request or an answer, or, as long as the AP is up, an assertion's code
  (`AskInv`); two dumps past "enter" would both have
  found `done` 0 (`OnceInv`); the lock has an owner (`LockInv`); the log is
  ascending, none of it is above the packet in the CP's buffer, and an answer that
  has not been read yet is above all of it (`LogInv`).
- `IpcPoolCreation`: a CPU that creates its pools one at a time has one creating
  thread at most (`Exclusive`). Then a thread past the count test still has room for
  its buffers (`CountInv`); the handle of a type under creation is null, and every
  pool has its handle or a thread about to store it, whose pool it is (`CreateInv`,
  which the proof about the list uses). For the memory
  (`MemoryInv`): the marks are inside the memory, the AP's pools end below its mark
  and the CP's begin above theirs, and a thread between its move of the mark and
  its second test holds the piece between the old and the new mark. The two CPUs
  move their marks at the same time and may both pass the first test; what keeps
  their pools apart is that each mark only moves one way, so that the one who
  tests last sees a crossing. For the list (`ListInv`): only pools are on it, a pool
  whose thread has not made it the last yet leads nowhere (`Nodes`), and the links go
  up in some order of the pools (`Ordered`), so that a walk never comes back. `Link`
  keeps this because it puts the new pool, which has no successor, on top of the
  order; `InitPool` only cuts. If the CPUs never overlapped, every pool is also the
  first, or follows one, or has a thread about to link it (`Whole`). That
  `ListIsSound` follows is an induction along the walk: `AllNumbers` derives it for
  sets of numbers from the well-foundedness of <, `Iterates` and `Walk` show that
  the recursive `Listed` is defined and goes from link to link, and the pigeonhole
  principle bounds its length.
- `RpcSync`: `Base` is what holds whatever times out. A task owns one slot at
  most and works on its own (`Owned`, which with the pigeonhole principle gives
  `TableHasRoom`); calls are new when they are made, and only the caller's slot points to its buffer
  (`Numbered`); for a call the CP sends an ack and then at most one response, in
  this order (`Protocol`); and an id that a task, a request, a message or a slot
  carries stands for one call (`TidsUnique`). `SlotInv` is about slots without a
  time-out: a slot nobody works in is at rest, with no signal left in its
  semaphores, no message to come and no buffer, and a slot in use is in the phase
  that its task's step, the CP's progress with the call and the messages under way
  determine (`Phase`); the message thread works on the slot of its message's call
  (`HandlerInSlot`). The central lemma is `MessageIsExpected`: a message that
  finds a slot without a time-out finds the task that made the call, waiting for
  this very message. `AnswerIsMine` alone is not inductive: it speaks of calls
  that have ended, and what decides is which messages are still to come.
- `FuseNet`: `UsesPoolAsSpecified` maps every step to a step of the pool, so the
  pool's theorems hold here by instantiation (`PoolFacts`). An entry has the id attach
  set, the invalid one or its device's, and this last one when it is in use
  (`IdsKnown`, `TableInv`); since `RMNET_TO_CID` is one-to-one, what closing a device
  frees is its own entry or, for the device with attach's id, one that is free
  already (lemma `FreedEntry`). A crash that the AP has seen has its code, which is
  never taken back (`BufferInv`). For `XmitWaitsOnlyIfHasty`, `FlowInv` says that
  as long as no queue was started in flow stop, the transmission is never in the
  wait and reports only flow stop; a flow stop that nobody was told of is about to be
  reported by the transmission itself, before its queue can run again; the work item
  reports only flow start, and while the queues are stopped; and a pending report
  has its reporter. Hence a transmission never begins in flow stop, and outside it a
  buffer is free.

Assumptions used: `MaxAssumption` and `BuffersAssumption` (`IpcFifo`),
`LimitsAssumption` (`IpcBufferPool`), `DelayAssumption`, `StartupAssumption`,
`CrashDumpAssumption`, `CreationAssumption`, `SyncAssumption`, `IdAssumption`,
`NetAssumption`.
Stop < Start is not checked by `IPC_CreateBufferPoolWithDescriptor`; every pool of
`fuse_rpc/rpc_CIB/public/rpc_ipc_config.h` satisfies it. The theorems about
`FuseNet` are stated for `SafeSpec`, the specification without its fairness, and so
hold of `Spec`.

`BuffersAssumption` is what `BuffersBounded` shows of each CPU, under the
condition that it creates its pools one at a time.

The type invariants of the FIFO, the pool, the handshake, start-up, the crash dump and
the network devices are proved and not run again. Only model-checked: the liveness properties
(`ImplementsChannel`, `NoWaiterSleepsOnBuffers`, `NoMutualSpin`,
`HandshakeCompletes`, `CrashAfterUpIsDumped`, `CrashIsHandled`, `CrashKillsAp`,
`PanicEnds`, `MessageIsTaken`, `QueueRestarts`, and of `ImplementsPool` the pool's
fairness), which are out of the prover's reach; and the three violations. Each
invariant was checked by TLC on the run's instance before it was proved,
the inductive ones (`FlowInv`, `TidsUnique`, `SlotInv`, `ListInv`) included.

## 5. Plan

Done: the FIFO, the pool, the handshake, start-up, the crash dump with the server's
interrupt path; then the allocator and the creation of pools, the synchronous
calls, and the network devices composed with the pool; and the proofs of every
invariant. Next, in this order:

1. The steps between the parts that the models leave to words: that the pools of
   `IpcPoolCreation` are the buffers `IpcFifo` may carry (`BuffersBounded` gives its
   `BuffersAssumption`).
2. The AP as a server of the CP's requests (`RPC_SyncSetTID`,
   `RPC_SyncAddCbkToTid`) and the delivery of received packets with their reference
   counts.
3. `IpcQueue`: the linked list of `ipc_queues.c` as an implementation of a sequence.

## 6. Not modelled

Statistics, traces and dumps; the content of messages; header and data offsets of
buffers and linked buffers, which the AP's modules do not use; `fuse_log`, cameras,
3D, xscript and `fuse_ril` (data and register access); the character devices over
`fuse_rpc` (forwarding and ioctl decoding); XDR and everything under `src/common`
except `cp_crash.c`, that is nearly all of the repository's lines: the upstream
kernel, Android's patches and vendor drivers, third-party code that this project
takes as its environment. The reasons are in `PROJECT.json`, "components".
