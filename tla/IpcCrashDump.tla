---------------------------- MODULE IpcCrashDump ----------------------------
(***************************************************************************)
(* What the AP does, once IPC is up, with the interrupts of the CP: the    *)
(* handler with its wake lock and the work item (ipc_server.c), the test   *)
(* for a crashed CP and the dump (ipc_crashsupport.c), which asks the CP   *)
(* for its log packet by packet through SmControl->CrashCode, and the      *)
(* panic notifier that crashes the CP along with the AP (cp_crash.c).      *)
(*                                                                         *)
(* The dump runs on the shared kernel work queue ("worker") or inside the  *)
(* panic notifier ("panic"); a panic stops everything else on the AP.  The *)
(* two processors' loads and stores interleave, and a running AP stores    *)
(* IPC_AP_ASSERT to the same word whenever an assertion of fuse_rpc fails. *)
(* The CP's half of the log exchange is not in the repository: it is taken *)
(* to answer each IPC_AP_CLEAR_TO_SEND it sees with its next packet, late  *)
(* or never.                                                               *)
(***************************************************************************)
EXTENDS Naturals, Sequences

CONSTANTS
  Configs,        \* builds and log configurations
  Packets,        \* packets of the CP's log, before the empty one that ends it
  MaxRetries,     \* MAX_CP_DUMP_RETRIES: 5
  MaxAsserts      \* bound: assertions that fail on the running AP

ASSUME CrashDumpAssumption ==
  /\ Configs \subseteq [device : {"SDCARD", "BMTT", "MTD"}, panic : BOOLEAN,
                         dump : BOOLEAN]
  /\ Packets \in Nat /\ MaxRetries \in Nat /\ MaxAsserts \in Nat

VARIABLES
  config,               \* the build, and where the log configuration sends dumps
  CrashCode, CrashDump, \* the SmControl fields; CrashDump is set or null
  cp,                   \* next step of the CP
  buf,                  \* the log packet in the CP's assert buffer
  fifo,                 \* whether a message waits in the AP's FIFO
  irq, lock, queued,    \* interrupt raised, ipc_wake_lock held, work queued
  wpc, seen,            \* work item: next step, the crash code it loaded
  crashCount,           \* crash reports IpcCPCrashCheck has seen: none or some
  g_bCpCrashed,
  dumpQueued,           \* cp_crash_dump_wq queued
  ap,                   \* "up", in a "panic", or "dead"
  asserts,              \* assertions that have failed on the running AP
  ppc,                  \* next step of the panic notifier
  dpc,                  \* per context: next step of ProcessCPCrashedDump
  done,                 \* calls of ProcessCPCrashedDump: none or some
  retryCount, sdDumpFile,
  logged                \* what was written: packets of the CP, or 0 for what
                        \* was found at the address of a code

shared == <<CrashCode, CrashDump>>
cpVars == <<cp, buf, fifo>>
workVars == <<queued, wpc, seen, g_bCpCrashed, dumpQueued>>
panicVars == <<ap, ppc, asserts>>
dumpVars == <<dpc, done, retryCount, sdDumpFile, logged>>
vars == <<config, shared, cpVars, irq, lock, workVars, crashCount, panicVars,
          dumpVars>>

device == config.device          \* BCMLOG_GetCpCrashDumpDevice
PanicOnCpCrash == config.panic   \* CONFIG_BRCM_AP_PANIC_ON_CPCRASH
CpCrashDump == config.dump       \* CONFIG_BRCM_CP_CRASH_DUMP

Contexts == {"worker", "panic"}
End == Packets + 1   \* the packet of size 0

Init ==
  /\ config \in Configs
  /\ CrashCode = "none"
  /\ CrashDump = FALSE
  /\ cp = "up"
  /\ buf = 0
  /\ fifo = FALSE
  /\ irq = FALSE
  /\ lock = FALSE
  /\ queued = FALSE
  /\ wpc = "idle"
  /\ seen = "none"
  /\ crashCount = 0
  /\ g_bCpCrashed = FALSE
  /\ dumpQueued = FALSE
  /\ ap = "up"
  /\ ppc = "check"
  /\ asserts = 0
  /\ dpc = [x \in Contexts |-> "idle"]
  /\ done = 0
  /\ retryCount = 0
  /\ sdDumpFile = FALSE
  /\ logged = <<>>

\* abort and cp_abort end in a panic (abort by way of panic_on_oops, which
\* Android sets); the notifier runs where it is built in, and once.
Abort ==
  /\ ap' = IF ap = "up" /\ CpCrashDump THEN "panic" ELSE "dead"
  /\ UNCHANGED <<ppc, asserts>>
-----------------------------------------------------------------------------
(* The CP.                                                                 *)

\* IPC_SmFifoWrite into an empty FIFO interrupts.
CpSend ==
  /\ cp = "up"
  /\ fifo' = TRUE
  /\ irq' = (irq \/ ~fifo)
  /\ UNCHANGED <<config, shared, cp, buf, lock, workVars, crashCount, panicVars,
                 dumpVars>>

\* IPCCP_SetCPCrashedStatus(IPC_CP_ANALYSING_CRASH), up to the interrupt.
CpAnalyse ==
  /\ cp = "up"
  /\ CrashCode' = "analysing"
  /\ cp' = "raise analysing"
  /\ UNCHANGED <<config, CrashDump, buf, fifo, irq, lock, workVars, crashCount,
                 panicVars, dumpVars>>

\* IPCCP_SignalCrashToAP: the code, then the dump, then the interrupt.
CpSignalCode ==
  /\ cp \in {"up", "analysing"}
  /\ CrashCode' = "crashed"
  /\ cp' = "store dump"
  /\ UNCHANGED <<config, CrashDump, buf, fifo, irq, lock, workVars, crashCount,
                 panicVars, dumpVars>>

CpSignalDump ==
  /\ cp = "store dump"
  /\ CrashDump' = TRUE
  /\ cp' = "raise crashed"
  /\ UNCHANGED <<config, CrashCode, buf, fifo, irq, lock, workVars, crashCount,
                 panicVars, dumpVars>>

\* The RaiseInterrupt that ends either function.
CpRaise ==
  /\ cp \in {"raise analysing", "raise crashed"}
  /\ irq' = TRUE
  /\ cp' = IF cp = "raise crashed" THEN "dumping" ELSE "analysing"
  /\ UNCHANGED <<config, shared, buf, fifo, lock, workVars, crashCount,
                 panicVars, dumpVars>>

\* External: the CP fills its buffer and answers with the buffer's address.
CpAnswer ==
  /\ cp = "dumping"
  /\ CrashCode = "cts"
  /\ buf < End
  /\ buf' = buf + 1
  /\ CrashCode' = "packet"
  /\ UNCHANGED <<config, CrashDump, cp, fifo, irq, lock, workVars, crashCount,
                 panicVars, dumpVars>>
-----------------------------------------------------------------------------
(* ipcs_interrupt and ipcs_intr_workqueue_process.                         *)

\* Seeded fault: an interrupt is ignored while the work item runs.
InterruptBusy ==
  /\ ap = "up"
  /\ irq
  /\ irq' = FALSE
  /\ lock' = (lock \/ wpc = "idle")
  /\ queued' = (queued \/ wpc = "idle")
  /\ UNCHANGED <<config, shared, cpVars, wpc, seen, g_bCpCrashed, dumpQueued,
                 crashCount, panicVars, dumpVars>>

\* Hold the wake lock and queue the work item.
Interrupt ==
  /\ ap = "up"
  /\ irq
  /\ irq' = FALSE
  /\ lock' = TRUE
  /\ queued' = TRUE
  /\ UNCHANGED <<config, shared, cpVars, wpc, seen, g_bCpCrashed, dumpQueued,
                 crashCount, panicVars, dumpVars>>

\* IpcCPCrashCheck loads the code, then the dump.
WorkLoad ==
  /\ ap = "up"
  /\ wpc = "idle"
  /\ queued
  /\ queued' = FALSE
  /\ seen' = CrashCode
  /\ wpc' = "check"
  /\ UNCHANGED <<config, shared, cpVars, irq, lock, crashCount, g_bCpCrashed,
                 dumpQueued, panicVars, dumpVars>>

\* A code between IPC_CP_NOT_CRASHED and IPC_CP_MAX_CRASH_CODE with a dump is
\* a report; a buffer's address is above them, IPC_AP_CLEAR_TO_SEND is not.
Reported(code) == code \notin {"none", "packet"} /\ CrashDump
CountReport(code) ==
  crashCount' = IF Reported(code) THEN 1 ELSE crashCount
IsCrash(code) == Reported(code) /\ crashCount = 0

\* Seeded fault: the first report is taken for a repeated one.
WorkCheckNever ==
  /\ ap = "up"
  /\ wpc = "check"
  /\ CountReport(seen)
  /\ seen' = "none"
  /\ wpc' = "events"
  /\ UNCHANGED <<config, shared, cpVars, irq, lock, queued, g_bCpCrashed,
                 dumpQueued, panicVars, dumpVars>>

\* The first report kills the AP if the dump goes to flash, else it starts
\* the dump, and the work item then ends with the wake lock held.
WorkCheck ==
  /\ ap = "up"
  /\ wpc = "check"
  /\ CountReport(seen)
  /\ seen' = "none"
  /\ IF IsCrash(seen)
       THEN IF device = "MTD"
              THEN Abort /\ UNCHANGED <<wpc, dumpQueued>>
              ELSE /\ dumpQueued' = TRUE
                   /\ wpc' = "events locked"
                   /\ UNCHANGED panicVars
       ELSE wpc' = "events" /\ UNCHANGED <<dumpQueued, panicVars>>
  /\ UNCHANGED <<config, shared, cpVars, irq, lock, queued, g_bCpCrashed,
                 dumpVars>>

\* IPC_ProcessEvents: no message is taken once a crash code is set, even
\* while the CP is still analysing.  No IPCCPCrashed function is registered.
WorkEvents ==
  /\ ap = "up"
  /\ wpc \in {"events", "events locked"}
  /\ LET crash == g_bCpCrashed \/ CrashCode # "none" IN
       /\ g_bCpCrashed' = (crash /\ CrashCode \notin {"none", "analysing"})
       /\ fifo' = (fifo /\ crash)
  /\ wpc' = IF wpc = "events" THEN "unlock" ELSE "idle"
  /\ UNCHANGED <<config, shared, cp, buf, irq, lock, queued, seen, dumpQueued,
                 crashCount, panicVars, dumpVars>>

\* Seeded fault: the wake lock is kept.
WorkUnlockNot ==
  /\ ap = "up"
  /\ wpc = "unlock"
  /\ wpc' = "idle"
  /\ UNCHANGED <<config, shared, cpVars, irq, lock, queued, seen, g_bCpCrashed,
                 dumpQueued, crashCount, panicVars, dumpVars>>

WorkUnlock ==
  /\ ap = "up"
  /\ wpc = "unlock"
  /\ lock' = FALSE
  /\ wpc' = "idle"
  /\ UNCHANGED <<config, shared, cpVars, irq, queued, seen, g_bCpCrashed,
                 dumpQueued, crashCount, panicVars, dumpVars>>
-----------------------------------------------------------------------------
(* The AP: CAPI2_Assert, and do_cp_crash, called when it panics.           *)

\* An assertion of fuse_rpc fails (a request timed out, was refused, a pool
\* could not be created): the CP is told to crash, the AP goes on.
ApAssert ==
  /\ ap = "up"
  /\ asserts < MaxAsserts
  /\ asserts' = asserts + 1
  /\ CrashCode' = "assert"
  /\ UNCHANGED <<config, CrashDump, cpVars, irq, lock, workVars, crashCount, ap,
                 ppc, dumpVars>>

\* External: the AP panics for a reason of its own.
ApPanic ==
  /\ ap = "up"
  /\ Abort
  /\ UNCHANGED <<config, shared, cpVars, irq, lock, workVars, crashCount,
                 dumpVars>>

PanicCheck ==
  /\ ap = "panic"
  /\ ppc = "check"
  /\ CountReport(CrashCode)
  /\ ppc' = IF IsCrash(CrashCode) THEN "dump" ELSE "assert"
  /\ UNCHANGED <<config, shared, cpVars, irq, lock, workVars, ap, asserts,
                 dumpVars>>

\* IPCCP_SetCPCrashedStatus(IPC_AP_ASSERT): makes the CP crash as well.
PanicAssert ==
  /\ ap = "panic"
  /\ ppc = "assert"
  /\ CrashCode' = "assert"
  /\ ppc' = "dump"
  /\ UNCHANGED <<config, CrashDump, cpVars, irq, lock, workVars, crashCount, ap,
                 asserts, dumpVars>>

PanicDump ==
  /\ ap = "panic"
  /\ ppc = "dump"
  /\ ppc' = "dumping"
  /\ dpc' = [dpc EXCEPT !["panic"] = "enter"]
  /\ UNCHANGED <<config, shared, cpVars, irq, lock, workVars, crashCount, ap,
                 asserts, done, retryCount, sdDumpFile, logged>>
-----------------------------------------------------------------------------
(* ProcessCPCrashedDump and DUMP_CP_assert_log in context x.               *)

At(x, step) == dpc[x] = step /\ ap = IF x = "worker" THEN "up" ELSE "panic"
Goto(x, step) == dpc' = [dpc EXCEPT ![x] = step]

\* The function returns; in the notifier that lets the panic end.
Return(x) ==
  /\ Goto(x, "idle")
  /\ ap' = IF x = "panic" THEN "dead" ELSE ap
  /\ UNCHANGED <<ppc, asserts>>

DumpStart ==
  /\ At("worker", "idle")
  /\ dumpQueued
  /\ dumpQueued' = FALSE
  /\ Goto("worker", "enter")
  /\ UNCHANGED <<config, shared, cpVars, irq, lock, queued, wpc, seen,
                 g_bCpCrashed, crashCount, panicVars, done, retryCount,
                 sdDumpFile, logged>>

\* Seeded fault: the calls are not counted.
DumpEnterAgain(x) ==
  /\ At(x, "enter")
  /\ Goto(x, "spin")
  /\ UNCHANGED <<config, shared, cpVars, irq, lock, workVars, crashCount,
                 panicVars, done, retryCount, sdDumpFile, logged>>

\* Only the first call does anything.
DumpEnter(x) ==
  /\ At(x, "enter")
  /\ done' = 1
  /\ IF done = 0 THEN Goto(x, "spin") /\ UNCHANGED panicVars ELSE Return(x)
  /\ UNCHANGED <<config, shared, cpVars, irq, lock, workVars, crashCount,
                 retryCount, sdDumpFile, logged>>

\* Seeded fault: the dump is not waited for.
DumpSpinNot(x) ==
  /\ At(x, "spin")
  /\ Goto(x, "summary")
  /\ UNCHANGED <<config, shared, cpVars, irq, lock, workVars, crashCount,
                 panicVars, done, retryCount, sdDumpFile, logged>>

\* The busy wait for the dump, where it is compiled in.
DumpSpin(x) ==
  /\ At(x, "spin")
  /\ PanicOnCpCrash \/ CpCrashDump => CrashDump
  /\ Goto(x, "summary")
  /\ UNCHANGED <<config, shared, cpVars, irq, lock, workVars, crashCount,
                 panicVars, done, retryCount, sdDumpFile, logged>>

\* The summary goes to the console, unless it cannot be mapped.
DumpSummary(x) ==
  /\ At(x, "summary")
  /\ \/ Goto(x, "cleanup")
     \/ ~PanicOnCpCrash /\ Goto(x, "open")
  /\ UNCHANGED <<config, shared, cpVars, irq, lock, workVars, crashCount,
                 panicVars, done, retryCount, sdDumpFile, logged>>

\* The output file for the log; filp_open may fail.
DumpOpen(x) ==
  /\ At(x, "open")
  /\ sdDumpFile' \in IF device = "SDCARD" THEN BOOLEAN ELSE {FALSE}
  /\ retryCount' = 0
  /\ Goto(x, "cts")
  /\ UNCHANGED <<config, shared, cpVars, irq, lock, workVars, crashCount,
                 panicVars, done, logged>>

DumpClearToSend(x) ==
  /\ At(x, "cts")
  /\ CrashCode' = "cts"
  /\ Goto(x, "wait")
  /\ UNCHANGED <<config, CrashDump, cpVars, irq, lock, workVars, crashCount,
                 panicVars, done, retryCount, sdDumpFile, logged>>

\* Seeded fault: the retries are not counted.
DumpTestForever(x) ==
  /\ At(x, "wait")
  /\ Goto(x, IF CrashCode = "cts" THEN "cts" ELSE "read")
  /\ UNCHANGED <<config, shared, cpVars, irq, lock, workVars, crashCount,
                 panicVars, done, retryCount, sdDumpFile, logged>>

\* Until the CP answers or 20 seconds have passed; then the code is loaded
\* again ("check for time out").
DumpTest(x) ==
  /\ At(x, "wait")
  /\ IF CrashCode # "cts"
       THEN Goto(x, "read") /\ retryCount' = 0
       ELSE IF retryCount < MaxRetries
              THEN Goto(x, "cts") /\ retryCount' = retryCount + 1
              ELSE Goto(x, "ram") /\ UNCHANGED retryCount
  /\ UNCHANGED <<config, shared, cpVars, irq, lock, workVars, crashCount,
                 panicVars, done, sdDumpFile, logged>>

\* BCMLOG_HandleCpCrashDumpData writes to the device that is configured.
Writable ==
  \/ device = "SDCARD" /\ sdDumpFile
  \/ device = "BMTT"
  \/ device = "MTD" /\ CpCrashDump

\* What is mapped as the CP's buffer: CrashCode is loaded once more.
Mapped == IF CrashCode = "packet" THEN buf ELSE 0

\* Seeded fault: the next packet is not asked for.
DumpReadNoClear(x) ==
  /\ At(x, "read")
  /\ Goto(x, IF Mapped < End THEN "wait" ELSE "ram")
  /\ logged' = IF Writable /\ Mapped < End THEN Append(logged, Mapped) ELSE logged
  /\ UNCHANGED <<config, shared, cpVars, irq, lock, workVars, crashCount,
                 panicVars, done, retryCount, sdDumpFile>>

\* A packet that cannot be mapped, or has an improper size, ends the log, as
\* the empty one does.
DumpRead(x) ==
  /\ At(x, "read")
  /\ \/ Goto(x, "ram") /\ UNCHANGED logged
     \/ /\ Mapped < End
        /\ Goto(x, "cts")
        /\ logged' = IF Writable THEN Append(logged, Mapped) ELSE logged
  /\ UNCHANGED <<config, shared, cpVars, irq, lock, workVars, crashCount,
                 panicVars, done, retryCount, sdDumpFile>>

\* DUMP_CPMemoryByList, whose blocks are data only, and the end of
\* DUMP_CP_assert_log, which brings the AP down unless the dump went to flash.
DumpRam(x) ==
  /\ At(x, "ram")
  /\ sdDumpFile' = FALSE
  /\ IF device = "MTD"
       THEN Goto(x, "cleanup") /\ UNCHANGED panicVars
       ELSE Abort /\ UNCHANGED dpc
  /\ UNCHANGED <<config, shared, cpVars, irq, lock, workVars, crashCount, done,
                 retryCount, logged>>

\* Seeded fault: the AP is left running.
DumpCleanupQuiet(x) ==
  /\ At(x, "cleanup")
  /\ lock' = FALSE
  /\ Return(x)
  /\ UNCHANGED <<config, shared, cpVars, irq, workVars, crashCount, done,
                 retryCount, sdDumpFile, logged>>

\* The wake lock is given up, and a build that asks for it panics.
DumpCleanup(x) ==
  /\ At(x, "cleanup")
  /\ lock' = FALSE
  /\ IF PanicOnCpCrash THEN Abort /\ UNCHANGED dpc ELSE Return(x)
  /\ UNCHANGED <<config, shared, cpVars, irq, workVars, crashCount, done,
                 retryCount, sdDumpFile, logged>>

Dump(x) ==
  \/ DumpEnter(x) \/ DumpSpin(x) \/ DumpSummary(x) \/ DumpOpen(x)
  \/ DumpClearToSend(x) \/ DumpTest(x) \/ DumpRead(x)
  \/ DumpRam(x) \/ DumpCleanup(x)
-----------------------------------------------------------------------------
CP == CpAnalyse \/ CpSignalCode \/ CpSignalDump \/ CpRaise
Work == WorkLoad \/ WorkCheck \/ WorkEvents \/ WorkUnlock
Panic == PanicCheck \/ PanicAssert \/ PanicDump

Next ==
  \/ CpSend
  \/ CP
  \/ CpAnswer
  \/ Interrupt
  \/ Work
  \/ ApAssert
  \/ ApPanic
  \/ Panic
  \/ DumpStart
  \/ \E x \in Contexts : Dump(x)

SafeSpec == Init /\ [][Next]_vars

\* The AP takes interrupts and runs its work queues and the notifier.  Nothing
\* obliges the CP: it may die at any step of its signal, or never begin one.
Fairness ==
  /\ WF_vars(Interrupt)
  /\ WF_vars(Work)
  /\ WF_vars(DumpStart \/ Dump("worker"))
  /\ WF_vars(Panic \/ Dump("panic"))

Spec == SafeSpec /\ Fairness
-----------------------------------------------------------------------------
(* Properties.                                                             *)

Steps == {"idle", "enter", "spin", "summary", "open", "cts", "wait",
          "read", "ram", "cleanup"}

FlagType ==
  /\ CrashDump \in BOOLEAN /\ fifo \in BOOLEAN /\ irq \in BOOLEAN
  /\ lock \in BOOLEAN /\ queued \in BOOLEAN /\ g_bCpCrashed \in BOOLEAN
  /\ dumpQueued \in BOOLEAN /\ sdDumpFile \in BOOLEAN
StepType ==
  /\ cp \in {"up", "raise analysing", "analysing", "store dump",
             "raise crashed", "dumping"}
  /\ wpc \in {"idle", "check", "events", "events locked", "unlock"}
  /\ ap \in {"up", "panic", "dead"}
  /\ ppc \in {"check", "assert", "dump", "dumping"}
  /\ dpc \in [Contexts -> Steps]
CodeType ==
  /\ config \in Configs
  /\ CrashCode \in {"none", "analysing", "crashed", "assert", "cts", "packet"}
  /\ seen \in {"none", "analysing", "crashed", "assert", "cts", "packet"}
CountType ==
  /\ buf \in 0..End
  /\ crashCount \in 0..1
  /\ done \in 0..1
  /\ retryCount \in 0..MaxRetries
  /\ asserts \in 0..MaxAsserts
LogType == logged \in Seq(0..Packets)

\* Types: retryCount stays within its limit, and the packet that ends the
\* CP's log is not written.
TypeOK == FlagType /\ StepType /\ CodeType /\ CountType /\ LogType

\* CrashCode carries crash codes, the AP's request and the CP's answer.  What
\* the notifier's dump maps as the CP's buffer is an answer, never a code: the
\* CP publishes the dump after the code, and the AP asks only when it has seen
\* the dump.  The worker's can be one code: that of an assertion which fails
\* on the AP while the request is open.
AnswerOrAssert ==
  \A x \in Contexts :
    At(x, "read") => CrashCode = "packet" \/ (x = "worker" /\ CrashCode = "assert")

\* Whatever is late or repeated, and whatever else is written in between, no
\* packet of the CP is logged twice or out of order.
LogInOrder ==
  \A i, j \in DOMAIN logged :
    i < j /\ logged[j] # 0 => logged[i] < logged[j]

\* A panic in the middle of the worker's dump does not start a second dump
\* over the same request word (the counter done).
OneDump ==
  ~ \A x \in Contexts : dpc[x] \notin {"idle", "enter"}

\* The wake lock, taken by the handler and given up by two other functions,
\* is not left behind: while the AP is up and holds it, work or a dump is due.
LockHasOwner ==
  ap = "up" /\ lock =>
    \/ queued \/ wpc # "idle"
    \/ dumpQueued \/ dpc["worker"] # "idle"

\* Every crash the CP signals is answered: the AP goes through the dump, or it
\* panics.  A CP that stops answering does not hold it up, nor do assertions
\* that fail on the AP meanwhile, if they come to an end.
CrashIsHandled ==
  cp = "dumping" ~> (ap # "up" \/ (done > 0 /\ dpc["worker"] = "idle"))

\* The promise of CONFIG_BRCM_AP_PANIC_ON_CPCRASH, "AP will panic when CP has
\* crashed", whichever device is configured and whether or not the summary can
\* be mapped.
CrashKillsAp == PanicOnCpCrash /\ cp = "dumping" ~> ap = "dead"

\* A panic comes to its end, whether or not the CP answers for its log, with
\* one exception: a CP that never publishes its dump, dead or deaf to the AP's
\* assertion, leaves the notifier in its busy wait for ever.
PanicEnds ==
  ap = "panic" ~> (ap = "dead" \/ [](dpc["panic"] = "spin" /\ ~CrashDump))

\* A message is taken out of the FIFO unless the CP crashes or the AP panics.
MessageIsTaken == fifo ~> (~fifo \/ CrashCode # "none" \/ ap # "up")
=============================================================================
