----------------------------- MODULE IpcStartup -----------------------------
(***************************************************************************)
(* Bringing up fuse_ipc on the two CPUs: IPC_Initialise, IPC_Configured    *)
(* and the first test of IPC_ProcessEvents (ipc_sharedmemory.c), driven on *)
(* the AP by ipcs_module_init with its interrupt handler and work item     *)
(* (ipc_server.c, ipc_crashsupport.c).  The CP runs the same library; its  *)
(* own start-up code is not in the repository and is taken to call         *)
(* IPC_Initialise and then IPC_Configured.  The CP may crash at any time   *)
(* and then signals the crash to the AP.                                   *)
(*                                                                         *)
(* The boot loader is taken to hand over cleared shared memory.            *)
(***************************************************************************)
EXTENDS Naturals

CONSTANTS
  MaxPolls,     \* msleep(20) rounds ipcs_module_init waits for the CP: 100
  CpMayCrash    \* whether the CP can crash in this instance

ASSUME StartupAssumption == MaxPolls \in Nat \ {0} /\ CpMayCrash \in BOOLEAN

CPU == {"AP", "CP"}
Other(c) == IF c = "AP" THEN "CP" ELSE "AP"

VARIABLES
  Initialised,          \* SmControl->Initialised: "no", "init", "conf"
  basicDone,            \* the basic set-up of the shared memory was done
  fifosReset,           \* which CPUs have reset their FIFOs
  CrashCode, CrashDump, \* SmControl fields the crash report is left in
  pc,                   \* per CPU: next step of the start-up thread
  ConfiguredReported,   \* per CPU: the IPCInitialisedFunction was called
  irq,                  \* per CPU: interrupt raised by the other CPU
  ap_ipc_init_done, sEarlyCPInterrupt, ipc_state, polls,  \* ipc_server.c
  work, wpc,            \* intr_work queued; next step of its function
  crashCount,           \* crash reports seen by IpcCPCrashCheck (up to 2)
  dump                  \* the CP crash dump was scheduled, or the AP aborted

smVars == <<Initialised, basicDone, fifosReset, CrashCode, CrashDump>>
apVars == <<ap_ipc_init_done, sEarlyCPInterrupt, polls>>
vars == <<smVars, pc, ConfiguredReported, irq, apVars, ipc_state, work, wpc,
          crashCount, dump>>

Init ==
  /\ Initialised = [c \in CPU |-> "no"]
  /\ basicDone = FALSE
  /\ fifosReset = {}
  /\ CrashCode = "none"
  /\ CrashDump = FALSE
  /\ pc = [c \in CPU |-> "test"]
  /\ ConfiguredReported = [c \in CPU |-> FALSE]
  /\ irq = [c \in CPU |-> FALSE]
  /\ ap_ipc_init_done = FALSE
  /\ sEarlyCPInterrupt = FALSE
  /\ ipc_state = 0
  /\ polls = 0
  /\ work = FALSE
  /\ wpc = "idle"
  /\ crashCount = 0
  /\ dump = FALSE

\* Steps of a CP that has crashed.
Crashed == {"analysing", "crashed"}

Goto(c, step) == pc' = [pc EXCEPT ![c] = step]
-----------------------------------------------------------------------------
(* IPC_Initialise and IPC_Configured, on either CPU.                       *)

\* Clear the crash code, then look whether the other CPU was here first.
InitTest(c) ==
  /\ pc[c] = "test"
  /\ CrashCode' = "none"
  /\ Goto(c, IF Initialised[Other(c)] = "no" THEN "basic" ELSE "own")
  /\ UNCHANGED <<Initialised, basicDone, fifosReset, CrashDump,
                 ConfiguredReported, irq, apVars, ipc_state, work, wpc,
                 crashCount, dump>>

\* "Basic Sm Initialisation only done once": by both CPUs, with the same
\* values, if each finds the other's Initialised word still unset.
InitBasic(c) ==
  /\ pc[c] = "basic"
  /\ basicDone' = TRUE
  /\ Goto(c, "own")
  /\ UNCHANGED <<Initialised, fifosReset, CrashCode, CrashDump,
                 ConfiguredReported, irq, apVars, ipc_state, work, wpc,
                 crashCount, dump>>

\* Reset this CPU's buffer count and FIFOs, then say so.
InitOwn(c) ==
  /\ pc[c] = "own"
  /\ fifosReset' = fifosReset \cup {c}
  /\ Initialised' = [Initialised EXCEPT ![c] = "init"]
  /\ Goto(c, "endpoints")
  /\ UNCHANGED <<basicDone, CrashCode, CrashDump, ConfiguredReported, irq,
                 apVars, ipc_state, work, wpc, crashCount, dump>>

\* Seeded fault: ap_ipc_init_done is not set before IPC_Configured.
InitDoneUnsaid(c) ==
  /\ pc[c] = "endpoints"
  /\ Goto(c, "configure")
  /\ UNCHANGED <<smVars, ConfiguredReported, irq, apVars, ipc_state, work, wpc,
                 crashCount, dump>>

\* ipcs_ccb_init registers the endpoints; from here the AP's interrupt
\* handler queues work instead of noting an early interrupt.
InitDone(c) ==
  /\ pc[c] = "endpoints"
  /\ ap_ipc_init_done' = (ap_ipc_init_done \/ c = "AP")
  /\ Goto(c, "configure")
  /\ UNCHANGED <<smVars, ConfiguredReported, irq, sEarlyCPInterrupt, polls,
                 ipc_state, work, wpc, crashCount, dump>>

Configure(c) ==
  /\ pc[c] = "configure"
  /\ Initialised' = [Initialised EXCEPT ![c] = "conf"]
  /\ Goto(c, "configured")
  /\ UNCHANGED <<basicDone, fifosReset, CrashCode, CrashDump,
                 ConfiguredReported, irq, apVars, ipc_state, work, wpc,
                 crashCount, dump>>

\* ConfiguredReported and IPCInitialisedFunction (ipcs_ipc_initialised).
Report(c) ==
  /\ ConfiguredReported' = [ConfiguredReported EXCEPT ![c] = TRUE]
  /\ ipc_state' = IF c = "AP" THEN 1 ELSE ipc_state

\* Seeded faults: the other CPU is not interrupted; an initialised CPU is
\* taken for a configured one.
ConfigureTestSilent(c) ==
  /\ pc[c] = "configured"
  /\ IF Initialised[Other(c)] = "conf"
       THEN Report(c)
       ELSE UNCHANGED <<ConfiguredReported, ipc_state>>
  /\ Goto(c, IF c = "AP" THEN "early" ELSE "up")
  /\ UNCHANGED <<smVars, irq, apVars, work, wpc, crashCount, dump>>

ConfigureTestHasty(c) ==
  /\ pc[c] = "configured"
  /\ IF Initialised[Other(c)] # "no"
       THEN Report(c) /\ irq' = [irq EXCEPT ![Other(c)] = TRUE]
       ELSE UNCHANGED <<ConfiguredReported, ipc_state, irq>>
  /\ Goto(c, IF c = "AP" THEN "early" ELSE "up")
  /\ UNCHANGED <<smVars, apVars, work, wpc, crashCount, dump>>

\* The CPU that finds the other configured reports, and interrupts it.
ConfigureTest(c) ==
  /\ pc[c] = "configured"
  /\ IF Initialised[Other(c)] = "conf"
       THEN Report(c) /\ irq' = [irq EXCEPT ![Other(c)] = TRUE]
       ELSE UNCHANGED <<ConfiguredReported, ipc_state, irq>>
  /\ Goto(c, IF c = "AP" THEN "early" ELSE "up")
  /\ UNCHANGED <<smVars, apVars, work, wpc, crashCount, dump>>
-----------------------------------------------------------------------------
(* The rest of ipcs_module_init on the AP.                                 *)

\* An interrupt before ap_ipc_init_done was a crash: dump it.
CheckEarly ==
  /\ pc["AP"] = "early"
  /\ dump' = (dump \/ sEarlyCPInterrupt)
  /\ Goto("AP", "poll")
  /\ UNCHANGED <<smVars, ConfiguredReported, irq, apVars, ipc_state, work, wpc,
                 crashCount>>

\* while (!ipc_state) msleep(20), at most MaxPolls times.
Poll ==
  /\ pc["AP"] = "poll"
  /\ IF ipc_state = 1
       THEN Goto("AP", "up") /\ UNCHANGED polls
       ELSE /\ polls' = polls + 1
            /\ Goto("AP", IF polls + 1 > MaxPolls THEN "failed" ELSE "poll")
  /\ UNCHANGED <<smVars, ConfiguredReported, irq, ap_ipc_init_done,
                 sEarlyCPInterrupt, ipc_state, work, wpc, crashCount, dump>>
-----------------------------------------------------------------------------
(* Interrupts.                                                             *)

\* ipcs_interrupt.
ApInterrupt ==
  /\ irq["AP"]
  /\ irq' = [irq EXCEPT !["AP"] = FALSE]
  /\ IF ap_ipc_init_done
       THEN work' = TRUE /\ UNCHANGED sEarlyCPInterrupt
       ELSE sEarlyCPInterrupt' = TRUE /\ UNCHANGED work
  /\ UNCHANGED <<smVars, pc, ConfiguredReported, ap_ipc_init_done, polls,
                 ipc_state, wpc, crashCount, dump>>

\* The first test of IPC_ProcessEvents.
ProcessEvents(c) ==
  IF ~ConfiguredReported[c] /\ \A d \in CPU : Initialised[d] = "conf"
    THEN Report(c)
    ELSE UNCHANGED <<ConfiguredReported, ipc_state>>

\* Seeded fault: a report without a dump is counted as well.
WorkCrashCheckCountsAll ==
  /\ wpc = "idle"
  /\ work
  /\ work' = FALSE
  /\ wpc' = "events"
  /\ IF ConfiguredReported["AP"] /\ CrashCode # "none"
       THEN /\ crashCount' = IF crashCount < 2 THEN crashCount + 1 ELSE 2
            /\ dump' = (dump \/ (crashCount = 0 /\ CrashDump))
       ELSE UNCHANGED <<crashCount, dump>>
  /\ UNCHANGED <<smVars, pc, ConfiguredReported, irq, apVars, ipc_state>>

\* ipcs_intr_workqueue_process, first half: IpcCPCrashCheck, which answers
\* "no" before IPC is up and to every report after the first.
WorkCrashCheck ==
  /\ wpc = "idle"
  /\ work
  /\ work' = FALSE
  /\ wpc' = "events"
  /\ IF ConfiguredReported["AP"] /\ CrashCode # "none" /\ CrashDump
       THEN /\ crashCount' = IF crashCount < 2 THEN crashCount + 1 ELSE 2
            /\ dump' = (dump \/ crashCount = 0)
       ELSE UNCHANGED <<crashCount, dump>>
  /\ UNCHANGED <<smVars, pc, ConfiguredReported, irq, apVars, ipc_state>>

WorkEvents ==
  /\ wpc = "events"
  /\ wpc' = "idle"
  /\ ProcessEvents("AP")
  /\ UNCHANGED <<smVars, pc, irq, apVars, work, crashCount, dump>>

\* The CP's interrupt service, as the library needs it: the CP may ignore
\* an interrupt until its own initialisation is done.
CpInterrupt ==
  /\ irq["CP"]
  /\ pc["CP"] \notin Crashed
  /\ irq' = [irq EXCEPT !["CP"] = FALSE]
  /\ ProcessEvents("CP")
  /\ UNCHANGED <<smVars, pc, apVars, work, wpc, crashCount, dump>>

\* The CP crashes: it stops what it was doing and first says that it is
\* analysing the crash (IPCCP_SetCPCrashedStatus).
CpAnalyse ==
  /\ CpMayCrash
  /\ pc["CP"] \notin Crashed
  /\ CrashCode' = "analysing"
  /\ Goto("CP", "analysing")
  /\ irq' = [irq EXCEPT !["AP"] = TRUE]
  /\ UNCHANGED <<Initialised, basicDone, fifosReset, CrashDump,
                 ConfiguredReported, apVars, ipc_state, work, wpc,
                 crashCount, dump>>

\* Then it leaves the crash code and the place of the dump, and interrupts
\* the AP again (IPCCP_SignalCrashToAP).
CpCrash ==
  /\ pc["CP"] = "analysing"
  /\ CrashCode' = "crashed"
  /\ CrashDump' = TRUE
  /\ Goto("CP", "crashed")
  /\ irq' = [irq EXCEPT !["AP"] = TRUE]
  /\ UNCHANGED <<Initialised, basicDone, fifosReset, ConfiguredReported, apVars,
                 ipc_state, work, wpc, crashCount, dump>>
-----------------------------------------------------------------------------
Startup(c) == InitTest(c) \/ InitBasic(c) \/ InitOwn(c) \/ InitDone(c)
                \/ Configure(c) \/ ConfigureTest(c)

Next ==
  \/ \E c \in CPU : InitTest(c)
  \/ \E c \in CPU : InitBasic(c)
  \/ \E c \in CPU : InitOwn(c)
  \/ \E c \in CPU : InitDone(c)
  \/ \E c \in CPU : Configure(c)
  \/ \E c \in CPU : ConfigureTest(c)
  \/ CheckEarly
  \/ Poll
  \/ ApInterrupt
  \/ WorkCrashCheck
  \/ WorkEvents
  \/ CpInterrupt
  \/ CpAnalyse
  \/ CpCrash

SafeSpec == Init /\ [][Next]_vars

\* Start-up threads, interrupts and the work item run.  The CP need not
\* crash, but one that does gets its crash report out.
Fairness ==
  /\ \A c \in CPU : WF_vars(Startup(c))
  /\ WF_vars(CheckEarly \/ Poll)
  /\ WF_vars(ApInterrupt)
  /\ WF_vars(WorkCrashCheck \/ WorkEvents)
  /\ WF_vars(CpInterrupt)
  /\ WF_vars(CpCrash)

Spec == SafeSpec /\ Fairness
-----------------------------------------------------------------------------
(* Properties.                                                             *)

\* Types: ipcs_module_init gives up after MaxPolls + 1 rounds.
TypeOK ==
  /\ Initialised \in [CPU -> {"no", "init", "conf"}]
  /\ basicDone \in BOOLEAN
  /\ fifosReset \subseteq CPU
  /\ CrashCode \in {"none", "analysing", "crashed"} /\ CrashDump \in BOOLEAN
  /\ pc \in [CPU -> {"test", "basic", "own", "endpoints", "configure",
                     "configured", "early", "poll", "up", "failed"}
                      \cup Crashed]
  /\ ConfiguredReported \in [CPU -> BOOLEAN]
  /\ irq \in [CPU -> BOOLEAN]
  /\ ap_ipc_init_done \in BOOLEAN /\ sEarlyCPInterrupt \in BOOLEAN
  /\ ipc_state \in {0, 1}
  /\ polls \in 0..MaxPolls + 1
  /\ work \in BOOLEAN /\ wpc \in {"idle", "events"}
  /\ crashCount \in 0..2
  /\ dump \in BOOLEAN

\* A CPU that was told IPC is up, and may now allocate and send, finds the
\* basic set-up done, although each CPU may leave it to the other, and the
\* FIFOs of both CPUs reset; no step that would do either again is left.
UpMeansReady ==
  \A c \in CPU : ConfiguredReported[c] =>
    /\ basicDone /\ fifosReset = CPU
    /\ \A d \in CPU : pc[d] \notin {"test", "basic", "own", "endpoints", "configure"}

\* Whichever CPU is configured last, both are told: the interrupt that
\* carries the news is neither taken for a crash nor wasted on a CPU that
\* is not configured yet.
HandshakeCompletes ==
  <>((\A c \in CPU : ConfiguredReported[c]) \/ pc["CP"] \in Crashed)

\* An interrupt is only noted as early if the CP crashed.
EarlyMeansCrash == sEarlyCPInterrupt => pc["CP"] \in Crashed

\* A crash report whose interrupt finds IPC up on the AP is dumped, however
\* it is ordered with the interrupts before it.
CrashAfterUpIsDumped ==
  irq["AP"] /\ ConfiguredReported["AP"] /\ CrashCode = "crashed" ~> dump

\* "CP interrupt before IPC configured indicates early CP crash, so we'll do
\* crash dump as soon as IPC is set up" (ipc_server.c).
EarlyCrashIsDumped ==
  ~ConfiguredReported["AP"] /\ pc["CP"] = "crashed" ~> dump
=============================================================================
