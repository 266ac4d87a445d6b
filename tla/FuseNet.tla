------------------------------ MODULE FuseNet ------------------------------
(***************************************************************************)
(* Sending packets to the network: the network devices of fuse_net         *)
(* (bcm_fuse_net.c) over the packet interface of fuse_rpc (rpc_ipc.c) and  *)
(* the buffer pool of that interface (IpcBufferPool).  One pool serves all *)
(* devices; its flow-control callback stops and wakes their queues.  A     *)
(* packet's buffer goes to the CP, which frees it, and back to the pool.   *)
(*                                                                         *)
(* There is one processor and a transmission runs in the network's soft    *)
(* interrupt: at most one is under way ("tx").  Freed buffers are returned *)
(* by the IPC work item ("work").  Of the kernel it is taken that it calls *)
(* ndo_start_xmit only for a device that is up, and whose queue runs, that *)
(* it waits for a transmission to end before it calls ndo_stop, and that   *)
(* it calls ndo_open and ndo_stop one at a time (RTNL).                    *)
(***************************************************************************)
EXTENDS Naturals

CONSTANTS
  MAX_PDP_CNTXS,      \* BCM_NET_MAX_PDP_CNTXS: 10
  MAX_DUN_PDP_CNTXS,  \* BCM_NET_MAX_DUN_PDP_CNTXS: 7
  NoDevice,
  MaxBuffers, FlowStartLimit, FlowStopLimit   \* of the packet pool

\* rmnet0, rmnet1, ..., each with its own entry of g_net_dev_tbl.
Devices == 0..MAX_PDP_CNTXS-1

INVALID_PDP_CNTX == 255
PdpIds == 0..INVALID_PDP_CNTX   \* a UInt8
MAX_RIL_PDP_CNTXS == MAX_PDP_CNTXS - MAX_DUN_PDP_CNTXS
RMNET_TO_CID(d) ==
  IF d < MAX_RIL_PDP_CNTXS THEN d + MAX_DUN_PDP_CNTXS + 1
                           ELSE d - MAX_RIL_PDP_CNTXS + 1

ASSUME IdAssumption ==
  /\ MAX_PDP_CNTXS \in 1..INVALID_PDP_CNTX-1
  /\ MAX_DUN_PDP_CNTXS \in 0..MAX_PDP_CNTXS-1

ASSUME NetAssumption ==
  /\ NoDevice \notin Devices
  /\ MaxBuffers \in Nat /\ FlowStartLimit \in Nat /\ FlowStopLimit \in Nat
  /\ FlowStopLimit < FlowStartLimit /\ FlowStartLimit <= MaxBuffers

VARIABLES
  \* of the pool, see IpcBufferPool
  FreeBuffers, FlowControlState, FlowControlCallPending, EmptyEvent, told, out,
  pc, said, next, count,
  net,        \* each device's state in the kernel
  entry_stat, pdp_context_id, \* its entry of g_net_dev_tbl
  queue,      \* its transmit queue
  txdev,      \* the device of the transmission under way
  cp,         \* what the CP has reported: "up", "analysing", "crashed"
  CrashCode,  \* the word both processors store crash codes to
  crashed,    \* g_bCpCrashed
  seen,       \* the work item has met a crash code
  atCp, freed, lost, \* buffers sent to the CP, freed by it, not sent
  early,      \* devices opened in flow stop, until the next callback
  hasty       \* some device was ever opened in flow stop

poolVars == <<FreeBuffers, FlowControlState, FlowControlCallPending, EmptyEvent,
              told, out, pc, said, next, count>>
table == <<entry_stat, pdp_context_id>>
devVars == <<net, table, queue>>
cpVars == <<cp, CrashCode, crashed, seen>>
bufVars == <<cpVars, atCp, freed, lost>>
vars == <<poolVars, devVars, txdev, bufVars, early, hasty>>

Pool == INSTANCE IpcBufferPool WITH
  Allocators <- {}, Waiters <- {"tx"}, Timed <- {}, Returners <- {"work"},
  HasCallback <- TRUE

Init ==
  /\ Pool!Init
  /\ net = [d \in Devices |-> "down"]
  /\ entry_stat = [d \in Devices |-> "EFree"]
  /\ pdp_context_id = [d \in Devices |-> MAX_PDP_CNTXS]
  /\ queue = [d \in Devices |-> "stopped"]
  /\ txdev = NoDevice
  /\ cp = "up" /\ CrashCode = "none" /\ crashed = FALSE /\ seen = FALSE
  /\ atCp = 0 /\ freed = 0 /\ lost = 0
  /\ early = {} /\ hasty = FALSE
-----------------------------------------------------------------------------
(* bcm_fuse_net_open and bcm_fuse_net_stop.                                *)

Rtnl == \A d \in Devices : net[d] \in {"down", "up"}

\* Seeded fault: the id that attach set is kept.
FindEntryKeepsId(d) ==
  /\ net[d] = "down" /\ Rtnl
  /\ entry_stat[d] = "EFree"
  /\ entry_stat' = [entry_stat EXCEPT ![d] = "EInUse"]
  /\ net' = [net EXCEPT ![d] = "opening"]
  /\ UNCHANGED <<poolVars, pdp_context_id, queue, txdev, bufVars, early, hasty>>

\* bcm_fuse_net_find_entry finds the device's entry free; it gets its id.
FindEntry(d) ==
  /\ net[d] = "down" /\ Rtnl
  /\ entry_stat[d] = "EFree"
  /\ entry_stat' = [entry_stat EXCEPT ![d] = "EInUse"]
  /\ pdp_context_id' = [pdp_context_id EXCEPT ![d] = RMNET_TO_CID(d)]
  /\ net' = [net EXCEPT ![d] = "opening"]
  /\ UNCHANGED <<poolVars, queue, txdev, bufVars, early, hasty>>

\* It does not: -EISCONN, and the device stays down.
OpenRefused(d) ==
  /\ net[d] = "down" /\ Rtnl
  /\ entry_stat[d] = "EInUse"
  /\ UNCHANGED vars

\* netif_start_queue, whatever the flow-control state is.
StartQueue(d) ==
  /\ net[d] = "opening"
  /\ queue' = [queue EXCEPT ![d] = "running"]
  /\ net' = [net EXCEPT ![d] = "up"]
  /\ early' = IF told = "STOP" THEN early \cup {d} ELSE early
  /\ hasty' = (hasty \/ told = "STOP")
  /\ UNCHANGED <<poolVars, table, txdev, bufVars>>

\* External: the kernel takes the device out of service, then calls ndo_stop.
Deactivate(d) ==
  /\ net[d] = "up" /\ Rtnl
  /\ txdev # d
  /\ net' = [net EXCEPT ![d] = "closing"]
  /\ UNCHANGED <<poolVars, table, queue, txdev, bufVars, early, hasty>>

FirstWithId(e, id) ==
  /\ pdp_context_id[e] = id
  /\ \A f \in Devices : f < e => pdp_context_id[f] # id

\* bcm_fuse_net_free_entry looks for the id of the device's entry, and frees
\* the first entry that has it, be it another one.
FreeEntry(d) ==
  /\ net[d] = "closing"
  /\ IF pdp_context_id[d] = INVALID_PDP_CNTX
       THEN UNCHANGED table
       ELSE \E e \in Devices :
              /\ FirstWithId(e, pdp_context_id[d])
              /\ entry_stat' = [entry_stat EXCEPT ![e] = "EFree"]
              /\ pdp_context_id' = [pdp_context_id EXCEPT ![e] = INVALID_PDP_CNTX]
  /\ net' = [net EXCEPT ![d] = "closed"]
  /\ early' = early \ {d}
  /\ UNCHANGED <<poolVars, queue, txdev, bufVars, hasty>>

StopQueue(d) ==
  /\ net[d] = "closed"
  /\ queue' = [queue EXCEPT ![d] = "stopped"]
  /\ net' = [net EXCEPT ![d] = "down"]
  /\ UNCHANGED <<poolVars, table, txdev, bufVars, early, hasty>>
-----------------------------------------------------------------------------
(* The pool's callback: RPC_FlowCntrl and bcm_fuse_net_fc_cb.              *)

InUse == {d \in Devices : entry_stat[d] = "EInUse"}

\* Seeded fault: a stop is ignored.
FlowControlDeaf(event) ==
  /\ queue' = [d \in Devices |->
                 IF d \in InUse /\ event = "START" THEN "running" ELSE queue[d]]
  /\ early' = early \ InUse

FlowControl(event) ==
  /\ queue' = [d \in Devices |->
                 IF d \notin InUse THEN queue[d]
                 ELSE IF event = "START" THEN "running" ELSE "stopped"]
  /\ early' = early \ InUse

\* The callback runs in the pool's critical region.
Report(t) ==
  /\ Pool!ReportCall(t)
  /\ FlowControl(said[t])
  /\ UNCHANGED <<net, table, txdev, bufVars, hasty>>

\* What a thread does inside the pool besides.
InPool(t) ==
  /\ \/ Pool!ReportCheck(t)
     \/ Pool!WaitClear(t) \/ Pool!WaitSecond(t) \/ Pool!WaitOk(t)
     \/ pc[t] = "first" /\ Pool!WaitFirst(t)
     \/ Pool!LastDitchState(t) \/ Pool!LastDitch(t) \/ Pool!ReturnEvent(t)
  /\ UNCHANGED <<devVars, txdev, bufVars, early, hasty>>
-----------------------------------------------------------------------------
(* bcm_fuse_net_tx, and the way of its buffer.                             *)

\* Up to RPC_PACKET_AllocateBuffer, which waits for ever.
Tx(d) ==
  /\ net[d] = "up"
  /\ queue[d] = "running"
  /\ txdev = NoDevice
  /\ txdev' = d
  /\ pc["tx"] = "idle" /\ Pool!WaitFirst("tx")
  /\ UNCHANGED <<devVars, bufVars, early, hasty>>

\* Seeded fault: a buffer is not sent when the queue was stopped meanwhile.
SendDataIfRunning ==
  /\ Pool!Got("tx")
  /\ txdev' = NoDevice
  /\ IF crashed \/ queue[txdev] = "stopped"
       THEN lost' = lost + 1 /\ UNCHANGED atCp
       ELSE atCp' = atCp + 1 /\ UNCHANGED lost
  /\ UNCHANGED <<devVars, cpVars, freed, early, hasty>>

\* RPC_PACKET_SendData.  IPC_SmSendBuffer drops the buffer when the CP is
\* taken to have crashed, and nobody is told.
SendData ==
  /\ Pool!Got("tx")
  /\ txdev' = NoDevice
  /\ IF crashed THEN lost' = lost + 1 /\ UNCHANGED atCp
                ELSE atCp' = atCp + 1 /\ UNCHANGED lost
  /\ UNCHANGED <<devVars, cpVars, freed, early, hasty>>

\* External: the CP frees a buffer it has received.
CpFree ==
  /\ cp = "up"
  /\ atCp > 0
  /\ atCp' = atCp - 1
  /\ freed' = freed + 1
  /\ UNCHANGED <<poolVars, devVars, txdev, cpVars, lost, early, hasty>>

\* Seeded fault: few freed buffers are left where they are.
ReturnInBulk ==
  /\ ~seen
  /\ freed > FlowStartLimit
  /\ freed' = freed - 1
  /\ Pool!ReturnToPool("work")
  /\ UNCHANGED <<devVars, txdev, cpVars, atCp, lost, early, hasty>>

\* The work item finds it in the FIFO of free buffers, which it does not look
\* into any more once it has met a crash code.
Return ==
  /\ ~seen
  /\ freed > 0
  /\ freed' = freed - 1
  /\ Pool!ReturnToPool("work")
  /\ UNCHANGED <<devVars, txdev, cpVars, atCp, lost, early, hasty>>

\* IPCCP_SetCPCrashedStatus, then IPCCP_SignalCrashToAP, of a crashing CP.
CpReport ==
  /\ \/ cp = "up" /\ cp' = "analysing"
     \/ cp = "analysing" /\ cp' = "crashed"
  /\ CrashCode' = cp'
  /\ UNCHANGED <<poolVars, devVars, txdev, crashed, seen, atCp, freed, lost, early, hasty>>

\* CAPI2_Assert: an assertion of fuse_rpc fails on the AP, which goes on.
ApAssert ==
  /\ CrashCode' = "assert"
  /\ UNCHANGED <<poolVars, devVars, txdev, cp, crashed, seen, atCp, freed, lost, early, hasty>>

\* Seeded fault: the pool gets back what the CP had, past its flow control.
MeetReportReclaims ==
  /\ pc["work"] = "idle"
  /\ ~crashed /\ CrashCode # "none"
  /\ crashed' = TRUE /\ seen' = TRUE
  /\ FreeBuffers' = FreeBuffers + atCp /\ out' = out - atCp /\ atCp' = 0
  /\ UNCHANGED <<FlowControlState, FlowControlCallPending, EmptyEvent, told, pc, said, next,
                 count, devVars, txdev, cp, CrashCode, freed, lost, early, hasty>>

\* IPC_ProcessEvents meets a crash code, whoever stored it: "set the crash status" ...
MeetReport ==
  /\ pc["work"] = "idle"
  /\ ~crashed /\ CrashCode # "none"
  /\ crashed' = TRUE /\ seen' = TRUE
  /\ UNCHANGED <<poolVars, devVars, txdev, cp, CrashCode, atCp, freed, lost, early, hasty>>

\* ... and takes it back while the code says that the CP is still analysing.
TakeBack ==
  /\ crashed /\ CrashCode = "analysing"
  /\ crashed' = FALSE
  /\ UNCHANGED <<poolVars, devVars, txdev, cp, CrashCode, seen, atCp, freed, lost, early, hasty>>
-----------------------------------------------------------------------------
Next ==
  \/ \E d \in Devices : FindEntry(d) \/ OpenRefused(d) \/ StartQueue(d)
  \/ \E d \in Devices : Deactivate(d) \/ FreeEntry(d) \/ StopQueue(d)
  \/ \E d \in Devices : Tx(d)
  \/ SendData \/ CpFree \/ Return
  \/ CpReport \/ ApAssert \/ MeetReport \/ TakeBack
  \/ \E t \in {"tx", "work"} : Report(t) \/ InPool(t)

SafeSpec == Init /\ [][Next]_vars

\* Threads that can run do; a CP that lives frees what it has received.
\* Nobody is obliged to open a device, to close it or to send.
Fairness ==
  /\ WF_vars(Report("tx") \/ InPool("tx") \/ SendData)
  /\ WF_vars(Report("work") \/ InPool("work"))
  /\ WF_vars(Return) /\ WF_vars(CpFree)

Spec == SafeSpec /\ Fairness
-----------------------------------------------------------------------------
(* Properties.                                                             *)

TypeOK ==
  /\ Pool!TypeOK
  /\ net \in [Devices -> {"down", "opening", "up", "closing", "closed"}]
  /\ entry_stat \in [Devices -> {"EFree", "EInUse"}]
  /\ pdp_context_id \in [Devices -> PdpIds]
  /\ queue \in [Devices -> {"running", "stopped"}]
  /\ txdev \in Devices \cup {NoDevice}
  /\ cp \in {"up", "analysing", "crashed"}
  /\ CrashCode \in {"none", "analysing", "crashed", "assert"}
  /\ crashed \in BOOLEAN /\ seen \in BOOLEAN
  /\ atCp \in Nat /\ freed \in Nat /\ lost \in Nat
  /\ early \subseteq Devices /\ hasty \in BOOLEAN

\* ndo_stop frees an entry by its id, and attach has given every entry the id
\* of the last RIL device, rmnet2.  All the same no device in service loses its
\* entry, which flow control needs, and only rmnet2 can be closed and leave
\* its own entry in use (it is then refused when it is opened again).
EntryFollowsDevice ==
  \A d \in Devices :
    IF net[d] \in {"opening", "up", "closing"}
      THEN entry_stat[d] = "EInUse"
      ELSE entry_stat[d] = "EInUse" => RMNET_TO_CID(d) = MAX_PDP_CNTXS

\* The devices use the pool as it is meant to be used, fairness included:
\* what IpcBufferPool shows of a pool holds of theirs.
ImplementsPool == Pool!Spec

\* The queue of a device that is up runs exactly when the pool last reported
\* flow start, unless the device was opened in flow stop and there was no
\* report since; a device that is down is not woken, unless its entry was
\* left in use when it was closed (EntryFollowsDevice).
QueueFollowsFlow ==
  \A d \in Devices :
    /\ net[d] = "up" /\ d \notin early => (queue[d] = "running" <=> told = "START")
    /\ net[d] = "down" /\ entry_stat[d] = "EFree" => queue[d] = "stopped"

\* "Waiting on event is not permitted in Net IRQ and results in crash"
\* (ipc_bufferpool.c:468): a transmission always finds a buffer.
XmitNeverWaits == pc["tx"] \notin {"clear", "second", "wait", "first"}

\* It does unless some device was opened in flow stop, although a change of
\* the flow is reported after the region in which the pool ran empty.
XmitWaitsOnlyIfHasty == XmitNeverWaits \/ hasty

\* A buffer the pool has given out is with the CP or on its way back; buffers
\* get lost only once the work item has met a crash code: one the CP reported
\* or one of the AP's own assertions, after which the CP may be well.
LostOnlyOnCrashCode ==
  /\ out = atCp + freed + lost
  /\ lost > 0 => seen /\ CrashCode # "none"

\* A queue that was stopped for want of buffers runs again, while neither
\* processor has stored a crash code.  (A device opened in flow stop can take
\* the buffers as they come back, one by one, and keep the pool from flow start
\* for ever.)
QueueRestarts ==
  \A d \in Devices :
    net[d] = "up" /\ queue[d] = "stopped" ~>
      (queue[d] = "running" \/ net[d] # "up" \/ CrashCode # "none" \/ early # {})
=============================================================================
