--------------------------- MODULE FuseNetProofs ---------------------------
(***************************************************************************)
(* Proofs about the network devices, for any number of devices, any size of *)
(* the packet pool and any limits of its flow control.  The devices use    *)
(* the pool as IpcBufferPool specifies it, so the theorems of              *)
(* IpcBufferPoolProofs hold of their pool; what the devices make of the    *)
(* pool's reports is proved on top of that.                                *)
(***************************************************************************)
EXTENDS FuseNet, FiniteSetTheorems, TLAPS

PoolProofs == INSTANCE IpcBufferPoolProofs WITH
  Allocators <- {}, Waiters <- {"tx"}, Timed <- {}, Returners <- {"work"},
  HasCallback <- TRUE

\* The packet pool satisfies the assumption of the pool's theorems.
LEMMA PoolLimits == PoolProofs!LimitsAssumption
<1>1. /\ PoolProofs!IsFiniteSet({})
      /\ PoolProofs!IsFiniteSet({"tx"}) /\ PoolProofs!IsFiniteSet({"work"})
  BY FS_EmptySet, FS_Singleton DEF PoolProofs!IsFiniteSet, IsFiniteSet
<1> QED
  BY <1>1, NetAssumption

\* The pool of FuseNet is the pool those theorems are about.
LEMMA SamePool == Pool!SafeSpec <=> PoolProofs!SafeSpec
<1> USE DEF Pool!Threads, PoolProofs!Threads, Pool!Goto, PoolProofs!Goto,
            Pool!flowVars, PoolProofs!flowVars, Pool!localVars, PoolProofs!localVars
<1>1. Pool!Init <=> PoolProofs!Init
  BY DEF Pool!Init, PoolProofs!Init
<1>2. Pool!Next <=> PoolProofs!Next
  BY DEF Pool!Next, PoolProofs!Next,
         Pool!AllocateBuffer, PoolProofs!AllocateBuffer,
         Pool!WaitFirst, PoolProofs!WaitFirst, Pool!WaitClear, PoolProofs!WaitClear,
         Pool!WaitSecond, PoolProofs!WaitSecond, Pool!WaitOk, PoolProofs!WaitOk,
         Pool!WaitTimeout, PoolProofs!WaitTimeout, Pool!WaitLast, PoolProofs!WaitLast,
         Pool!Got, PoolProofs!Got, Pool!ReturnToPool, PoolProofs!ReturnToPool,
         Pool!LastDitchState, PoolProofs!LastDitchState,
         Pool!LastDitch, PoolProofs!LastDitch, Pool!ReturnEvent, PoolProofs!ReturnEvent,
         Pool!ReportCheck, PoolProofs!ReportCheck, Pool!ReportCall, PoolProofs!ReportCall,
         Pool!Take, PoolProofs!Take, Pool!Fail, PoolProofs!Fail,
         Pool!CheckFlowState, PoolProofs!CheckFlowState
<1>3. [Pool!Next]_(Pool!vars) <=> [PoolProofs!Next]_(PoolProofs!vars)
  BY <1>2 DEF Pool!vars, PoolProofs!vars
<1> QED
  BY <1>1, <1>3, PTL DEF Pool!SafeSpec, PoolProofs!SafeSpec
-----------------------------------------------------------------------------
(* The devices use the pool as it is meant to be used.                     *)

LEMMA StepIsPoolStep ==
  ASSUME [Next]_vars
  PROVE  [Pool!Next]_(Pool!vars)
<1> USE DEF Pool!Threads, Pool!vars, Pool!flowVars, Pool!localVars, poolVars
<1>1. ASSUME NEW d \in Devices,
             \/ FindEntry(d) \/ OpenRefused(d) \/ StartQueue(d)
             \/ Deactivate(d) \/ FreeEntry(d) \/ StopQueue(d)
      PROVE  UNCHANGED Pool!vars
  BY <1>1 DEF FindEntry, OpenRefused, StartQueue, Deactivate, FreeEntry, StopQueue, vars
<1>2. ASSUME NEW d \in Devices, Tx(d)
      PROVE  Pool!Next
  BY <1>2 DEF Tx, Pool!Next
<1>3. ASSUME SendData \/ Return
      PROVE  Pool!Next
  BY <1>3 DEF SendData, Return, Pool!Next
<1>4. ASSUME CpFree \/ CpReport \/ ApAssert \/ MeetReport \/ TakeBack
      PROVE  UNCHANGED Pool!vars
  BY <1>4 DEF CpFree, CpReport, ApAssert, MeetReport, TakeBack
<1>5. ASSUME NEW t \in {"tx", "work"}, Report(t) \/ InPool(t)
      PROVE  Pool!Next
  BY <1>5 DEF Report, InPool, Pool!Next
<1>6. CASE UNCHANGED vars
  BY <1>6 DEF vars
<1> QED
  BY <1>1, <1>2, <1>3, <1>4, <1>5, <1>6 DEF Next

(***************************************************************************)
(* bcm_fuse_net_tx, the work item and the flow-control callback use the    *)
(* packet pool only as IpcBufferPool allows: the safety part of            *)
(* ImplementsPool.                                                         *)
(***************************************************************************)
THEOREM UsesPoolAsSpecified == SafeSpec => Pool!SafeSpec
<1>1. Init => Pool!Init
  BY DEF Init
<1> QED
  BY <1>1, StepIsPoolStep, PTL DEF SafeSpec, Pool!SafeSpec

\* What the theorems of the pool say of the packet pool.
PoolFacts == Pool!TypeOK /\ Pool!Conserved /\ Pool!StateMatchesLevel /\ Pool!NoLostReport

LEMMA PoolFactsHold == SafeSpec => []PoolFacts
<1>1. PoolProofs!LimitsAssumption
  BY PoolLimits
<1>2. PoolProofs!SafeSpec => []PoolProofs!TypeOK
  BY <1>1, PoolProofs!TypeCorrect, PTL
<1>3. PoolProofs!SafeSpec => []PoolProofs!Conserved
  BY <1>1, PoolProofs!BuffersConserved, PTL
<1>4. PoolProofs!SafeSpec => []PoolProofs!StateMatchesLevel
  BY <1>1, PoolProofs!FlowStateCorrect, PTL
<1>5. PoolProofs!SafeSpec => []PoolProofs!NoLostReport
  BY <1>1, PoolProofs!ReportsNotLost, PTL
<1>6. /\ PoolProofs!TypeOK <=> Pool!TypeOK
      /\ PoolProofs!Conserved <=> Pool!Conserved
      /\ PoolProofs!StateMatchesLevel <=> Pool!StateMatchesLevel
      /\ PoolProofs!NoLostReport <=> Pool!NoLostReport
  BY DEF PoolProofs!TypeOK, Pool!TypeOK, PoolProofs!Conserved, Pool!Conserved,
         PoolProofs!StateMatchesLevel, Pool!StateMatchesLevel,
         PoolProofs!NoLostReport, Pool!NoLostReport,
         PoolProofs!Flow, Pool!Flow, PoolProofs!Steps, Pool!Steps,
         PoolProofs!Threads, Pool!Threads, PoolProofs!Holders, Pool!Holders,
         PoolProofs!Reporting, Pool!Reporting, PoolProofs!Cardinality, Pool!Cardinality
<1> QED
  BY <1>2, <1>3, <1>4, <1>5, <1>6, SamePool, UsesPoolAsSpecified, PTL DEF PoolFacts
-----------------------------------------------------------------------------
(* Types, and where the buffers are.                                       *)

\* RMNET_TO_CID numbers the devices from 1, and the ids it gives, the id of
\* attach and the invalid one are distinct as far as they have to be.
LEMMA CidInjective ==
  \A d, e \in Devices : RMNET_TO_CID(d) = RMNET_TO_CID(e) => d = e
BY IdAssumption DEF IdAssumption, Devices, RMNET_TO_CID, MAX_RIL_PDP_CNTXS, INVALID_PDP_CNTX

LEMMA Ids ==
  /\ MAX_PDP_CNTXS \in PdpIds /\ INVALID_PDP_CNTX \in PdpIds
  /\ \A d \in Devices : RMNET_TO_CID(d) \in PdpIds /\ RMNET_TO_CID(d) # INVALID_PDP_CNTX
BY IdAssumption DEF IdAssumption, Devices, RMNET_TO_CID, MAX_RIL_PDP_CNTXS, INVALID_PDP_CNTX,
   PdpIds

LEMMA TypeInit == Init /\ Pool!TypeOK => TypeOK
<1> SUFFICES ASSUME Init, Pool!TypeOK PROVE TypeOK
  OBVIOUS
<1>1. /\ net \in [Devices -> {"down", "opening", "up", "closing", "closed"}]
      /\ entry_stat \in [Devices -> {"EFree", "EInUse"}]
      /\ queue \in [Devices -> {"running", "stopped"}]
      /\ pdp_context_id \in [Devices -> PdpIds]
  BY Ids DEF Init
<1>2. crashed \in BOOLEAN /\ seen \in BOOLEAN /\ hasty \in BOOLEAN
  BY DEF Init
<1>3. /\ cp \in {"up", "analysing", "crashed"}
      /\ CrashCode \in {"none", "analysing", "crashed", "assert"}
      /\ txdev \in Devices \cup {NoDevice} /\ early \subseteq Devices
      /\ atCp \in Nat /\ freed \in Nat /\ lost \in Nat
  BY DEF Init
<1> QED
  BY <1>1, <1>2, <1>3 DEF TypeOK

\* What is left of TypeOK once the pool's variables have their types.
LEMMA TypeStep ==
  ASSUME TypeOK, Pool!TypeOK', [Next]_vars
  PROVE  TypeOK'
<1> USE DEF TypeOK, bufVars, cpVars, devVars, table
<1>1. ASSUME NEW d \in Devices, FindEntry(d) \/ StartQueue(d) PROVE TypeOK'
  BY <1>1, Ids DEF FindEntry, StartQueue
<1>2. ASSUME NEW d \in Devices, Deactivate(d) \/ StopQueue(d) PROVE TypeOK'
  BY <1>2 DEF Deactivate, StopQueue
<1>2a. ASSUME NEW d \in Devices, FreeEntry(d) PROVE TypeOK'
  BY <1>2a, Ids DEF FreeEntry
<1>3. ASSUME NEW d \in Devices, Tx(d) PROVE TypeOK'
  BY <1>3 DEF Tx
<1>4. CASE SendData
  BY <1>4 DEF SendData
<1>5. CASE CpFree
  BY <1>5 DEF CpFree
<1>6. CASE Return
  BY <1>6 DEF Return
<1>7. CASE CpReport \/ ApAssert \/ MeetReport \/ TakeBack
  BY <1>7 DEF CpReport, ApAssert, MeetReport, TakeBack
<1>8. ASSUME NEW t \in {"tx", "work"}, Report(t) PROVE TypeOK'
  BY <1>8 DEF Report, FlowControl, InUse
<1>9. ASSUME NEW t \in {"tx", "work"}, InPool(t) PROVE TypeOK'
  BY <1>9 DEF InPool
<1>10. CASE UNCHANGED vars
  BY <1>10 DEF vars
<1> QED
  BY <1>1, <1>2, <1>2a, <1>3, <1>4, <1>5, <1>6, <1>7, <1>8, <1>9, <1>10
     DEF Next, OpenRefused

(***************************************************************************)
(* The network devices, their entries of g_net_dev_tbl with the ids that   *)
(* fit a uint8_t, and the counts of buffers keep their types.              *)
(***************************************************************************)
THEOREM TypeCorrect == SafeSpec => []TypeOK
<1>1. (PoolFacts => Pool!TypeOK) /\ (PoolFacts' => Pool!TypeOK')
  BY DEF PoolFacts
<1>2. TypeOK /\ PoolFacts' /\ [Next]_vars => TypeOK'
  BY <1>1, TypeStep
<1> QED
  BY <1>1, <1>2, TypeInit, PoolFactsHold, PTL DEF SafeSpec

\* g_bCpCrashed is raised by a crash code, and no code is taken back.
CrashReported == crashed => seen /\ CrashCode # "none"
SeenReported == seen => CrashCode # "none"
BufferInv == LostOnlyOnCrashCode /\ CrashReported /\ SeenReported

LEMMA BufferStep ==
  ASSUME TypeOK, BufferInv, [Next]_vars
  PROVE  BufferInv'
<1> USE DEF BufferInv, LostOnlyOnCrashCode, CrashReported, SeenReported, bufVars, cpVars
<1>1. ASSUME NEW d \in Devices, FindEntry(d) \/ StartQueue(d) PROVE BufferInv'
  BY <1>1 DEF FindEntry, StartQueue, poolVars
<1>2. ASSUME NEW d \in Devices, Deactivate(d) \/ FreeEntry(d) \/ StopQueue(d)
      PROVE  BufferInv'
  BY <1>2 DEF Deactivate, FreeEntry, StopQueue, poolVars
<1>3. ASSUME NEW d \in Devices, Tx(d) PROVE BufferInv'
  BY <1>3 DEF Tx, Pool!WaitFirst, Pool!Take, Pool!Fail
<1>4. CASE SendData
  BY <1>4 DEF SendData, Pool!Got, TypeOK
<1>5. CASE CpFree
  BY <1>5 DEF CpFree, poolVars, TypeOK
<1>6. CASE Return
  <2>1. out \in Int
    BY NetAssumption DEF NetAssumption, TypeOK, Pool!TypeOK
  <2> QED
    BY <1>6, <2>1 DEF Return, Pool!ReturnToPool, TypeOK
<1>7. CASE CpReport \/ ApAssert \/ MeetReport \/ TakeBack
  BY <1>7 DEF CpReport, ApAssert, MeetReport, TakeBack, poolVars
<1>8. ASSUME NEW t \in {"tx", "work"}, Report(t) PROVE BufferInv'
  BY <1>8 DEF Report, Pool!ReportCall
<1>9. ASSUME NEW t \in {"tx", "work"}, InPool(t) PROVE BufferInv'
  BY <1>9 DEF InPool, Pool!ReportCheck, Pool!WaitClear, Pool!WaitSecond, Pool!WaitOk,
     Pool!WaitFirst, Pool!LastDitchState, Pool!LastDitch, Pool!ReturnEvent,
     Pool!Take, Pool!Fail
<1>10. CASE UNCHANGED vars
  BY <1>10 DEF vars, poolVars
<1> QED
  BY <1>1, <1>2, <1>3, <1>4, <1>5, <1>6, <1>7, <1>8, <1>9, <1>10 DEF Next, OpenRefused

(***************************************************************************)
(* Every buffer that RPC_PACKET_AllocateBuffer has given to                *)
(* bcm_fuse_net_tx is with the CP, on its way back, or was dropped by      *)
(* IPC_SmSendBuffer after IPC_ProcessEvents had met a crash code, of the   *)
(* CP or of an assertion of the AP (CAPI2_Assert).                         *)
(***************************************************************************)
THEOREM BuffersLostOnlyOnCrashCode == SafeSpec => []LostOnlyOnCrashCode
<1>1. Init => BufferInv
  BY DEF Init, Pool!Init, BufferInv, LostOnlyOnCrashCode, CrashReported, SeenReported
<1>2. BufferInv => LostOnlyOnCrashCode
  BY DEF BufferInv
<1> QED
  BY <1>1, <1>2, BufferStep, TypeCorrect, PTL DEF SafeSpec
-----------------------------------------------------------------------------
(* The table of devices.                                                   *)

\* An entry has the id of attach, no id, or its device's own, and this one
\* while it is in use.
IdsKnown ==
  \A d \in Devices :
    /\ pdp_context_id[d] \in {MAX_PDP_CNTXS, INVALID_PDP_CNTX, RMNET_TO_CID(d)}
    /\ entry_stat[d] = "EInUse" => pdp_context_id[d] = RMNET_TO_CID(d)

TableInv == IdsKnown /\ EntryFollowsDevice

\* What bcm_fuse_net_stop frees is the device's own entry, or one that was
\* free before, and this only for the device that has the id of attach.
LEMMA FreedEntry ==
  ASSUME TypeOK, TableInv, NEW d \in Devices, FreeEntry(d)
  PROVE  \E e \in Devices :
           /\ entry_stat' = [entry_stat EXCEPT ![e] = "EFree"]
           /\ pdp_context_id' = [pdp_context_id EXCEPT ![e] = INVALID_PDP_CNTX]
           /\ e = d \/ (entry_stat[e] = "EFree" /\ RMNET_TO_CID(d) = MAX_PDP_CNTXS)
<1>1. pdp_context_id[d] = RMNET_TO_CID(d)
  BY DEF FreeEntry, TableInv, IdsKnown, EntryFollowsDevice
<1>2. RMNET_TO_CID(d) # INVALID_PDP_CNTX
  BY Ids
<1>3. PICK e \in Devices :
        /\ FirstWithId(e, pdp_context_id[d])
        /\ entry_stat' = [entry_stat EXCEPT ![e] = "EFree"]
        /\ pdp_context_id' = [pdp_context_id EXCEPT ![e] = INVALID_PDP_CNTX]
  BY <1>1, <1>2 DEF FreeEntry
<1>4. pdp_context_id[e] = RMNET_TO_CID(d)
  BY <1>1, <1>3 DEF FirstWithId
<1>5. CASE e # d
  <2>1. pdp_context_id[e] # RMNET_TO_CID(e)
    BY <1>4, <1>5, CidInjective
  <2> QED
    BY <1>2, <1>3, <1>4, <2>1 DEF TableInv, IdsKnown, TypeOK
<1> QED
  BY <1>3, <1>5

LEMMA TableStep ==
  ASSUME TypeOK, TableInv, [Next]_vars
  PROVE  TableInv'
<1> USE DEF TableInv, IdsKnown, EntryFollowsDevice, TypeOK
<1>1. ASSUME NEW d \in Devices, FindEntry(d) PROVE TableInv'
  BY <1>1 DEF FindEntry
<1>2. ASSUME NEW d \in Devices, StartQueue(d) \/ Deactivate(d) \/ StopQueue(d)
      PROVE  TableInv'
  BY <1>2 DEF StartQueue, Deactivate, StopQueue, table
<1>3. ASSUME NEW d \in Devices, FreeEntry(d) PROVE TableInv'
  <2>1. PICK e \in Devices :
          /\ entry_stat' = [entry_stat EXCEPT ![e] = "EFree"]
          /\ pdp_context_id' = [pdp_context_id EXCEPT ![e] = INVALID_PDP_CNTX]
          /\ e = d \/ (entry_stat[e] = "EFree" /\ RMNET_TO_CID(d) = MAX_PDP_CNTXS)
    BY <1>3, FreedEntry
  <2>2. net' = [net EXCEPT ![d] = "closed"]
    BY <1>3 DEF FreeEntry
  <2> QED
    BY <2>1, <2>2
<1>4. ASSUME NEW d \in Devices, Tx(d) PROVE TableInv'
  BY <1>4 DEF Tx, devVars, table
<1>5. CASE SendData \/ CpFree \/ Return
  BY <1>5 DEF SendData, CpFree, Return, devVars, table
<1>6. CASE CpReport \/ ApAssert \/ MeetReport \/ TakeBack
  BY <1>6 DEF CpReport, ApAssert, MeetReport, TakeBack, devVars, table
<1>7. ASSUME NEW t \in {"tx", "work"}, Report(t) \/ InPool(t) PROVE TableInv'
  BY <1>7 DEF Report, InPool, devVars, table
<1>8. CASE UNCHANGED vars
  BY <1>8 DEF vars, devVars, table
<1> QED
  BY <1>1, <1>2, <1>3, <1>4, <1>5, <1>6, <1>7, <1>8 DEF Next, OpenRefused

LEMMA TableHolds == SafeSpec => []TableInv
<1>1. Init => TableInv
  BY DEF Init, TableInv, IdsKnown, EntryFollowsDevice
<1> QED
  BY <1>1, TableStep, TypeCorrect, PTL DEF SafeSpec

(***************************************************************************)
(* For any number of devices and any split of the ids: although            *)
(* bcm_fuse_net_free_entry frees the first entry with an id and attach has *)
(* given all of them the same one, no device in service loses its entry,   *)
(* and a device that is closed leaves its own in use only if its id is the *)
(* one of attach (rmnet2).                                                 *)
(***************************************************************************)
THEOREM EntriesFollowDevices == SafeSpec => []EntryFollowsDevice
<1>1. TableInv => EntryFollowsDevice
  BY DEF TableInv
<1> QED
  BY <1>1, TableHolds, PTL
-----------------------------------------------------------------------------
(* The queues and the flow control.                                        *)

LEMMA QueueStep ==
  ASSUME TypeOK, TableInv, QueueFollowsFlow, [Next]_vars
  PROVE  QueueFollowsFlow'
<1> USE DEF TypeOK, QueueFollowsFlow
<1>1. ASSUME NEW d \in Devices, FindEntry(d) PROVE QueueFollowsFlow'
  BY <1>1 DEF FindEntry, poolVars
<1>2. ASSUME NEW d \in Devices, StartQueue(d) PROVE QueueFollowsFlow'
  BY <1>2 DEF StartQueue, poolVars, table, Pool!TypeOK, Pool!Flow
<1>3. ASSUME NEW d \in Devices, Deactivate(d) \/ StopQueue(d)
      PROVE  QueueFollowsFlow'
  BY <1>3 DEF Deactivate, StopQueue, poolVars, table
<1>3a. ASSUME NEW d \in Devices, FreeEntry(d) PROVE QueueFollowsFlow'
  <2>1. PICK e \in Devices :
          /\ entry_stat' = [entry_stat EXCEPT ![e] = "EFree"]
          /\ e = d \/ entry_stat[e] = "EFree"
    BY <1>3a, FreedEntry
  <2>2. /\ net' = [net EXCEPT ![d] = "closed"] /\ early' = early \ {d}
        /\ UNCHANGED <<queue, told>>
    BY <1>3a DEF FreeEntry, poolVars
  <2> QED
    BY <2>1, <2>2
<1>4. ASSUME NEW d \in Devices, Tx(d) PROVE QueueFollowsFlow'
  BY <1>4 DEF Tx, Pool!WaitFirst, Pool!Take, Pool!Fail, devVars, table
<1>5. CASE SendData \/ Return
  BY <1>5 DEF SendData, Return, Pool!Got, Pool!ReturnToPool, devVars, table
<1>6. CASE CpFree \/ CpReport \/ ApAssert \/ MeetReport \/ TakeBack
  BY <1>6 DEF CpFree, CpReport, ApAssert, MeetReport, TakeBack, poolVars, devVars, table
<1>7. ASSUME NEW t \in {"tx", "work"}, Report(t) PROVE QueueFollowsFlow'
  <2>1. said[t] \in {"START", "STOP"}
    BY DEF Pool!TypeOK, Pool!Flow, Pool!Threads
  <2>2. told' = said[t] /\ UNCHANGED <<net, entry_stat>>
    BY <1>7 DEF Report, Pool!ReportCall, table
  <2>3. /\ early' = early \ InUse
        /\ \A d \in Devices : queue'[d] =
             IF d \notin InUse THEN queue[d]
             ELSE IF said[t] = "START" THEN "running" ELSE "stopped"
    BY <1>7 DEF Report, FlowControl
  <2>4. \A d \in Devices : /\ d \in InUse <=> entry_stat[d] = "EInUse"
                           /\ net[d] = "up" => entry_stat[d] = "EInUse"
    BY DEF InUse, TableInv, EntryFollowsDevice
  <2> QED
    BY <2>1, <2>2, <2>3, <2>4
<1>8. ASSUME NEW t \in {"tx", "work"}, InPool(t) PROVE QueueFollowsFlow'
  BY <1>8 DEF InPool, Pool!ReportCheck, Pool!WaitClear, Pool!WaitSecond, Pool!WaitOk,
     Pool!WaitFirst, Pool!LastDitchState, Pool!LastDitch, Pool!ReturnEvent,
     Pool!Take, Pool!Fail, devVars, table
<1>9. CASE UNCHANGED vars
  BY <1>9 DEF vars, poolVars, devVars, table
<1> QED
  BY <1>1, <1>2, <1>3, <1>3a, <1>4, <1>5, <1>6, <1>7, <1>8, <1>9
     DEF Next, OpenRefused

(***************************************************************************)
(* Any number of devices, opened and closed at any time: the queue of one  *)
(* that is up follows the last call of bcm_fuse_net_fc_cb, unless          *)
(* bcm_fuse_net_open started it in flow stop and there was none since, and *)
(* the callback never wakes a device that is down, unless its entry was    *)
(* left in use when it was closed.                                         *)
(***************************************************************************)
THEOREM QueuesFollowFlow == SafeSpec => []QueueFollowsFlow
<1>1. Init => QueueFollowsFlow
  BY DEF Init, QueueFollowsFlow
<1> QED
  BY <1>1, QueueStep, TableHolds, TypeCorrect, PTL DEF SafeSpec
-----------------------------------------------------------------------------
(* A transmission does not wait.                                           *)

\* The parts of the inductive invariant FlowInv.  A transmission is never
\* in the wait of IPC_AllocateBufferWait, and reports only that it emptied
\* the pool to FlowStopLimit; the work item reports only flow start.
TxRuns ==
  /\ early = {}
  /\ pc["tx"] \in {"idle", "check", "call", "got"}
  /\ pc["tx"] = "check" => said["tx"] = "STOP"
  /\ pc["tx"] \in {"check", "call"} => FlowControlCallPending /\ next["tx"] = "got"

\* Flow stop that nobody has been told of is about to be reported, and by the
\* transmission itself: it is not over before its queue is stopped.
TxReportsStop ==
  told = "START" /\ FlowControlState = "STOP" => pc["tx"] \in {"check", "call"}

\* The work item reports while the queues are stopped: a new flow start, or
\* one that the last-ditch check only supposes.
WorkReportsStart ==
  /\ pc["work"] \in {"idle", "check", "call", "ditch", "ditch2", "event"}
  /\ pc["work"] \in {"check", "call"} =>
       /\ told = "STOP" /\ pc["tx"] \in {"idle", "got"} /\ said["work"] = "START"
       /\ \/ next["work"] = "ditch" /\ FlowControlState = "START" /\ FlowControlCallPending
          \/ pc["work"] = "check" /\ next["work"] = "event"
               /\ FlowControlState = "STOP" /\ ~FlowControlCallPending
  /\ pc["work"] = "ditch2" => FlowControlState = "STOP"

PendingHasReporter ==
  FlowControlCallPending => \E t \in {"tx", "work"} : pc[t] \in {"check", "call"}

FlowInv == ~hasty => TxRuns /\ TxReportsStop /\ WorkReportsStart /\ PendingHasReporter

\* A device that may transmit finds a buffer, and its report is not put off.
LEMMA TxFindsBuffer ==
  ASSUME TypeOK, PoolFacts, QueueFollowsFlow, FlowInv, ~hasty,
         NEW d \in Devices, Tx(d)
  PROVE  /\ Pool!Take("tx") /\ told = "START" /\ FlowControlState = "START"
         /\ ~FlowControlCallPending /\ pc["work"] \notin {"check", "call"}
<1>1. told = "START"
  BY DEF FlowInv, TxRuns, QueueFollowsFlow, Tx
<1>2. FlowControlState = "START"
  BY <1>1 DEF FlowInv, TxReportsStop, Tx, TypeOK, Pool!TypeOK, Pool!Flow
<1>3. FreeBuffers > 0
  BY <1>2, NetAssumption DEF NetAssumption, PoolFacts, Pool!StateMatchesLevel, TypeOK, Pool!TypeOK
<1>4. Pool!Take("tx")
  BY <1>3, NetAssumption DEF NetAssumption, Tx, Pool!WaitFirst, Pool!Fail, TypeOK, Pool!TypeOK
<1>5. pc["work"] \notin {"check", "call"}
  BY <1>1 DEF FlowInv, WorkReportsStart
<1>6. ~FlowControlCallPending
  BY <1>5 DEF FlowInv, PendingHasReporter, Tx
<1> QED
  BY <1>1, <1>2, <1>4, <1>5, <1>6

LEMMA FlowStep ==
  ASSUME TypeOK, PoolFacts, QueueFollowsFlow, FlowInv, [Next]_vars
  PROVE  FlowInv'
<1> SUFFICES ASSUME ~hasty, ~hasty'
             PROVE  FlowInv'
  <2>1. hasty => hasty'
    BY DEF Next, vars, bufVars, FindEntry, OpenRefused, StartQueue, Deactivate, FreeEntry, StopQueue,
           Tx, SendData, CpFree, Return, CpReport, ApAssert, MeetReport, TakeBack, Report, InPool
  <2> QED
    BY <2>1 DEF FlowInv
<1> DEFINE Inv == TxRuns /\ TxReportsStop /\ WorkReportsStart /\ PendingHasReporter
<1>0. Inv
  BY DEF FlowInv
<1> SUFFICES Inv'
  BY DEF FlowInv
<1> USE DEF TxRuns, TxReportsStop, WorkReportsStart, PendingHasReporter
<1>t. /\ pc \in [{"tx", "work"} -> Pool!Steps] /\ said \in [{"tx", "work"} -> {"START", "STOP"}]
      /\ next \in [{"tx", "work"} -> {"idle", "got", "ditch", "event"}]
      /\ told \in {"START", "STOP"} /\ FlowControlState \in {"START", "STOP"}
      /\ FlowControlCallPending \in BOOLEAN
  <2>1. Pool!Threads = {"tx", "work"}
    BY DEF Pool!Threads
  <2> QED
    BY <2>1 DEF TypeOK, Pool!TypeOK, Pool!Flow
<1>1. ASSUME NEW d \in Devices, FindEntry(d) \/ Deactivate(d) \/ FreeEntry(d) \/ StopQueue(d)
      PROVE  Inv'
  BY <1>0, <1>1 DEF FindEntry, Deactivate, FreeEntry, StopQueue, poolVars
<1>2. ASSUME NEW d \in Devices, StartQueue(d) PROVE Inv'
  BY <1>0, <1>2 DEF StartQueue, poolVars
<1>3. ASSUME NEW d \in Devices, Tx(d) PROVE Inv'
  <2>1. /\ Pool!Take("tx") /\ told = "START" /\ FlowControlState = "START"
        /\ ~FlowControlCallPending /\ pc["work"] \notin {"check", "call"}
    BY <1>3, TxFindsBuffer
  <2>2. early' = early /\ told' = told
    BY <1>3, <2>1 DEF Tx, Pool!Take
  <2> QED
    BY <1>0, <1>t, <2>1, <2>2 DEF Pool!Take, Pool!CheckFlowState, Pool!Goto
<1>4. CASE SendData
  BY <1>0, <1>t, <1>4 DEF SendData, Pool!Got, Pool!Goto, Pool!flowVars, Pool!localVars
<1>5. CASE Return
  BY <1>0, <1>t, <1>5 DEF Return, Pool!ReturnToPool, Pool!CheckFlowState, Pool!Goto
<1>6. CASE CpFree \/ CpReport \/ ApAssert \/ MeetReport \/ TakeBack
  BY <1>0, <1>6 DEF CpFree, CpReport, ApAssert, MeetReport, TakeBack, poolVars
<1>7. CASE Report("tx")
  BY <1>0, <1>t, <1>7 DEF Report, FlowControl, Pool!ReportCall, Pool!Goto
<1>8. CASE Report("work")
  BY <1>0, <1>t, <1>8 DEF Report, FlowControl, Pool!ReportCall, Pool!Goto
<1>9. CASE InPool("tx")
  <2>1. Pool!ReportCheck("tx") /\ early' = early
    BY <1>0, <1>9 DEF InPool, Pool!WaitClear, Pool!WaitSecond, Pool!WaitOk,
       Pool!LastDitchState, Pool!LastDitch, Pool!ReturnEvent
  <2> QED
    BY <1>0, <1>t, <2>1 DEF Pool!ReportCheck, Pool!Goto, Pool!localVars
<1>10. CASE InPool("work")
  <2>1. early' = early
    BY <1>10 DEF InPool
  <2>2. CASE Pool!ReportCheck("work")
    BY <1>0, <1>t, <2>1, <2>2 DEF Pool!ReportCheck, Pool!Goto, Pool!localVars
  <2>3. CASE Pool!LastDitchState("work")
    BY <1>0, <1>t, <2>1, <2>3 DEF Pool!LastDitchState, Pool!Goto, Pool!flowVars, Pool!localVars
  <2>4. CASE Pool!LastDitch("work")
    BY <1>0, <1>t, <2>1, <2>4 DEF Pool!LastDitch, Pool!Goto, Pool!flowVars
  <2>5. CASE Pool!ReturnEvent("work")
    BY <1>0, <1>t, <2>1, <2>5 DEF Pool!ReturnEvent, Pool!Goto, Pool!flowVars
  <2> QED
    BY <1>0, <1>10, <2>2, <2>3, <2>4, <2>5 DEF InPool, Pool!WaitClear, Pool!WaitSecond, Pool!WaitOk
<1>11. CASE UNCHANGED vars
  BY <1>0, <1>11 DEF vars, poolVars
<1> QED
  BY <1>1, <1>2, <1>3, <1>4, <1>5, <1>6, <1>7, <1>8, <1>9, <1>10, <1>11
     DEF Next, OpenRefused

(***************************************************************************)
(* The allocation of bcm_fuse_net_tx, in the network's soft interrupt,     *)
(* never waits for a buffer ("not permitted in Net IRQ", ipc_bufferpool.c) *)
(* unless bcm_fuse_net_open has ever started a queue in flow stop: for any *)
(* limits Stop < Start, and although the flow stop is reported only after  *)
(* the region in which the limit was met.                                  *)
(***************************************************************************)
THEOREM TransmissionDoesNotWait == SafeSpec => []XmitWaitsOnlyIfHasty
<1>1. Init => FlowInv
  BY DEF Init, Pool!Init, Pool!Threads, FlowInv, TxRuns, TxReportsStop, WorkReportsStart,
         PendingHasReporter
<1>2. FlowInv => XmitWaitsOnlyIfHasty
  BY DEF FlowInv, TxRuns, XmitWaitsOnlyIfHasty, XmitNeverWaits
<1> QED
  BY <1>1, <1>2, FlowStep, TypeCorrect, PoolFactsHold, QueuesFollowFlow, PTL DEF SafeSpec
=============================================================================
