------------------------ MODULE IpcBufferPoolProofs ------------------------
(***************************************************************************)
(* Proofs about the buffer pool, for any number of threads and buffers and *)
(* any limits with FlowStopLimit < FlowStartLimit <= MaxBuffers.           *)
(***************************************************************************)
EXTENDS IpcBufferPool, FiniteSetTheorems, TLAPS

\* Type correctness without the upper bounds, which follow from Conserved.
TypeInv ==
  /\ FreeBuffers \in Nat
  /\ FlowControlState \in Flow
  /\ FlowControlCallPending \in BOOLEAN
  /\ EmptyEvent \in BOOLEAN
  /\ told \in Flow
  /\ out \in Nat
  /\ pc \in [Threads -> Steps]
  /\ said \in [Threads -> Flow]
  /\ next \in [Threads -> {"idle", "got", "ditch", "event"}]
  /\ count \in [Threads -> Nat]

\* What one step of a thread does to the flow-control variables.
LEMMA CheckFlowStateType ==
  ASSUME TypeInv, NEW t \in Threads, NEW hit \in BOOLEAN, NEW new \in Flow,
         NEW step \in {"idle", "got", "ditch", "event"},
         CheckFlowState(t, hit, new, step)
  PROVE  /\ FlowControlState' \in Flow
         /\ FlowControlCallPending' \in BOOLEAN
         /\ pc' \in [Threads -> Steps]
         /\ said' \in [Threads -> Flow]
         /\ next' \in [Threads -> {"idle", "got", "ditch", "event"}]
  BY DEF TypeInv, CheckFlowState, Goto, Steps, Flow

LEMMA TypeInvStep ==
  ASSUME TypeInv, [Next]_vars
  PROVE  TypeInv'
<1> USE LimitsAssumption
<1>1. ASSUME NEW t \in Threads, Take(t)
      PROVE  TypeInv'
  <2>1. (FreeBuffers - 1 = FlowStopLimit) \in BOOLEAN /\ "STOP" \in Flow
    BY DEF Flow
  <2>2. FreeBuffers' \in Nat
    BY <1>1 DEF Take, TypeInv
  <2>3. CheckFlowState(t, FreeBuffers - 1 = FlowStopLimit, "STOP", "got")
    BY <1>1 DEF Take
  <2> QED BY <1>1, <2>1, <2>2, <2>3, CheckFlowStateType DEF Take, TypeInv
<1>2. ASSUME NEW t \in Threads, NEW step \in Steps, Fail(t, step)
      PROVE  TypeInv'
  BY <1>2 DEF Fail, Goto, TypeInv, Flow, localVars
<1>3. CASE \E t \in Threads : AllocateBuffer(t)
  BY <1>1, <1>2, <1>3 DEF AllocateBuffer, Steps
<1>4. CASE \E t \in Threads : WaitFirst(t)
  BY <1>1, <1>2, <1>4 DEF WaitFirst, Steps
<1>5. CASE \E t \in Threads : WaitClear(t)
  BY <1>5 DEF WaitClear, Goto, TypeInv, Steps, localVars, flowVars
<1>6. CASE \E t \in Threads : WaitSecond(t)
  BY <1>1, <1>2, <1>6 DEF WaitSecond, Steps
<1>7. CASE \E t \in Threads : WaitOk(t)
  BY <1>7 DEF WaitOk, Goto, TypeInv, Steps, localVars, flowVars
<1>8. CASE \E t \in Threads : WaitTimeout(t)
  BY <1>8 DEF WaitTimeout, Goto, TypeInv, Steps, localVars, flowVars
<1>9. CASE \E t \in Threads : WaitLast(t)
  BY <1>1, <1>2, <1>9 DEF WaitLast, Steps
<1>10. CASE \E t \in Threads : Got(t)
  BY <1>10 DEF Got, Goto, TypeInv, Steps, localVars, flowVars
<1>11. CASE \E t \in Threads : ReturnToPool(t)
  <2>1. PICK t \in Threads : ReturnToPool(t)
    BY <1>11
  <2>2. (FreeBuffers + 1 = FlowStartLimit) \in BOOLEAN /\ "START" \in Flow
    BY DEF Flow
  <2>3. CheckFlowState(t, FreeBuffers + 1 = FlowStartLimit, "START", "ditch")
    BY <2>1 DEF ReturnToPool
  <2>4. FreeBuffers' \in Nat /\ out' \in Nat /\ count' \in [Threads -> Nat]
    BY <2>1 DEF ReturnToPool, TypeInv
  <2> QED BY <2>1, <2>2, <2>3, <2>4, CheckFlowStateType DEF ReturnToPool, TypeInv
<1>12. CASE \E t \in Threads : LastDitchState(t)
  BY <1>12 DEF LastDitchState, Goto, TypeInv, Steps, localVars, flowVars
<1>13. CASE \E t \in Threads : LastDitch(t)
  BY <1>13 DEF LastDitch, Goto, TypeInv, Steps, Flow, localVars, flowVars
<1>14. CASE \E t \in Threads : ReturnEvent(t)
  BY <1>14 DEF ReturnEvent, Goto, TypeInv, Steps, localVars, flowVars
<1>15. CASE \E t \in Threads : ReportCheck(t)
  BY <1>15 DEF ReportCheck, Goto, TypeInv, Steps, localVars, flowVars
<1>16. CASE \E t \in Threads : ReportCall(t)
  BY <1>16 DEF ReportCall, Goto, TypeInv, Steps, Flow, localVars, flowVars
<1>17. CASE UNCHANGED vars
  BY <1>17 DEF vars, flowVars, localVars, TypeInv
<1> QED
  BY <1>3, <1>4, <1>5, <1>6, <1>7, <1>8, <1>9, <1>10, <1>11, <1>12, <1>13,
     <1>14, <1>15, <1>16, <1>17 DEF Next
-----------------------------------------------------------------------------
(* The flow-control state and the buffer count.                            *)

\* A step that changes the count keeps the hysteresis, because it tests the
\* limit it may have reached in the same region.
LEMMA StateMatchesLevelStep ==
  ASSUME TypeInv, StateMatchesLevel, [Next]_vars
  PROVE  StateMatchesLevel'
<1> USE LimitsAssumption DEF StateMatchesLevel, TypeInv
<1>1. ASSUME NEW t \in Threads, Take(t)
      PROVE  StateMatchesLevel'
  BY <1>1 DEF Take, CheckFlowState, Flow
<1>2. ASSUME NEW t \in Threads, NEW step, Fail(t, step)
      PROVE  StateMatchesLevel'
  BY <1>2 DEF Fail, Flow
<1>3. ASSUME NEW t \in Threads, ReturnToPool(t)
      PROVE  StateMatchesLevel'
  BY <1>3 DEF ReturnToPool, CheckFlowState, Flow
<1>4. ASSUME UNCHANGED <<FreeBuffers, FlowControlState>>
      PROVE  StateMatchesLevel'
  BY <1>4
<1>5. ASSUME NEW t \in Threads,
             \/ AllocateBuffer(t) \/ WaitFirst(t) \/ WaitSecond(t) \/ WaitLast(t)
      PROVE  StateMatchesLevel'
  BY <1>1, <1>2, <1>5 DEF AllocateBuffer, WaitFirst, WaitSecond, WaitLast
<1>6. ASSUME NEW t \in Threads,
             \/ WaitClear(t) \/ WaitOk(t) \/ WaitTimeout(t) \/ Got(t)
             \/ LastDitchState(t) \/ LastDitch(t) \/ ReturnEvent(t)
             \/ ReportCheck(t) \/ ReportCall(t)
      PROVE  UNCHANGED <<FreeBuffers, FlowControlState>>
  BY <1>6 DEF WaitClear, WaitOk, WaitTimeout, Got, LastDitchState, LastDitch,
              ReturnEvent, ReportCheck, ReportCall, flowVars
<1>7. CASE UNCHANGED vars
  BY <1>4, <1>7 DEF vars, flowVars
<1> QED BY <1>3, <1>4, <1>5, <1>6, <1>7 DEF Next
-----------------------------------------------------------------------------
(* Reports.                                                                *)

\* A thread that is on its way to the callback stays on its way in a step of
\* another thread that does not change what was told.
LEMMA ReporterKept ==
  ASSUME TypeInv, NEW t \in Threads, NEW u \in Threads, u # t, Reporting(u),
         UNCHANGED told,
         NEW p, pc' = [pc EXCEPT ![t] = p],
         NEW s, said' = [said EXCEPT ![t] = s]
  PROVE  Reporting(u)'
  BY DEF TypeInv, Reporting

LEMMA NoLostReportStep ==
  ASSUME TypeInv, StateMatchesLevel, NoLostReport, [Next]_vars
  PROVE  NoLostReport'
<1> USE LimitsAssumption
<1> SUFFICES ASSUME HasCallback
             PROVE  NoLostReport'
  BY DEF NoLostReport
<1> DEFINE News == told # FlowControlState \/ FlowControlCallPending
<1>0. News => \E u \in Threads : Reporting(u)
  BY DEF NoLostReport
\* CHECK_FLOW_STATE by a thread that is at work and not reporting.
<1>1. ASSUME NEW t \in Threads, NEW hit \in BOOLEAN, NEW new \in Flow, NEW step,
             pc[t] \notin {"check", "call"}, UNCHANGED told,
             CheckFlowState(t, hit, new, step)
      PROVE  NoLostReport'
  <2>1. CASE News
    <3>1. PICK u \in Threads : Reporting(u)
      BY <1>0, <2>1
    <3>2. u # t
      BY <1>1, <3>1 DEF Reporting
    <3>3. Reporting(u)'
      BY <1>1, <3>1, <3>2 DEF CheckFlowState, Goto, Reporting, TypeInv
    <3> QED BY <3>3 DEF NoLostReport
  <2>2. CASE ~News /\ hit /\ FlowControlState # new
    <3>1. Reporting(t)'
      BY <1>1, <2>2 DEF CheckFlowState, Goto, Reporting, TypeInv
    <3> QED BY <3>1 DEF NoLostReport
  <2>3. CASE ~News /\ ~(hit /\ FlowControlState # new)
    BY <1>1, <2>3 DEF CheckFlowState, NoLostReport, TypeInv
  <2> QED BY <2>1, <2>2, <2>3
\* A step of a thread that is not reporting and changes no flow variable.
<1>2. ASSUME NEW t \in Threads, pc[t] \notin {"check", "call"},
             UNCHANGED <<told, FlowControlState, FlowControlCallPending>>,
             NEW p, pc' = [pc EXCEPT ![t] = p],
             NEW s, said' = [said EXCEPT ![t] = s]
      PROVE  NoLostReport'
  <2>1. CASE News
    <3>1. PICK u \in Threads : Reporting(u)
      BY <1>0, <2>1
    <3>2. u # t
      BY <1>2, <3>1 DEF Reporting
    <3>3. Reporting(u)'
      BY <1>2, <3>1, <3>2, ReporterKept
    <3> QED BY <3>3 DEF NoLostReport
  <2>2. CASE ~News
    BY <1>2, <2>2 DEF NoLostReport
  <2> QED BY <2>1, <2>2
<1>3. ASSUME NEW t \in Threads, pc[t] \notin {"check", "call"}, Take(t)
      PROVE  NoLostReport'
  <2>1. (FreeBuffers - 1 = FlowStopLimit) \in BOOLEAN /\ "STOP" \in Flow
    BY DEF Flow
  <2> QED BY <1>1, <1>3, <2>1 DEF Take
\* An empty pool is in flow stop already.
<1>4. ASSUME NEW t \in Threads, pc[t] \notin {"check", "call"}, NEW step, Fail(t, step)
      PROVE  NoLostReport'
  <2>1. UNCHANGED <<told, FlowControlState, FlowControlCallPending>>
    BY <1>4 DEF Fail, StateMatchesLevel, TypeInv, Flow
  <2>2. said' = [said EXCEPT ![t] = said[t]]
    BY <1>4 DEF Fail, localVars, TypeInv
  <2>3. pc' = [pc EXCEPT ![t] = step]
    BY <1>4 DEF Fail, Goto
  <2> QED BY <1>2, <1>4, <2>1, <2>2, <2>3
<1>5. ASSUME NEW t \in Threads,
             \/ AllocateBuffer(t) \/ WaitFirst(t) \/ WaitSecond(t) \/ WaitLast(t)
      PROVE  NoLostReport'
  BY <1>3, <1>4, <1>5 DEF AllocateBuffer, WaitFirst, WaitSecond, WaitLast
<1>6. ASSUME NEW t \in Threads, ReturnToPool(t)
      PROVE  NoLostReport'
  <2>1. (FreeBuffers + 1 = FlowStartLimit) \in BOOLEAN /\ "START" \in Flow
    BY DEF Flow
  <2> QED BY <1>1, <1>6, <2>1 DEF ReturnToPool
<1>7. ASSUME NEW t \in Threads,
             \/ WaitClear(t) \/ WaitOk(t) \/ WaitTimeout(t) \/ Got(t)
             \/ LastDitchState(t) \/ ReturnEvent(t)
      PROVE  NoLostReport'
  <2>1. pc[t] \notin {"check", "call"} /\ UNCHANGED <<told, flowVars>>
    BY <1>7 DEF WaitClear, WaitOk, WaitTimeout, Got, LastDitchState, ReturnEvent
  <2>2. \E p : pc' = [pc EXCEPT ![t] = p]
    BY <1>7 DEF WaitClear, WaitOk, WaitTimeout, Got, LastDitchState, ReturnEvent, Goto
  <2>3. said' = [said EXCEPT ![t] = said[t]]
    BY <1>7 DEF WaitClear, WaitOk, WaitTimeout, Got, LastDitchState, ReturnEvent,
                localVars, TypeInv
  <2> QED BY <1>2, <2>1, <2>2, <2>3 DEF flowVars
<1>8. ASSUME NEW t \in Threads, LastDitch(t)
      PROVE  NoLostReport'
  <2>1. pc[t] \notin {"check", "call"} /\ UNCHANGED <<told, flowVars>>
    BY <1>8 DEF LastDitch
  <2>2. \E p : pc' = [pc EXCEPT ![t] = p]
    BY <1>8 DEF LastDitch, Goto
  <2>3. \E s : said' = [said EXCEPT ![t] = s]
    <3>1. said = [said EXCEPT ![t] = said[t]]
      BY DEF TypeInv
    <3> QED BY <1>8, <3>1 DEF LastDitch
  <2> QED BY <1>2, <2>1, <2>2, <2>3 DEF flowVars
\* A reporter that gives up had nothing to say that was not said: with two
\* flow states, what it came to say is what was told last.
<1>9. ASSUME NEW t \in Threads, ReportCheck(t)
      PROVE  NoLostReport'
  <2>1. CASE said[t] # FlowControlState
    <3>1. CASE told = FlowControlState
      BY <1>9, <2>1, <3>1 DEF ReportCheck, NoLostReport
    <3>2. CASE told # FlowControlState
      <4>1. PICK u \in Threads : Reporting(u)
        BY <1>0, <3>2
      <4>2. ~Reporting(t)
        BY <1>9, <2>1, <3>2 DEF ReportCheck, Reporting, TypeInv, Flow
      <4>3. u # t
        BY <4>1, <4>2
      <4>4. Reporting(u)'
        BY <1>9, <4>1, <4>3 DEF ReportCheck, Goto, Reporting, TypeInv, localVars
      <4> QED BY <4>4 DEF NoLostReport
    <3> QED BY <3>1, <3>2
  <2>2. CASE said[t] = FlowControlState
    <3>1. Reporting(t)'
      BY <1>9, <2>2 DEF ReportCheck, Goto, Reporting, TypeInv
    <3> QED BY <3>1 DEF NoLostReport
  <2> QED BY <2>1, <2>2
\* A reporter leaves the loop only when it told what is the state.
<1>10. ASSUME NEW t \in Threads, ReportCall(t)
       PROVE  NoLostReport'
  <2>1. CASE said[t] = FlowControlState
    BY <1>10, <2>1 DEF ReportCall, NoLostReport
  <2>2. CASE said[t] # FlowControlState
    <3>1. Reporting(t)'
      BY <1>10, <2>2 DEF ReportCall, Reporting
    <3> QED BY <3>1 DEF NoLostReport
  <2> QED BY <2>1, <2>2
<1>11. CASE UNCHANGED vars
  BY <1>11 DEF vars, flowVars, localVars, NoLostReport, Reporting
<1> QED
  BY <1>5, <1>6, <1>7, <1>8, <1>9, <1>10, <1>11 DEF Next
-----------------------------------------------------------------------------
(* No buffer is lost or made up.                                           *)

LEMMA HoldersFinite ==
  IsFiniteSet(Threads) /\ IsFiniteSet(Holders)
<1>1. IsFiniteSet(Threads)
  BY LimitsAssumption, FS_Union DEF Threads
<1> QED BY <1>1, FS_Subset DEF Holders

LEMMA ConservedStep ==
  ASSUME TypeInv, Conserved, [Next]_vars
  PROVE  Conserved'
<1> USE LimitsAssumption
<1>0. Cardinality(Holders) \in Nat /\ IsFiniteSet(Holders)
  BY HoldersFinite, FS_CardinalityType
\* The thread that takes a buffer becomes its holder.
<1>1. ASSUME NEW t \in Threads, pc[t] \notin {"check", "call", "got"}, Take(t)
      PROVE  Conserved'
  <2>1. t \notin Holders
    BY <1>1 DEF Holders
  <2>2. Holders' = Holders \cup {t}
    BY <1>1 DEF Holders, Take, CheckFlowState, Goto, TypeInv
  <2>3. Cardinality(Holders') = Cardinality(Holders) + 1
    BY <1>0, <2>1, <2>2, FS_AddElement
  <2>4. FreeBuffers' = FreeBuffers - 1 /\ out' = out
    BY <1>1 DEF Take
  <2> QED BY <1>0, <2>3, <2>4 DEF Conserved, TypeInv
<1>2. ASSUME Holders' = Holders, FreeBuffers' + out' = FreeBuffers + out
      PROVE  Conserved'
  <2>1. FreeBuffers' + out' + Cardinality(Holders') = FreeBuffers + out + Cardinality(Holders)
    BY <1>2
  <2> QED BY <2>1 DEF Conserved
<1>3. ASSUME NEW t \in Threads, pc[t] \notin {"check", "call", "got"},
             NEW step, step # "got", step \notin {"check", "call"}, Fail(t, step)
      PROVE  Conserved'
  <2>1. Holders' = Holders
    BY <1>3 DEF Fail, Holders, Goto, localVars, TypeInv
  <2> QED BY <1>2, <1>3, <2>1 DEF Fail
<1>4. ASSUME NEW t \in Threads,
             \/ AllocateBuffer(t) \/ WaitFirst(t) \/ WaitSecond(t) \/ WaitLast(t)
      PROVE  Conserved'
  BY <1>1, <1>3, <1>4 DEF AllocateBuffer, WaitFirst, WaitSecond, WaitLast
<1>5. ASSUME NEW t \in Threads, ReturnToPool(t)
      PROVE  Conserved'
  <2>1. Holders' = Holders
    BY <1>5 DEF ReturnToPool, CheckFlowState, Holders, Goto, TypeInv
  <2>2. FreeBuffers' + out' = FreeBuffers + out
    BY <1>5 DEF ReturnToPool, TypeInv
  <2> QED BY <1>2, <2>1, <2>2
\* The caller has the buffer: its thread is no longer the holder.
<1>6. ASSUME NEW t \in Threads, Got(t)
      PROVE  Conserved'
  <2>1. t \in Holders
    BY <1>6 DEF Got, Holders
  <2>2. Holders' = Holders \ {t}
    BY <1>6 DEF Got, Holders, Goto, localVars, TypeInv
  <2>3. Cardinality(Holders') = Cardinality(Holders) - 1
    BY <1>0, <2>1, <2>2, FS_RemoveElement
  <2>4. FreeBuffers' = FreeBuffers /\ out' = out + 1
    BY <1>6 DEF Got
  <2> QED BY <1>0, <2>3, <2>4 DEF Conserved, TypeInv
<1>7. ASSUME NEW t \in Threads,
             \/ WaitClear(t) \/ WaitOk(t) \/ WaitTimeout(t) \/ LastDitchState(t)
             \/ LastDitch(t) \/ ReturnEvent(t)
      PROVE  Conserved'
  <2>1. Holders' = Holders
    BY <1>7 DEF WaitClear, WaitOk, WaitTimeout, LastDitchState, LastDitch,
                ReturnEvent, Holders, Goto, localVars, TypeInv
  <2> QED BY <1>2, <1>7, <2>1 DEF WaitClear, WaitOk, WaitTimeout, LastDitchState,
                                  LastDitch, ReturnEvent
<1>8. ASSUME NEW t \in Threads, ReportCheck(t) \/ ReportCall(t)
      PROVE  Conserved'
  <2>1. Holders' = Holders
    BY <1>8 DEF ReportCheck, ReportCall, Holders, Goto, localVars, TypeInv
  <2> QED BY <1>2, <1>8, <2>1 DEF ReportCheck, ReportCall
<1>9. CASE UNCHANGED vars
  <2>1. Holders' = Holders
    BY <1>9 DEF vars, localVars, Holders
  <2> QED BY <1>2, <1>9, <2>1 DEF vars
<1> QED BY <1>4, <1>5, <1>6, <1>7, <1>8, <1>9 DEF Next

\* The bounds of TypeOK follow from conservation.
LEMMA BoundsStep ==
  ASSUME TypeOK, TypeInv, Conserved, TypeInv', Conserved', [Next]_vars
  PROVE  TypeOK'
<1> USE LimitsAssumption
<1>1. Cardinality(Holders) \in Nat
  BY HoldersFinite, FS_CardinalityType
<1>2. Cardinality(Holders') \in Nat
  <2>1. IsFiniteSet(Holders')
    BY HoldersFinite, FS_Subset DEF Holders
  <2> QED BY <2>1, FS_CardinalityType
<1>3. FreeBuffers' \in 0..MaxBuffers /\ out' \in 0..MaxBuffers
  BY <1>2 DEF TypeInv, Conserved
<1>4. count' \in [Threads -> 0..MaxBuffers]
  <2>1. ASSUME NEW t \in Threads, ReturnToPool(t)
        PROVE  count' \in [Threads -> 0..MaxBuffers]
    <3>1. FreeBuffers + 1 \in 0..MaxBuffers
      BY <1>1, <2>1 DEF ReturnToPool, Conserved, TypeInv
    <3> QED BY <2>1, <3>1 DEF ReturnToPool, TypeOK
  <2>2. ASSUME NEW t \in Threads, ReturnEvent(t)
        PROVE  count' \in [Threads -> 0..MaxBuffers]
    BY <2>2 DEF ReturnEvent, TypeOK
  <2>3. ASSUME UNCHANGED count
        PROVE  count' \in [Threads -> 0..MaxBuffers]
    BY <2>3 DEF TypeOK
  <2>4. ASSUME NEW t \in Threads,
               \/ AllocateBuffer(t) \/ WaitFirst(t) \/ WaitSecond(t) \/ WaitLast(t)
               \/ WaitClear(t) \/ WaitOk(t) \/ WaitTimeout(t) \/ Got(t)
               \/ LastDitchState(t) \/ LastDitch(t) \/ ReportCheck(t) \/ ReportCall(t)
        PROVE  UNCHANGED count
    BY <2>4 DEF AllocateBuffer, WaitFirst, WaitSecond, WaitLast, WaitClear, WaitOk,
                WaitTimeout, Got, LastDitchState, LastDitch, ReportCheck, ReportCall,
                Take, Fail, localVars
  <2>5. CASE UNCHANGED vars
    BY <2>3, <2>5 DEF vars, localVars
  <2> QED BY <2>1, <2>2, <2>3, <2>4, <2>5 DEF Next
<1> QED BY <1>3, <1>4 DEF TypeOK, TypeInv
-----------------------------------------------------------------------------
(* A single waiter.                                                        *)

\* Where a thread can be while it waits for a buffer, or returns one.
WaitSteps ==
  \A t \in Threads : pc[t] \in {"first", "clear", "second", "wait", "last"} => t \in Waiters

CountSteps ==
  \A t \in Threads : count[t] # 0 =>
    /\ pc[t] \in {"check", "call", "ditch", "ditch2", "event"}
    /\ pc[t] \in {"check", "call"} => next[t] \in {"ditch", "event"}

LEMMA StepsStep ==
  ASSUME TypeInv, WaitSteps, CountSteps, [Next]_vars
  PROVE  WaitSteps' /\ CountSteps'
<1> USE DEF TypeInv, WaitSteps, CountSteps
<1>1. ASSUME NEW t \in Threads, count[t] = 0, Take(t)
      PROVE  WaitSteps' /\ CountSteps'
  BY <1>1 DEF Take, CheckFlowState, Goto
<1>2. ASSUME NEW t \in Threads, count[t] = 0, NEW step,
             t \in Waiters \/ step = "idle", Fail(t, step)
      PROVE  WaitSteps' /\ CountSteps'
  BY <1>2 DEF Fail, Goto, localVars
<1>3. ASSUME NEW t \in Threads, AllocateBuffer(t)
      PROVE  WaitSteps' /\ CountSteps'
  BY <1>1, <1>2, <1>3 DEF AllocateBuffer
<1>4. ASSUME NEW t \in Threads, WaitFirst(t) \/ WaitSecond(t) \/ WaitLast(t)
      PROVE  WaitSteps' /\ CountSteps'
  BY <1>1, <1>2, <1>4 DEF WaitFirst, WaitSecond, WaitLast
<1>5. ASSUME NEW t \in Threads, WaitClear(t) \/ WaitOk(t) \/ WaitTimeout(t) \/ Got(t)
      PROVE  WaitSteps' /\ CountSteps'
  BY <1>5 DEF WaitClear, WaitOk, WaitTimeout, Got, Goto, localVars
<1>6. ASSUME NEW t \in Threads, ReturnToPool(t)
      PROVE  WaitSteps' /\ CountSteps'
  BY <1>6 DEF ReturnToPool, CheckFlowState, Goto
<1>7. ASSUME NEW t \in Threads, LastDitchState(t) \/ LastDitch(t) \/ ReturnEvent(t)
      PROVE  WaitSteps' /\ CountSteps'
  BY <1>7 DEF LastDitchState, LastDitch, ReturnEvent, Goto, localVars
<1>8. ASSUME NEW t \in Threads, ReportCheck(t) \/ ReportCall(t)
      PROVE  WaitSteps' /\ CountSteps'
  BY <1>8 DEF ReportCheck, ReportCall, Goto, localVars
<1>9. CASE UNCHANGED vars
  BY <1>9 DEF vars, localVars
<1> QED BY <1>3, <1>4, <1>5, <1>6, <1>7, <1>8, <1>9 DEF Next

\* With one waiter, the clear of the event cannot hit another one's wakeup.
LEMMA NoStrandedWaiterStep ==
  ASSUME \A a, b \in Waiters : a = b,
         TypeInv, WaitSteps, CountSteps, NoStrandedWaiter, [Next]_vars
  PROVE  NoStrandedWaiter'
<1> USE DEF TypeInv
<1> DEFINE Asleep == \E t \in Threads : pc[t] = "wait"
<1> SUFFICES ASSUME Asleep', ~EmptyEvent', FreeBuffers' > 0
             PROVE  \E t \in Threads : Setter(t)'
  BY DEF NoStrandedWaiter
<1>0. Asleep /\ ~EmptyEvent /\ FreeBuffers > 0 => \E t \in Threads : Setter(t)
  BY DEF NoStrandedWaiter
\* A setter u is not disturbed by a step of another thread t.
<1>1. ASSUME NEW t \in Threads, NEW u \in Threads, u # t, Setter(u),
             NEW p, pc' = [pc EXCEPT ![t] = p],
             NEW n, count' = [count EXCEPT ![t] = n]
      PROVE  Setter(u)'
  BY <1>1 DEF Setter
\* A step of a thread outside IPC_BufferReturnToPool that adds no sleeper to
\* a pool with buffers leaves a setter where there was one.
<1>2. ASSUME NEW t \in Threads,
             pc[t] \notin {"check", "call", "ditch", "ditch2", "event"},
             NEW p, pc' = [pc EXCEPT ![t] = p], p # "wait",
             UNCHANGED <<count, EmptyEvent>>,
             FreeBuffers' \in {FreeBuffers, FreeBuffers - 1}
      PROVE  \E u \in Threads : Setter(u)'
  <2>1. Asleep
    BY <1>2
  <2>0. FreeBuffers > 0
    BY <1>2
  <2>2. PICK u \in Threads : Setter(u)
    BY <1>0, <1>2, <2>0, <2>1
  <2>3. u # t
    BY <1>2, <2>2 DEF Setter
  <2>4. count' = [count EXCEPT ![t] = count[t]]
    BY <1>2
  <2> QED BY <1>1, <1>2, <2>2, <2>3, <2>4
<1>3. ASSUME NEW t \in Threads,
             pc[t] \notin {"check", "call", "ditch", "ditch2", "event"}, Take(t)
      PROVE  \E u \in Threads : Setter(u)'
  <2>0. \/ pc' = [pc EXCEPT ![t] = "check"]
        \/ pc' = [pc EXCEPT ![t] = "got"]
    BY <1>3 DEF Take, CheckFlowState, Goto
  <2>1. PICK p : pc' = [pc EXCEPT ![t] = p] /\ p # "wait"
    BY <2>0
  <2> QED BY <1>2, <1>3, <2>1 DEF Take
<1>4. ASSUME NEW t \in Threads, NEW step, Fail(t, step)
      PROVE  FALSE
  BY <1>4 DEF Fail
<1>5. ASSUME NEW t \in Threads,
             \/ AllocateBuffer(t) \/ WaitFirst(t) \/ WaitSecond(t) \/ WaitLast(t)
      PROVE  \E u \in Threads : Setter(u)'
  BY <1>3, <1>4, <1>5 DEF AllocateBuffer, WaitFirst, WaitSecond, WaitLast
<1>6. ASSUME NEW t \in Threads, WaitOk(t) \/ WaitTimeout(t) \/ Got(t)
      PROVE  \E u \in Threads : Setter(u)'
  <2>1. PICK p : pc' = [pc EXCEPT ![t] = p] /\ p # "wait"
    BY <1>6 DEF WaitOk, WaitTimeout, Got, Goto
  <2> QED BY <1>2, <1>6, <2>1 DEF WaitOk, WaitTimeout, Got, localVars
\* The only waiter is clearing the event, so nobody sleeps.
<1>7. ASSUME NEW t \in Threads, WaitClear(t)
      PROVE  FALSE
  <2>1. PICK u \in Threads : pc'[u] = "wait"
    OBVIOUS
  <2>2. u # t /\ pc[u] = "wait"
    BY <1>7, <2>1 DEF WaitClear, Goto
  <2> QED BY <1>7, <2>2 DEF WaitClear, WaitSteps
\* The first buffer makes its returner a setter; a later one finds one.
<1>8. ASSUME NEW t \in Threads, ReturnToPool(t)
      PROVE  \E u \in Threads : Setter(u)'
  <2>1. PICK p : pc' = [pc EXCEPT ![t] = p] /\ p \in {"check", "ditch"}
    BY <1>8 DEF ReturnToPool, CheckFlowState, Goto
  <2>2. CASE FreeBuffers = 0
    <3>1. Setter(t)'
      BY <1>8, <2>1, <2>2 DEF ReturnToPool, Setter
    <3> QED BY <3>1
  <2>3. CASE FreeBuffers # 0
    <3>1. Asleep
      BY <2>1
    <3>2. PICK u \in Threads : Setter(u)
      BY <1>0, <1>8, <2>3, <3>1 DEF ReturnToPool
    <3>3. u # t
      BY <1>8, <3>2 DEF ReturnToPool, Setter
    <3> QED BY <1>1, <1>8, <2>1, <3>2, <3>3 DEF ReturnToPool
  <2> QED BY <2>2, <2>3
\* A returner on its way through the report stays a setter.
<1>9. ASSUME NEW t \in Threads,
             \/ LastDitchState(t) \/ LastDitch(t) \/ ReportCheck(t) \/ ReportCall(t)
      PROVE  \E u \in Threads : Setter(u)'
  <2>1. UNCHANGED <<count, EmptyEvent, FreeBuffers>>
    BY <1>9 DEF LastDitchState, LastDitch, ReportCheck, ReportCall, localVars
  <2>2. PICK p : pc' = [pc EXCEPT ![t] = p] /\ p # "wait"
    BY <1>9 DEF LastDitchState, LastDitch, ReportCheck, ReportCall, Goto
  <2>3. Asleep
    BY <2>2
  <2>4. PICK u \in Threads : Setter(u)
    BY <1>0, <2>1, <2>3
  <2>5. CASE u = t
    <3>1. Setter(t)'
      BY <1>9, <2>4, <2>5 DEF LastDitchState, LastDitch, ReportCheck, ReportCall,
                              Goto, localVars, Setter, CountSteps
    <3> QED BY <3>1
  <2>6. CASE u # t
    <3>1. count' = [count EXCEPT ![t] = count[t]]
      BY <2>1
    <3> QED BY <1>1, <2>2, <2>4, <2>6, <3>1
  <2> QED BY <2>5, <2>6
<1>10. ASSUME NEW t \in Threads, ReturnEvent(t)
       PROVE  \E u \in Threads : Setter(u)'
  <2>1. count[t] # 1 /\ ~EmptyEvent
    BY <1>10 DEF ReturnEvent
  <2>2. Asleep
    BY <1>10 DEF ReturnEvent, Goto
  <2>3. PICK u \in Threads : Setter(u)
    BY <1>0, <1>10, <2>1, <2>2 DEF ReturnEvent
  <2>4. u # t
    BY <2>1, <2>3 DEF Setter
  <2> QED BY <1>1, <1>10, <2>3, <2>4 DEF ReturnEvent, Goto
<1>11. CASE UNCHANGED vars
  BY <1>0, <1>11 DEF vars, localVars, Setter
<1> QED BY <1>5, <1>6, <1>7, <1>8, <1>9, <1>10, <1>11 DEF Next
-----------------------------------------------------------------------------
(* The theorems.                                                           *)

\* The part of the inductive invariant that needs no assumption on threads.
IInv == TypeInv /\ TypeOK /\ Conserved /\ StateMatchesLevel /\ NoLostReport

LEMMA Initially ==
  ASSUME Init
  PROVE  IInv /\ WaitSteps /\ CountSteps /\ NoStrandedWaiter
<1> USE LimitsAssumption DEF Init
<1>1. TypeInv
  BY DEF TypeInv, Flow, Steps
<1>2. TypeOK
  <2>1. 0 \in 0..MaxBuffers /\ MaxBuffers \in 0..MaxBuffers
    OBVIOUS
  <2>2. count \in [Threads -> 0..MaxBuffers]
    BY <2>1
  <2> QED BY <1>1, <2>1, <2>2 DEF TypeOK, TypeInv
<1>3. Conserved
  <2>1. Holders = {}
    BY DEF Holders
  <2> QED BY <2>1, FS_EmptySet DEF Conserved
<1>4. StateMatchesLevel
  BY DEF StateMatchesLevel
<1>5. NoLostReport
  BY DEF NoLostReport
<1>6. WaitSteps /\ CountSteps /\ NoStrandedWaiter
  BY DEF WaitSteps, CountSteps, NoStrandedWaiter
<1> QED BY <1>1, <1>2, <1>3, <1>4, <1>5, <1>6 DEF IInv

LEMMA Invariance ==
  SafeSpec => []IInv
<1>1. Init => IInv
  BY Initially
<1>2. IInv /\ [Next]_vars => IInv'
  BY TypeInvStep, BoundsStep, ConservedStep, StateMatchesLevelStep, NoLostReportStep
     DEF IInv
<1> QED BY <1>1, <1>2, PTL DEF SafeSpec

\* Every variable of the pool keeps its type; FreeBuffers never leaves
\* 0..MaxBuffers (IPC_AllocateBuffer, IPC_BufferReturnToPool).
THEOREM TypeCorrect ==
  SafeSpec => []TypeOK
<1>1. IInv => TypeOK
  BY DEF IInv
<1> QED BY <1>1, Invariance, PTL

\* The counter FreeBuffers loses and invents no buffer, however many threads
\* allocate and return.
THEOREM BuffersConserved ==
  SafeSpec => []Conserved
<1>1. IInv => Conserved
  BY DEF IInv
<1> QED BY <1>1, Invariance, PTL

\* FlowControlState is the hysteresis of FreeBuffers between the two limits.
THEOREM FlowStateCorrect ==
  SafeSpec => []StateMatchesLevel
<1>1. IInv => StateMatchesLevel
  BY DEF IInv
<1> QED BY <1>1, Invariance, PTL

\* IPC_ReportFlowControlEvent loses no change of the flow-control state, for
\* any number of threads and in spite of the last-ditch report, which runs
\* without FlowControlCallPending.
THEOREM ReportsNotLost ==
  SafeSpec => []NoLostReport
<1>1. IInv => NoLostReport
  BY DEF IInv
<1> QED BY <1>1, Invariance, PTL

\* IPC_AllocateBufferWait is safe when one thread waits on the pool: it never
\* sleeps on a cleared event while there is a buffer and nobody to set it.
THEOREM OneWaiterSafe ==
  ASSUME \A a, b \in Waiters : a = b
  PROVE  SafeSpec => []NoStrandedWaiter
<1> DEFINE WInv == TypeInv /\ WaitSteps /\ CountSteps /\ NoStrandedWaiter
<1>1. Init => WInv
  BY Initially DEF IInv
<1>2. WInv /\ [Next]_vars => WInv'
  BY TypeInvStep, StepsStep, NoStrandedWaiterStep
<1>3. WInv => NoStrandedWaiter
  OBVIOUS
<1> QED BY <1>1, <1>2, <1>3, PTL DEF SafeSpec
=============================================================================
