--------------------------- MODULE IpcBufferPool ---------------------------
(***************************************************************************)
(* One buffer pool of fuse_ipc (ipc_bufferpool.c): the count of its free   *)
(* buffers, the flow-control state with its two thresholds, the protocol   *)
(* by which one of several threads reports a change of that state to the   *)
(* pool's user, and the event on which an allocation waits for a buffer.   *)
(*                                                                         *)
(* All threads run on the CPU that owns the pool.  A critical region is    *)
(* one step; a thread can be preempted between any two steps, and so can   *)
(* the reads the code makes outside a region.  Statistics (Allocations,    *)
(* AllocationFailures, LowWaterMark, Flow*Calls) are left out.             *)
(***************************************************************************)
EXTENDS Integers, FiniteSets

CONSTANTS
  Allocators,    \* threads that call IPC_AllocateBuffer
  Waiters,       \* threads that call IPC_AllocateBufferWait
  Timed,         \* the waiters that give a timeout
  Returners,     \* threads that call IPC_BufferReturnToPool
  MaxBuffers, FlowStartLimit, FlowStopLimit,
  HasCallback    \* the source endpoint has a FlowControlFunction

\* What IPC_CreateBufferPoolWithDescriptor demands, and Stop < Start, which it
\* does not check but every pool of rpc_ipc_config.h satisfies.
ASSUME LimitsAssumption ==
  /\ MaxBuffers \in Nat /\ FlowStartLimit \in Nat /\ FlowStopLimit \in Nat
  /\ FlowStopLimit < FlowStartLimit
  /\ FlowStartLimit <= MaxBuffers
  /\ HasCallback \in BOOLEAN
  /\ Timed \subseteq Waiters
  /\ IsFiniteSet(Allocators) /\ IsFiniteSet(Waiters) /\ IsFiniteSet(Returners)

Threads == Allocators \cup Waiters \cup Returners

VARIABLES
  FreeBuffers,
  FlowControlState,
  FlowControlCallPending,
  EmptyEvent,     \* the flag of the pool's event
  told,           \* what the FlowControlFunction was last called with
  out,            \* buffers in the hands of the pool's users
  pc,             \* next step of each thread
  said,           \* Event, later ReportedFlowControlState, of a reporter
  next,           \* where a reporter goes on when its report is done
  count           \* BufferCount of a returner

flowVars == <<FlowControlState, FlowControlCallPending>>
localVars == <<said, next, count>>
vars == <<FreeBuffers, flowVars, EmptyEvent, told, out, pc, localVars>>

Flow == {"START", "STOP"}

\* IPC_CreateBufferPoolWithDescriptor.
Init ==
  /\ FreeBuffers = MaxBuffers
  /\ FlowControlState = "START"
  /\ FlowControlCallPending = FALSE
  /\ EmptyEvent = FALSE
  /\ told = "START"
  /\ out = 0
  /\ pc = [t \in Threads |-> "idle"]
  /\ said = [t \in Threads |-> "START"]
  /\ next = [t \in Threads |-> "idle"]
  /\ count = [t \in Threads |-> 0]

Goto(t, step) == pc' = [pc EXCEPT ![t] = step]
-----------------------------------------------------------------------------
(* Flow control.                                                           *)

\* Seeded fault: the macro leaves the state alone while a call is pending.
CheckFlowStateUnlessPending(t, hit, new, step) ==
  LET needed == hit /\ FlowControlState # new /\ ~FlowControlCallPending
  IN  /\ FlowControlState' = IF needed THEN new ELSE FlowControlState
      /\ FlowControlCallPending' = (FlowControlCallPending \/ needed)
      /\ Goto(t, IF needed THEN "check" ELSE step)
      /\ said' = [said EXCEPT ![t] = IF needed THEN new ELSE @]
      /\ next' = [next EXCEPT ![t] = IF needed THEN step ELSE @]

\* CHECK_FLOW_STATE when the count has hit a limit, then the call of
\* IPC_ReportFlowControlEvent if one is needed; t goes on at step.
CheckFlowState(t, hit, new, step) ==
  LET needed == hit /\ FlowControlState # new /\ ~FlowControlCallPending
  IN  /\ FlowControlState' = IF hit THEN new ELSE FlowControlState
      /\ FlowControlCallPending' = (FlowControlCallPending \/ needed)
      /\ Goto(t, IF needed THEN "check" ELSE step)
      /\ said' = [said EXCEPT ![t] = IF needed THEN new ELSE @]
      /\ next' = [next EXCEPT ![t] = IF needed THEN step ELSE @]

\* IPC_ReportFlowControlEvent, first region: has the state changed back?
ReportCheck(t) ==
  /\ pc[t] = "check"
  /\ IF ~HasCallback \/ said[t] # FlowControlState
       THEN /\ FlowControlCallPending' = FALSE
            /\ Goto(t, next[t])
       ELSE /\ Goto(t, "call")
            /\ UNCHANGED FlowControlCallPending
  /\ UNCHANGED <<FreeBuffers, FlowControlState, EmptyEvent, told, out, localVars>>

\* Seeded fault: one callback and no look at the state after it.
ReportCallOnce(t) ==
  /\ pc[t] = "call"
  /\ told' = said[t]
  /\ FlowControlCallPending' = FALSE
  /\ Goto(t, next[t])
  /\ UNCHANGED <<FreeBuffers, FlowControlState, EmptyEvent, out, localVars>>

\* Seeded fault: the callback is made outside the region (the "Linux Issue").
ReportCallOutside(t) ==
  /\ pc[t] = "call"
  /\ told' = said[t]
  /\ IF told = said[t] /\ said[t] = FlowControlState
       THEN /\ FlowControlCallPending' = FALSE
            /\ Goto(t, next[t])
            /\ UNCHANGED said
       ELSE /\ said' = [said EXCEPT ![t] = IF told = said[t] THEN FlowControlState ELSE @]
            /\ UNCHANGED <<FlowControlCallPending, pc>>
  /\ UNCHANGED <<FreeBuffers, FlowControlState, EmptyEvent, out, next, count>>

\* Second region, one turn of the loop: the callback and the test whether
\* the state it reported is still the state.
ReportCall(t) ==
  /\ pc[t] = "call"
  /\ told' = said[t]
  /\ IF said[t] = FlowControlState
       THEN /\ FlowControlCallPending' = FALSE
            /\ Goto(t, next[t])
            /\ UNCHANGED said
       ELSE /\ said' = [said EXCEPT ![t] = FlowControlState]
            /\ UNCHANGED <<FlowControlCallPending, pc>>
  /\ UNCHANGED <<FreeBuffers, FlowControlState, EmptyEvent, out, next, count>>
-----------------------------------------------------------------------------
(* IPC_AllocateBuffer: its critical region, and what follows a success.    *)

\* Seeded fault: the count is not taken down.
TakeUncounted(t) ==
  /\ FreeBuffers > 0
  /\ CheckFlowState(t, FreeBuffers = FlowStopLimit, "STOP", "got")
  /\ UNCHANGED <<FreeBuffers, EmptyEvent, told, out, count>>

Take(t) ==
  /\ FreeBuffers > 0
  /\ FreeBuffers' = FreeBuffers - 1
  /\ CheckFlowState(t, FreeBuffers - 1 = FlowStopLimit, "STOP", "got")
  /\ UNCHANGED <<EmptyEvent, told, out, count>>

\* An empty pool is in flow stop, which nobody is told here.
Fail(t, step) ==
  /\ FreeBuffers = 0
  /\ FlowControlState' = "STOP"
  /\ Goto(t, step)
  /\ UNCHANGED <<FreeBuffers, FlowControlCallPending, EmptyEvent, told, out, localVars>>

Got(t) ==
  /\ pc[t] = "got"
  /\ out' = out + 1
  /\ Goto(t, "idle")
  /\ UNCHANGED <<FreeBuffers, flowVars, EmptyEvent, told, localVars>>

AllocateBuffer(t) ==
  /\ t \in Allocators
  /\ pc[t] = "idle"
  /\ Take(t) \/ Fail(t, "idle")
-----------------------------------------------------------------------------
(* IPC_AllocateBufferWait.                                                 *)

\* "Try straight allocate first".
WaitFirst(t) ==
  /\ t \in Waiters
  /\ pc[t] \in {"idle", "first"}
  /\ Take(t) \/ Fail(t, "clear")

\* Seeded fault: no second allocation between the clear and the wait.
WaitClearOnly(t) ==
  /\ pc[t] = "clear"
  /\ EmptyEvent' = FALSE
  /\ Goto(t, "wait")
  /\ UNCHANGED <<FreeBuffers, flowVars, told, out, localVars>>

\* "Clear event before waiting on it".
WaitClear(t) ==
  /\ pc[t] = "clear"
  /\ EmptyEvent' = FALSE
  /\ Goto(t, "second")
  /\ UNCHANGED <<FreeBuffers, flowVars, told, out, localVars>>

\* "Check in case the event was set before the clear".
WaitSecond(t) ==
  /\ pc[t] = "second"
  /\ Take(t) \/ Fail(t, "wait")

\* Seeded fault: the sleeper that is woken goes back to sleep.
WaitOkAgain(t) ==
  /\ pc[t] = "wait"
  /\ EmptyEvent
  /\ UNCHANGED vars

\* EventWait returns IPC_OK: the sleeper saw the flag set when it ran.
\* A waiter with a timeout may find its time used up.
WaitOk(t) ==
  /\ pc[t] = "wait"
  /\ EmptyEvent
  /\ \/ Goto(t, "first")
     \/ t \in Timed /\ Goto(t, "last")
  /\ UNCHANGED <<FreeBuffers, flowVars, EmptyEvent, told, out, localVars>>

WaitTimeout(t) ==
  /\ pc[t] = "wait"
  /\ t \in Timed
  /\ Goto(t, "last")
  /\ UNCHANGED <<FreeBuffers, flowVars, EmptyEvent, told, out, localVars>>

WaitLast(t) ==
  /\ pc[t] = "last"
  /\ Take(t) \/ Fail(t, "idle")
-----------------------------------------------------------------------------
(* IPC_BufferReturnToPool.                                                 *)

ReturnToPool(t) ==
  /\ t \in Returners
  /\ pc[t] = "idle"
  /\ out > 0
  /\ out' = out - 1
  /\ FreeBuffers' = FreeBuffers + 1
  /\ count' = [count EXCEPT ![t] = FreeBuffers + 1]
  /\ CheckFlowState(t, FreeBuffers + 1 = FlowStartLimit, "START", "ditch")
  /\ UNCHANGED <<EmptyEvent, told>>

\* "Last ditch check - should never happen": first the state is read, ...
LastDitchState(t) ==
  /\ pc[t] = "ditch"
  /\ Goto(t, IF FlowControlState = "STOP" THEN "ditch2" ELSE "event")
  /\ UNCHANGED <<FreeBuffers, flowVars, EmptyEvent, told, out, localVars>>

\* ... then the pending flag, and BufferCount from the region long left.
LastDitch(t) ==
  /\ pc[t] = "ditch2"
  /\ IF ~FlowControlCallPending /\ FlowStartLimit < count[t]
       THEN /\ Goto(t, "check")
            /\ said' = [said EXCEPT ![t] = "START"]
            /\ next' = [next EXCEPT ![t] = "event"]
       ELSE Goto(t, "event") /\ UNCHANGED <<said, next>>
  /\ UNCHANGED <<FreeBuffers, flowVars, EmptyEvent, told, out, count>>

\* "For IPC_AllocateBufferWait": only the first buffer sets the event.
ReturnEvent(t) ==
  /\ pc[t] = "event"
  /\ EmptyEvent' = (EmptyEvent \/ count[t] = 1)
  /\ count' = [count EXCEPT ![t] = 0]
  /\ Goto(t, "idle")
  /\ UNCHANGED <<FreeBuffers, flowVars, told, out, said, next>>
-----------------------------------------------------------------------------
\* What thread t does once it is inside a call.
Continue(t) ==
  \/ ReportCheck(t) \/ ReportCall(t) \/ Got(t)
  \/ WaitClear(t) \/ WaitSecond(t) \/ WaitOk(t) \/ WaitLast(t)
  \/ pc[t] = "first" /\ WaitFirst(t)
  \/ LastDitchState(t) \/ LastDitch(t) \/ ReturnEvent(t)

Next ==
  \/ \E t \in Threads : AllocateBuffer(t)
  \/ \E t \in Threads : WaitFirst(t)
  \/ \E t \in Threads : WaitClear(t)
  \/ \E t \in Threads : WaitSecond(t)
  \/ \E t \in Threads : WaitOk(t)
  \/ \E t \in Threads : WaitTimeout(t)
  \/ \E t \in Threads : WaitLast(t)
  \/ \E t \in Threads : Got(t)
  \/ \E t \in Threads : ReturnToPool(t)
  \/ \E t \in Threads : LastDitchState(t)
  \/ \E t \in Threads : LastDitch(t)
  \/ \E t \in Threads : ReturnEvent(t)
  \/ \E t \in Threads : ReportCheck(t)
  \/ \E t \in Threads : ReportCall(t)

SafeSpec == Init /\ [][Next]_vars

\* The scheduler runs every runnable thread; nobody is obliged to start a
\* call, in particular to give a buffer back.
Fairness == \A t \in Threads : WF_vars(Continue(t))

Spec == SafeSpec /\ Fairness
-----------------------------------------------------------------------------
(* Properties.                                                             *)

Steps == {"idle", "check", "call", "got", "first", "clear", "second", "wait",
          "last", "ditch", "ditch2", "event"}

\* Types: the counts of IPC_AllocateBuffer and IPC_BufferReturnToPool stay
\* between zero and the size of the pool.
TypeOK ==
  /\ FreeBuffers \in 0..MaxBuffers
  /\ FlowControlState \in Flow
  /\ FlowControlCallPending \in BOOLEAN
  /\ EmptyEvent \in BOOLEAN
  /\ told \in Flow
  /\ out \in 0..MaxBuffers
  /\ pc \in [Threads -> Steps]
  /\ said \in [Threads -> Flow]
  /\ next \in [Threads -> {"idle", "got", "ditch", "event"}]
  /\ count \in [Threads -> 0..MaxBuffers]

\* Threads that have taken a buffer and not yet returned it to their caller.
Holders ==
  {t \in Threads : pc[t] = "got" \/ (pc[t] \in {"check", "call"} /\ next[t] = "got")}

\* FreeBuffers, which the code keeps beside the queue it counts, agrees with
\* it: every buffer of the pool is free, with a user or on its way to one.
Conserved == FreeBuffers + out + Cardinality(Holders) = MaxBuffers

\* The flow-control state is a hysteresis of the buffer count, although it
\* is only touched when the count equals a limit: a pool in flow start has
\* more than FlowStopLimit buffers, one in flow stop fewer than
\* FlowStartLimit.  An empty pool is therefore always in flow stop already.
StateMatchesLevel ==
  /\ FlowControlState = "START" => FreeBuffers > FlowStopLimit
  /\ FlowControlState = "STOP" => FreeBuffers < FlowStartLimit

\* Thread t is going to call the callback, or is about to find that what
\* it came to report is not news.
Reporting(t) == pc[t] = "call" \/ (pc[t] = "check" /\ said[t] # told)

\* No change of the flow-control state is lost: when the user was last told
\* something else than the state, or a call is marked pending, some thread
\* is on its way to the callback.
NoLostReport ==
  HasCallback /\ (told # FlowControlState \/ FlowControlCallPending)
    => \E t \in Threads : Reporting(t)

\* A waiter never sleeps on a cleared event while the pool has a buffer,
\* unless the thread that returned the first one has yet to set the event.
\* ("Now can safely wait for the event to be set by the buffer free".)
Setter(t) ==
  /\ count[t] = 1
  /\ pc[t] \in {"check", "call", "ditch", "ditch2", "event"}
NoStrandedWaiter ==
  (\E t \in Threads : pc[t] = "wait") /\ ~EmptyEvent /\ FreeBuffers > 0
    => \E t \in Threads : Setter(t)

\* A waiter does not sleep for ever on a pool that has buffers from some
\* moment on ("Now can safely wait for the event ...", ipc_bufferpool.c:618).
NoWaiterSleepsOnBuffers ==
  \A t \in Threads : ~<>[](pc[t] = "wait" /\ FreeBuffers > 0)
=============================================================================
