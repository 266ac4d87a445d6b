------------------------------ MODULE RpcSync ------------------------------
(***************************************************************************)
(* The synchronous calls of fuse_rpc (rpc_sync.c).  A task takes a         *)
(* transaction id, enters it in its slot of sTaskRequestMap, sends its     *)
(* request to the CP and sleeps on two semaphores, one for the CP's ack    *)
(* and one for its response.  One thread of the AP (the IPC work item,     *)
(* through RPC_BufferDelivery and RPC_DispatchMsg of rpc_sys.c) takes the  *)
(* CP's messages in the order they were sent and finds the slot by the id. *)
(*                                                                         *)
(* semaTaskReq guards the id counter and the search for a free slot, and   *)
(* nothing else: the message thread works on a slot without excluding the  *)
(* task that owns it.  A wait ends after 60 seconds; the assertions that   *)
(* fail then only log and report to the CP (CAPI2_Assert), so a call that  *)
(* has timed out returns, and its answer may still come.                   *)
(*                                                                         *)
(* Calls are numbered for the model's sake: ackOf, result, data and        *)
(* dataBufHandle hold the number of the call an ack, a response or a       *)
(* buffer belongs to.  Message types and sizes are left out.  The message  *)
(* thread stores an ack, or a result, in one step: a task sees the parts   *)
(* one by one only if its wait timed out, and then it need not see any.    *)
(***************************************************************************)
EXTENDS Integers, Sequences, FiniteSets

CONSTANTS
  Tasks,          \* task ids; an id is used again after its task has ended
  NoTask,         \* the null task of an unused slot
  MAX_TASKS_NUM,  \* slots of sTaskRequestMap: 20
  TidMod,         \* ids are UInt32: 2^32
  MaxCalls,       \* bound: calls that are made
  MaxLate         \* bound: slots in which waits time out

ASSUME SyncAssumption ==
  /\ IsFiniteSet(Tasks) /\ NoTask \notin Tasks
  /\ MAX_TASKS_NUM \in Nat \ {0}
  /\ TidMod \in Nat /\ TidMod > 1
  /\ MaxCalls \in Nat /\ MaxLate \in Nat

Slots == 1..MAX_TASKS_NUM
Calls == 1..MaxCalls
Tids == 0..TidMod-1
CallOrNone == Calls \cup {0}

Steps == {"idle", "reset", "publish", "lock", "ack", "rsp", "readAck", "readRsp", "done"}

Message == [kind : {"ack", "rsp"}, tid : Tids, call : Calls, ok : BOOLEAN,
            pending : BOOLEAN]

\* RPC_TaskRequestMap_t.
Slot == [task : Tasks \cup {NoTask}, tid : Tids, ackSema : Nat, rspSema : Nat,
         ack : BOOLEAN, ackOf : CallOrNone, isResultPending : BOOLEAN,
         result : CallOrNone, data : CallOrNone, releaseC2Buf : BOOLEAN,
         dataBufHandle : CallOrNone]

VARIABLES
  sCurrTID,
  map,            \* sTaskRequestMap
  alive,          \* tasks that exist
  up,             \* FALSE: a null slot was dereferenced, and the AP panics
  pc,             \* next step of each task
  call, mytid,    \* its current call, and the tid of it
  slot,           \* the slot it works on
  ackRes, rspRes, \* the ack and the result it has read, by call number
  filled,         \* the response that was copied to its buffer
  locked,         \* it has called RPC_SyncLockResponseBuffer
  calls,          \* calls made so far
  cp,             \* what the CP has done with each call
  inbox,          \* messages of the CP under way to the AP
  hpc, hmsg, hslot, \* message thread: next step, its message, its slot
  late,           \* slots in which a wait has timed out
  stray,          \* slots whose response went to a call that had returned
  lost            \* slots that forgot a response buffer they still held

resultVars == <<ackRes, rspRes, filled, locked>>
taskVars == <<pc, call, mytid, slot, resultVars>>
handlerVars == <<hpc, hmsg, hslot>>
ghostVars == <<late, stray, lost>>
vars == <<sCurrTID, map, alive, up, taskVars, calls, cp, inbox, handlerVars,
          ghostVars>>

NoMsg == [kind |-> "none", tid |-> 0, call |-> 0, ok |-> FALSE, pending |-> FALSE]

NoAck == [of |-> 0, ok |-> FALSE, pending |-> FALSE]

EmptySlot ==
  [task |-> NoTask, tid |-> 0, ackSema |-> 0, rspSema |-> 0, ack |-> FALSE,
   ackOf |-> 0, isResultPending |-> FALSE, result |-> 0, data |-> 0,
   releaseC2Buf |-> TRUE, dataBufHandle |-> 0]

\* RPC_SyncInitialize.
Init ==
  /\ sCurrTID = 1
  /\ map = [s \in Slots |-> EmptySlot]
  /\ alive = {}
  /\ up = TRUE
  /\ pc = [t \in Tasks |-> "idle"]
  /\ call = [t \in Tasks |-> 0]
  /\ mytid = [t \in Tasks |-> 0]
  /\ slot = [t \in Tasks |-> 0]
  /\ ackRes = [t \in Tasks |-> NoAck]
  /\ rspRes = [t \in Tasks |-> 0]
  /\ filled = [t \in Tasks |-> 0]
  /\ locked = [t \in Tasks |-> FALSE]
  /\ calls = 0
  /\ cp = [c \in Calls |-> [st |-> "none", tid |-> 0]]
  /\ inbox = <<>>
  /\ hpc = "idle" /\ hmsg = NoMsg /\ hslot = 0
  /\ late = {} /\ stray = {} /\ lost = {}

First(S) == CHOOSE s \in S : \A x \in S : s <= x
Goto(t, step) == pc' = [pc EXCEPT ![t] = step]

\* Tasks come and go between calls; after the last call it makes no difference.
Spawn(t) ==
  /\ t \notin alive
  /\ calls < MaxCalls
  /\ alive' = alive \cup {t}
  /\ UNCHANGED <<sCurrTID, map, up, taskVars, calls, cp, inbox, handlerVars, ghostVars>>

Exit(t) ==
  /\ t \in alive
  /\ calls < MaxCalls
  /\ pc[t] = "idle"
  /\ alive' = alive \ {t}
  /\ UNCHANGED <<sCurrTID, map, up, taskVars, calls, cp, inbox, handlerVars, ghostVars>>
-----------------------------------------------------------------------------
(* RPC_SyncCreateTID.                                                      *)

\* The ids that a request, a message, a call or a slot still carries.
TidsInUse ==
  {cp[c].tid : c \in Calls} \cup {inbox[i].tid : i \in 1..Len(inbox)} \cup {hmsg.tid}
    \cup {map[s].tid : s \in Slots} \cup {mytid[t] : t \in Tasks}

\* Seeded fault: 0, the id of an unused slot, is not skipped.
NextTIDNoSkip == (sCurrTID + 1) % TidMod

NextTID == IF (sCurrTID + 1) % TidMod = 0 THEN 1 ELSE (sCurrTID + 1) % TidMod

\* The id is taken under semaTaskReq, and nobody else sees it before it is
\* published: the search for the slot can be part of the step.  2^32 calls
\* are never made while one of them, or an answer to it, is still about:
\* that is what the last guard stands for.
TakeTid(t) ==
  /\ t \in alive
  /\ pc[t] = "idle"
  /\ calls < MaxCalls
  /\ sCurrTID \notin TidsInUse
  /\ calls' = calls + 1
  /\ call' = [call EXCEPT ![t] = calls + 1]
  /\ mytid' = [mytid EXCEPT ![t] = sCurrTID]
  /\ sCurrTID' = NextTID

SlotsOf(t) == {s \in Slots : map[s].task = t}
FreeSlots == {s \in Slots : map[s].task = NoTask}
\* Seeded fault: slots are never taken back.
DeadSlotsNone == {}

DeadSlots == {s \in Slots : map[s].task \notin alive}

\* RPC_SyncInitTaskMap forgets the last call.
ResetSlot(s, t) ==
  /\ map' = [map EXCEPT ![s] =
              [EmptySlot EXCEPT !.task = t, !.ackSema = map[s].ackSema,
                                !.rspSema = map[s].rspSema]]
  /\ lost' = IF map[s].dataBufHandle # 0 THEN lost \cup {s} ELSE lost
  /\ Goto(t, "publish")

\* GetMapForCurrentTask finds the slot of an earlier call, which is reset.
FoundMap(t) ==
  /\ TakeTid(t)
  /\ SlotsOf(t) # {}
  /\ slot' = [slot EXCEPT ![t] = First(SlotsOf(t))]
  /\ ResetSlot(First(SlotsOf(t)), t)
  /\ UNCHANGED <<alive, up, resultVars, cp, inbox, handlerVars, late, stray>>

\* GetNewMapForCurrentTask finds a slot that was never used.
NewMap(t) ==
  /\ TakeTid(t)
  /\ SlotsOf(t) = {}
  /\ FreeSlots # {}
  /\ slot' = [slot EXCEPT ![t] = First(FreeSlots)]
  /\ ResetSlot(First(FreeSlots), t)
  /\ UNCHANGED <<alive, up, resultVars, cp, inbox, handlerVars, late, stray>>

\* Failing that, it takes over the first slot of a task that has ended, with
\* a new pair of semaphores; the old call is in the slot until the reset.
RecycleMap(t) ==
  /\ TakeTid(t)
  /\ SlotsOf(t) = {}
  /\ FreeSlots = {} /\ DeadSlots # {}
  /\ LET s == First(DeadSlots)
     IN  /\ map' = [map EXCEPT ![s].task = t, ![s].ackSema = 0, ![s].rspSema = 0]
         /\ slot' = [slot EXCEPT ![t] = s]
  /\ Goto(t, "reset")
  /\ UNCHANGED <<alive, up, resultVars, cp, inbox, handlerVars, ghostVars>>

\* No slot: the assertion logs, and the null pointer is dereferenced.
NoMap(t) ==
  /\ TakeTid(t)
  /\ SlotsOf(t) = {}
  /\ FreeSlots \cup DeadSlots = {}
  /\ up' = FALSE
  /\ UNCHANGED <<map, alive, pc, slot, resultVars, cp, inbox, handlerVars, ghostVars>>

ResetRecycled(t) ==
  /\ pc[t] = "reset"
  /\ ResetSlot(slot[t], t)
  /\ UNCHANGED <<sCurrTID, alive, up, call, mytid, slot, resultVars, calls, cp,
                 inbox, handlerVars, late, stray>>

SendRequest(t) ==
  /\ cp' = [cp EXCEPT ![call[t]] = [st |-> "asked", tid |-> mytid[t]]]
  /\ Goto(t, "ack")

\* RPC_SyncCreateTID enters the new call in the slot.  The caller sends its
\* request, at once or after it has locked the response buffer.
Publish(t) ==
  /\ pc[t] = "publish"
  /\ map' = [map EXCEPT ![slot[t]].tid = mytid[t], ![slot[t]].data = call[t]]
  /\ \/ SendRequest(t)
     \/ Goto(t, "lock") /\ UNCHANGED cp
  /\ UNCHANGED <<sCurrTID, alive, up, call, mytid, slot, resultVars, calls,
                 inbox, handlerVars, ghostVars>>

\* RPC_SyncLockResponseBuffer: the response is to be read in place.
LockResponseBuffer(t) ==
  /\ pc[t] = "lock"
  /\ locked' = [locked EXCEPT ![t] = TRUE]
  /\ map' = [map EXCEPT ![slot[t]].releaseC2Buf = FALSE]
  /\ SendRequest(t)
  /\ UNCHANGED <<sCurrTID, alive, up, call, mytid, slot, ackRes, rspRes,
                 filled, calls, inbox, handlerVars, ghostVars>>
-----------------------------------------------------------------------------
(* RPC_SyncWaitForResponse.                                                *)

\* Whether the semaphore came or the time-out, the code reads on.
ReadAck(t) ==
  LET m == map[slot[t]]
  IN  /\ ackRes' = [ackRes EXCEPT ![t] =
                      [of |-> m.ackOf, ok |-> m.ack, pending |-> m.isResultPending]]
      /\ Goto(t, IF m.ack /\ ~m.isResultPending THEN "rsp" ELSE "done")

ReadRsp(t) ==
  /\ rspRes' = [rspRes EXCEPT ![t] = map[slot[t]].result]
  /\ Goto(t, "done")

AckObtain(t) ==
  /\ pc[t] = "ack"
  /\ map[slot[t]].ackSema > 0
  /\ map' = [map EXCEPT ![slot[t]].ackSema = @ - 1]
  /\ ReadAck(t)
  /\ UNCHANGED <<sCurrTID, alive, up, call, mytid, slot, rspRes, filled, locked,
                 calls, cp, inbox, handlerVars, ghostVars>>

RspObtain(t) ==
  /\ pc[t] = "rsp"
  /\ map[slot[t]].rspSema > 0
  /\ map' = [map EXCEPT ![slot[t]].rspSema = @ - 1]
  /\ ReadRsp(t)
  /\ UNCHANGED <<sCurrTID, alive, up, call, mytid, slot, ackRes, filled,
                 locked, calls, cp, inbox, handlerVars, ghostVars>>

\* A time-out; the answer may come before the task reads what there is.
Timeout(t) ==
  /\ \/ pc[t] = "ack" /\ map[slot[t]].ackSema = 0 /\ Goto(t, "readAck")
     \/ pc[t] = "rsp" /\ map[slot[t]].rspSema = 0 /\ Goto(t, "readRsp")
  /\ late' = late \cup {slot[t]}
  /\ Cardinality(late') <= MaxLate
  /\ UNCHANGED <<sCurrTID, map, alive, up, call, mytid, slot, resultVars, calls,
                 cp, inbox, handlerVars, stray, lost>>

ReadLate(t) ==
  /\ \/ pc[t] = "readAck" /\ ReadAck(t) /\ UNCHANGED rspRes
     \/ pc[t] = "readRsp" /\ ReadRsp(t) /\ UNCHANGED ackRes
  /\ UNCHANGED <<sCurrTID, map, alive, up, call, mytid, slot, filled,
                 locked, calls, cp, inbox, handlerVars, ghostVars>>

\* Seeded fault: the locked response buffer is not released.
ReturnNoRelease(t) ==
  /\ pc[t] = "done"
  /\ Goto(t, "idle")
  /\ call' = [call EXCEPT ![t] = 0]
  /\ mytid' = [mytid EXCEPT ![t] = 0]
  /\ slot' = [slot EXCEPT ![t] = 0]
  /\ ackRes' = [ackRes EXCEPT ![t] = NoAck]
  /\ rspRes' = [rspRes EXCEPT ![t] = 0]
  /\ filled' = [filled EXCEPT ![t] = 0]
  /\ locked' = [locked EXCEPT ![t] = FALSE]
  /\ UNCHANGED <<sCurrTID, map, alive, up, calls, cp, inbox, handlerVars, ghostVars>>

\* RPC_SyncReleaseResponseBuffer, if the buffer was locked (to free a null
\* handle does nothing), and back to the caller.
Return(t) ==
  /\ pc[t] = "done"
  /\ map' = IF locked[t] THEN [map EXCEPT ![slot[t]].dataBufHandle = 0] ELSE map
  /\ Goto(t, "idle")
  /\ call' = [call EXCEPT ![t] = 0]
  /\ mytid' = [mytid EXCEPT ![t] = 0]
  /\ slot' = [slot EXCEPT ![t] = 0]
  /\ ackRes' = [ackRes EXCEPT ![t] = NoAck]
  /\ rspRes' = [rspRes EXCEPT ![t] = 0]
  /\ filled' = [filled EXCEPT ![t] = 0]
  /\ locked' = [locked EXCEPT ![t] = FALSE]
  /\ UNCHANGED <<sCurrTID, alive, up, calls, cp, inbox, handlerVars, ghostVars>>
-----------------------------------------------------------------------------
(* The CP: it acknowledges a request, and answers one it has accepted,     *)
(* when it likes and in any order; it need not do either.  The result of a *)
(* request it accepts as pending comes after the ack that has cleared the  *)
(* slot's id: it meets no slot, goes to the client's own callback and is   *)
(* left out.                                                               *)

CpAck(c) ==
  /\ cp[c].st = "asked"
  /\ \E ok, pending \in BOOLEAN :
       /\ pending => ok
       /\ inbox' = Append(inbox, [kind |-> "ack", tid |-> cp[c].tid, call |-> c,
                                  ok |-> ok, pending |-> pending])
       /\ cp' = [cp EXCEPT ![c] = IF ok /\ ~pending THEN [@ EXCEPT !.st = "accepted"]
                                     ELSE [st |-> "over", tid |-> 0]]
  /\ UNCHANGED <<sCurrTID, map, alive, up, taskVars, calls, handlerVars, ghostVars>>

CpRespond(c) ==
  /\ cp[c].st = "accepted"
  /\ inbox' = Append(inbox, [kind |-> "rsp", tid |-> cp[c].tid, call |-> c,
                             ok |-> TRUE, pending |-> FALSE])
  /\ cp' = [cp EXCEPT ![c] = [st |-> "over", tid |-> 0]]
  /\ UNCHANGED <<sCurrTID, map, alive, up, taskVars, calls, handlerVars, ghostVars>>
-----------------------------------------------------------------------------
(* The message thread: RPC_DispatchMsg, then RPC_SyncHandleAck or          *)
(* RPC_SyncHandleResponse.                                                 *)

\* Seeded fault: any slot with a call under way is taken for the message's.
SlotsWithTidAny(tid) == {s \in Slots : map[s].tid # 0}

SlotsWithTid(tid) == {s \in Slots : map[s].tid = tid}

\* GetMapForTID finds no slot: an ack is dropped, a response goes to the
\* client's own callback.
DispatchNoMap ==
  /\ hpc = "idle"
  /\ inbox # <<>>
  /\ SlotsWithTid(Head(inbox).tid) = {}
  /\ inbox' = Tail(inbox)
  /\ UNCHANGED <<sCurrTID, map, alive, up, taskVars, calls, cp, handlerVars, ghostVars>>

Dispatch ==
  /\ hpc = "idle"
  /\ inbox # <<>>
  /\ SlotsWithTid(Head(inbox).tid) # {}
  /\ inbox' = Tail(inbox)
  /\ hmsg' = Head(inbox)
  /\ hslot' = First(SlotsWithTid(Head(inbox).tid))
  /\ hpc' = IF Head(inbox).kind = "ack" THEN "ack" ELSE "copy"
  /\ UNCHANGED <<sCurrTID, map, alive, up, taskVars, calls, cp, ghostVars>>

HandlerDone == hpc' = "idle" /\ hmsg' = NoMsg /\ hslot' = 0

HandleAck ==
  /\ hpc = "ack"
  /\ map' = [map EXCEPT ![hslot].ack = hmsg.ok, ![hslot].ackOf = hmsg.call,
                        ![hslot].isResultPending = hmsg.pending,
                        ![hslot].tid = IF hmsg.ok /\ hmsg.pending THEN 0 ELSE @,
                        ![hslot].ackSema = @ + 1]
  /\ HandlerDone
  /\ UNCHANGED <<sCurrTID, alive, up, taskVars, calls, cp, inbox, ghostVars>>

\* copyCb writes the response where the slot's data pointer points, be it
\* the buffer of a call that has returned.
Writes(t) == pc[t] # "idle" /\ call[t] = map[hslot].data

CopyCb ==
  /\ hpc = "copy"
  /\ filled' = [t \in Tasks |-> IF Writes(t) THEN hmsg.call ELSE filled[t]]
  /\ stray' = IF map[hslot].data # 0 /\ ~\E t \in Tasks : Writes(t)
                THEN stray \cup {hslot} ELSE stray
  /\ hpc' = "rsp"
  /\ UNCHANGED <<sCurrTID, map, alive, up, pc, call, mytid, slot, ackRes,
                 rspRes, locked, calls, cp, inbox, hmsg, hslot, late, lost>>

HandleResponse ==
  /\ hpc = "rsp"
  /\ map' = [map EXCEPT ![hslot].result = hmsg.call, ![hslot].tid = 0,
                        ![hslot].dataBufHandle =
                           IF map[hslot].releaseC2Buf THEN @ ELSE hmsg.call,
                        ![hslot].rspSema = @ + 1]
  /\ HandlerDone
  /\ UNCHANGED <<sCurrTID, alive, up, taskVars, calls, cp, inbox, ghostVars>>
-----------------------------------------------------------------------------
Next ==
  /\ up
  /\ \/ \E t \in Tasks : Spawn(t) \/ Exit(t)
     \/ \E t \in Tasks : FoundMap(t) \/ NewMap(t) \/ RecycleMap(t) \/ NoMap(t)
     \/ \E t \in Tasks : ResetRecycled(t) \/ Publish(t) \/ LockResponseBuffer(t)
     \/ \E t \in Tasks : AckObtain(t) \/ RspObtain(t) \/ Timeout(t) \/ ReadLate(t)
     \/ \E t \in Tasks : Return(t)
     \/ \E c \in Calls : CpAck(c) \/ CpRespond(c)
     \/ DispatchNoMap \/ Dispatch \/ HandleAck \/ CopyCb \/ HandleResponse

Spec == Init /\ [][Next]_vars
-----------------------------------------------------------------------------
(* Properties.                                                             *)

TypeOK ==
  /\ sCurrTID \in Tids \ {0}
  /\ map \in [Slots -> Slot]
  /\ alive \subseteq Tasks /\ up \in BOOLEAN
  /\ pc \in [Tasks -> Steps]
  /\ call \in [Tasks -> CallOrNone] /\ mytid \in [Tasks -> Tids]
  /\ slot \in [Tasks -> Slots \cup {0}]
  /\ \A t \in Tasks : pc[t] = "idle" <=> slot[t] = 0
  /\ ackRes \in [Tasks -> [of : CallOrNone, ok : BOOLEAN, pending : BOOLEAN]]
  /\ rspRes \in [Tasks -> CallOrNone] /\ filled \in [Tasks -> CallOrNone]
  /\ locked \in [Tasks -> BOOLEAN]
  /\ calls \in CallOrNone
  /\ cp \in [Calls -> [st : {"none", "asked", "accepted", "over"}, tid : Tids]]
  /\ inbox \in Seq(Message)
  /\ hpc \in {"idle", "ack", "copy", "rsp"}
  /\ hmsg \in Message \cup {NoMsg} /\ hslot \in Slots \cup {0}
  /\ hpc = "idle" <=> hslot = 0
  /\ late \subseteq Slots /\ stray \subseteq Slots /\ lost \subseteq Slots

\* A call that ends in a slot in which nothing ever timed out has its own
\* answer: the ack it reads is the CP's ack of this request and, if that
\* announces a response, result and data are the response to this request.
\* Whatever happens to calls in other slots, or to earlier owners of this one.
AnswerIsMine ==
  \A t \in Tasks : pc[t] = "done" /\ slot[t] \notin late =>
    /\ ackRes[t].of = call[t]
    /\ ackRes[t].ok /\ ~ackRes[t].pending =>
         rspRes[t] = call[t] /\ filled[t] = call[t]

\* A response is copied to the buffer of a call that has returned, and a
\* response buffer forgotten, only through a slot in which a wait timed out.
OnlyLateSlotsHarm == stray \cup lost \subseteq late

\* The AP runs out of slots only when more tasks are alive than the table has
\* slots.
TableHasRoom == ~up => Cardinality(alive) > MAX_TASKS_NUM
=============================================================================
