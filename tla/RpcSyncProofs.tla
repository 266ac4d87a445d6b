--------------------------- MODULE RpcSyncProofs ---------------------------
(***************************************************************************)
(* Proofs about the synchronous calls of fuse_rpc, for any number of tasks *)
(* and slots, any number of ids, calls and time-outs.                      *)
(***************************************************************************)
EXTENDS RpcSync, FiniteSetTheorems, WellFoundedInduction, TLAPS

\* The loops over sTaskRequestMap stop at the first slot that fits.
LEMMA FirstIsIn ==
  ASSUME NEW S, S \subseteq Slots, S # {}
  PROVE  First(S) \in S /\ First(S) \in Slots
<1>1. S \subseteq Nat
  BY SyncAssumption DEF SyncAssumption, Slots
<1>2. PICK x \in S : \A y \in S : ~(<<y, x>> \in OpToRel(<, Nat))
  BY <1>1, NatLessThanWellFounded, WFMin
<1>3. \A y \in S : x <= y
  <2> SUFFICES ASSUME NEW y \in S, y < x
               PROVE  FALSE
    BY <1>1
  <2> QED
    BY <1>1, <1>2 DEF OpToRel
<1> QED
  BY <1>3 DEF First

\* The counter of ids wraps round past 0, the id of an unused slot.
LEMMA NextTIDIsTid ==
  ASSUME sCurrTID \in Tids \ {0}
  PROVE  NextTID \in Tids \ {0}
<1>1. CASE sCurrTID + 1 = TidMod
  <2>1. (sCurrTID + 1) % TidMod = 0
    BY <1>1, SyncAssumption DEF SyncAssumption, Tids
  <2> QED
    BY <2>1, SyncAssumption DEF SyncAssumption, NextTID, Tids
<1>2. CASE sCurrTID + 1 # TidMod
  <2>1. (sCurrTID + 1) % TidMod = sCurrTID + 1
    BY <1>2, SyncAssumption DEF SyncAssumption, Tids
  <2> QED
    BY <1>2, <2>1, SyncAssumption DEF SyncAssumption, NextTID, Tids
<1> QED
  BY <1>1, <1>2
-----------------------------------------------------------------------------
(* Types.                                                                  *)

LEMMA EmptySlotType == EmptySlot \in Slot
  BY SyncAssumption DEF SyncAssumption, EmptySlot, Slot, Tids, CallOrNone

LEMMA InitType == Init => TypeOK
<1> SUFFICES ASSUME Init PROVE TypeOK
  OBVIOUS
<1>1. sCurrTID \in Tids \ {0} /\ map \in [Slots -> Slot]
  BY EmptySlotType, SyncAssumption DEF SyncAssumption, Init, Tids
<1>2. /\ alive \subseteq Tasks /\ up \in BOOLEAN
      /\ pc \in [Tasks -> Steps] /\ locked \in [Tasks -> BOOLEAN]
  BY DEF Init, Steps
<1>3. /\ call \in [Tasks -> CallOrNone] /\ mytid \in [Tasks -> Tids]
      /\ slot \in [Tasks -> Slots \cup {0}]
      /\ rspRes \in [Tasks -> CallOrNone] /\ filled \in [Tasks -> CallOrNone]
      /\ \A t \in Tasks : pc[t] = "idle" <=> slot[t] = 0
  BY SyncAssumption DEF SyncAssumption, Init, Tids, CallOrNone
<1>4. ackRes \in [Tasks -> [of : CallOrNone, ok : BOOLEAN, pending : BOOLEAN]]
  BY DEF Init, NoAck, CallOrNone
<1>5. /\ calls \in CallOrNone /\ inbox \in Seq(Message)
      /\ cp \in [Calls -> [st : {"none", "asked", "accepted", "over"}, tid : Tids]]
  BY SyncAssumption DEF SyncAssumption, Init, CallOrNone, Tids
<1>6. /\ hpc \in {"idle", "ack", "copy", "rsp"}
      /\ hmsg \in Message \cup {NoMsg} /\ hslot \in Slots \cup {0}
      /\ hpc = "idle" <=> hslot = 0
  BY DEF Init
<1>7. late \subseteq Slots /\ stray \subseteq Slots /\ lost \subseteq Slots
  BY DEF Init
<1> QED
  BY <1>1, <1>2, <1>3, <1>4, <1>5, <1>6, <1>7 DEF TypeOK

\* The types of what a handler reads from its slot and its message.
LEMMA ReadTypes ==
  ASSUME TypeOK
  PROVE  /\ 0 \notin Slots /\ 0 \in CallOrNone /\ 0 \in Tids /\ Calls \subseteq CallOrNone
         /\ \A s \in Slots : /\ map[s] \in Slot
                             /\ map[s].ackSema \in Nat /\ map[s].rspSema \in Nat
         /\ hmsg.call \in CallOrNone /\ hmsg.ok \in BOOLEAN /\ hmsg.pending \in BOOLEAN
<1>1. 0 \notin Slots /\ 0 \in CallOrNone /\ 0 \in Tids /\ Calls \subseteq CallOrNone
  BY SyncAssumption DEF SyncAssumption, Slots, CallOrNone, Tids
<1>2. \A s \in Slots : /\ map[s] \in Slot
                       /\ map[s].ackSema \in Nat /\ map[s].rspSema \in Nat
  BY DEF TypeOK, Slot
<1>3. hmsg.call \in CallOrNone /\ hmsg.ok \in BOOLEAN /\ hmsg.pending \in BOOLEAN
  <2>1. CASE hmsg = NoMsg
    BY <2>1, <1>1 DEF NoMsg
  <2>2. CASE hmsg \in Message
    BY <2>2, <1>1 DEF Message
  <2> QED
    BY <2>1, <2>2 DEF TypeOK
<1> QED
  BY <1>1, <1>2, <1>3

-----------------------------------------------------------------------------
(* What the steps do to the slots, field by field.                         *)

OthersKept(s) == \A x \in Slots : x # s => map'[x] = map[x]

LEMMA UpdateSlot ==
  ASSUME TypeOK, NEW s \in Slots, NEW new \in Slot, map' = [map EXCEPT ![s] = new]
  PROVE  map' \in [Slots -> Slot] /\ OthersKept(s) /\ map'[s] = new
BY DEF TypeOK, OthersKept

LEMMA ResetEffect ==
  ASSUME TypeOK, NEW t \in Tasks, NEW s \in Slots, ResetSlot(s, t)
  PROVE  /\ map' \in [Slots -> Slot] /\ OthersKept(s)
         /\ map'[s].task = t /\ map'[s].tid = 0 /\ map'[s].data = 0
         /\ map'[s].ackSema = map[s].ackSema /\ map'[s].rspSema = map[s].rspSema
         /\ map'[s].releaseC2Buf /\ map'[s].dataBufHandle = 0
         /\ lost' \subseteq Slots
         /\ lost' = IF map[s].dataBufHandle # 0 THEN lost \cup {s} ELSE lost
         /\ pc' = [pc EXCEPT ![t] = "publish"]
<1> DEFINE new == [EmptySlot EXCEPT !.task = t, !.ackSema = map[s].ackSema,
                                    !.rspSema = map[s].rspSema]
<1>1. new \in Slot
  BY ReadTypes DEF Slot, EmptySlot
<1>2. map' = [map EXCEPT ![s] = new]
  BY DEF ResetSlot
<1>3. map' \in [Slots -> Slot] /\ OthersKept(s) /\ map'[s] = new
  BY <1>1, <1>2, UpdateSlot
<1>4. /\ new.task = t /\ new.tid = 0 /\ new.data = 0
      /\ new.ackSema = map[s].ackSema /\ new.rspSema = map[s].rspSema
      /\ new.releaseC2Buf /\ new.dataBufHandle = 0
  BY DEF EmptySlot
<1> QED
  BY <1>3, <1>4 DEF ResetSlot, Goto, TypeOK

LEMMA RecycleEffect ==
  ASSUME TypeOK, NEW t \in Tasks, RecycleMap(t)
  PROVE  LET s == First(DeadSlots)
         IN  /\ s \in DeadSlots /\ s \in Slots /\ slot' = [slot EXCEPT ![t] = s]
             /\ map' \in [Slots -> Slot] /\ OthersKept(s)
             /\ map'[s].task = t /\ map'[s].ackSema = 0 /\ map'[s].rspSema = 0
             /\ map'[s].tid = map[s].tid /\ map'[s].data = map[s].data
             /\ map'[s].dataBufHandle = map[s].dataBufHandle
<1> DEFINE s == First(DeadSlots)
           new == [map[s] EXCEPT !.task = t, !.ackSema = 0, !.rspSema = 0]
<1>1. s \in Slots /\ s \in DeadSlots /\ slot' = [slot EXCEPT ![t] = s]
  BY FirstIsIn DEF RecycleMap, DeadSlots
<1>2. map[s] \in Slot
  BY <1>1 DEF TypeOK
<1>3. new \in Slot
  BY <1>2 DEF Slot
<1>4. map' = [map EXCEPT ![s] = new]
  BY <1>1, <1>2 DEF RecycleMap, TypeOK, Slot
<1>5. map' \in [Slots -> Slot] /\ OthersKept(s) /\ map'[s] = new
  BY <1>1, <1>3, <1>4, UpdateSlot
<1>6. /\ new.task = t /\ new.ackSema = 0 /\ new.rspSema = 0
      /\ new.tid = map[s].tid /\ new.data = map[s].data
      /\ new.dataBufHandle = map[s].dataBufHandle
  BY <1>2 DEF Slot
<1> QED
  BY <1>1, <1>5, <1>6

LEMMA PublishEffect ==
  ASSUME TypeOK, NEW t \in Tasks, Publish(t)
  PROVE  LET s == slot[t]
         IN  /\ s \in Slots /\ map' \in [Slots -> Slot] /\ OthersKept(s)
             /\ map'[s].tid = mytid[t] /\ map'[s].data = call[t]
             /\ map'[s].task = map[s].task
             /\ map'[s].ackSema = map[s].ackSema /\ map'[s].rspSema = map[s].rspSema
             /\ map'[s].releaseC2Buf = map[s].releaseC2Buf
             /\ map'[s].dataBufHandle = map[s].dataBufHandle
<1> DEFINE s == slot[t]
           new == [map[s] EXCEPT !.tid = mytid[t], !.data = call[t]]
<1>1. s \in Slots
  BY DEF Publish, TypeOK
<1>2. map[s] \in Slot
  BY <1>1 DEF TypeOK
<1>3. new \in Slot
  BY <1>2 DEF Slot, TypeOK
<1>4. map' = [map EXCEPT ![s] = new]
  BY <1>1, <1>2 DEF Publish, TypeOK, Slot
<1>5. map' \in [Slots -> Slot] /\ OthersKept(s) /\ map'[s] = new
  BY <1>1, <1>3, <1>4, UpdateSlot
<1>6. /\ new.tid = mytid[t] /\ new.data = call[t] /\ new.task = map[s].task
      /\ new.ackSema = map[s].ackSema /\ new.rspSema = map[s].rspSema
      /\ new.releaseC2Buf = map[s].releaseC2Buf
      /\ new.dataBufHandle = map[s].dataBufHandle
  BY <1>2 DEF Slot
<1> QED
  BY <1>1, <1>5, <1>6

LEMMA LockEffect ==
  ASSUME TypeOK, NEW t \in Tasks, LockResponseBuffer(t)
  PROVE  LET s == slot[t]
         IN  /\ s \in Slots /\ map' \in [Slots -> Slot] /\ OthersKept(s)
             /\ ~map'[s].releaseC2Buf
             /\ map'[s].tid = map[s].tid /\ map'[s].data = map[s].data
             /\ map'[s].task = map[s].task
             /\ map'[s].ackSema = map[s].ackSema /\ map'[s].rspSema = map[s].rspSema
             /\ map'[s].dataBufHandle = map[s].dataBufHandle
<1> DEFINE s == slot[t]
           new == [map[s] EXCEPT !.releaseC2Buf = FALSE]
<1>1. s \in Slots
  BY DEF LockResponseBuffer, TypeOK
<1>2. map[s] \in Slot
  BY <1>1 DEF TypeOK
<1>3. new \in Slot
  BY <1>2 DEF Slot
<1>4. map' = [map EXCEPT ![s] = new]
  BY <1>1, <1>2 DEF LockResponseBuffer, TypeOK, Slot
<1>5. map' \in [Slots -> Slot] /\ OthersKept(s) /\ map'[s] = new
  BY <1>1, <1>3, <1>4, UpdateSlot
<1>6. /\ ~new.releaseC2Buf /\ new.tid = map[s].tid /\ new.data = map[s].data
      /\ new.task = map[s].task
      /\ new.ackSema = map[s].ackSema /\ new.rspSema = map[s].rspSema
      /\ new.dataBufHandle = map[s].dataBufHandle
  BY <1>2 DEF Slot
<1> QED
  BY <1>1, <1>5, <1>6

\* A semaphore is taken; the task reads on.
LEMMA ObtainEffect ==
  ASSUME TypeOK, NEW t \in Tasks, AckObtain(t) \/ RspObtain(t)
  PROVE  LET s == slot[t]
         IN  /\ s \in Slots /\ map' \in [Slots -> Slot] /\ OthersKept(s)
             /\ map'[s].ackSema = IF AckObtain(t) THEN map[s].ackSema - 1 ELSE map[s].ackSema
             /\ map'[s].rspSema = IF AckObtain(t) THEN map[s].rspSema ELSE map[s].rspSema - 1
             /\ map'[s].task = map[s].task /\ map'[s].tid = map[s].tid
             /\ map'[s].data = map[s].data /\ map'[s].result = map[s].result
             /\ map'[s].releaseC2Buf = map[s].releaseC2Buf
             /\ map'[s].dataBufHandle = map[s].dataBufHandle
<1> DEFINE s == slot[t]
           acked == [map[s] EXCEPT !.ackSema = map[s].ackSema - 1]
           given == [map[s] EXCEPT !.rspSema = map[s].rspSema - 1]
           new == IF AckObtain(t) THEN acked ELSE given
<1>1. s \in Slots
  BY DEF AckObtain, RspObtain, TypeOK
<1>2. map[s] \in Slot /\ map[s].ackSema \in Nat /\ map[s].rspSema \in Nat
  BY <1>1, ReadTypes
<1>3. /\ AckObtain(t) => map[s].ackSema > 0 /\ map' = [map EXCEPT ![s] = acked]
      /\ ~AckObtain(t) => map[s].rspSema > 0 /\ map' = [map EXCEPT ![s] = given]
  BY <1>1, <1>2 DEF AckObtain, RspObtain, TypeOK, Slot
<1>4. /\ map[s].ackSema > 0 => acked \in Slot
      /\ map[s].rspSema > 0 => given \in Slot
  BY <1>2 DEF Slot
<1>5. map' \in [Slots -> Slot] /\ OthersKept(s) /\ map'[s] = new
  BY <1>1, <1>3, <1>4, UpdateSlot
<1>6. /\ acked.ackSema = map[s].ackSema - 1 /\ acked.rspSema = map[s].rspSema
      /\ acked.task = map[s].task /\ acked.tid = map[s].tid /\ acked.data = map[s].data
      /\ acked.result = map[s].result /\ acked.releaseC2Buf = map[s].releaseC2Buf
      /\ acked.dataBufHandle = map[s].dataBufHandle
  BY <1>2 DEF Slot
<1>7. /\ given.ackSema = map[s].ackSema /\ given.rspSema = map[s].rspSema - 1
      /\ given.task = map[s].task /\ given.tid = map[s].tid /\ given.data = map[s].data
      /\ given.result = map[s].result /\ given.releaseC2Buf = map[s].releaseC2Buf
      /\ given.dataBufHandle = map[s].dataBufHandle
  BY <1>2 DEF Slot
<1> HIDE DEF acked, given
<1> QED
  BY <1>1, <1>5, <1>6, <1>7

LEMMA ReturnEffect ==
  ASSUME TypeOK, NEW t \in Tasks, Return(t)
  PROVE  LET s == slot[t]
         IN  /\ s \in Slots /\ map' \in [Slots -> Slot] /\ OthersKept(s)
             /\ map'[s].dataBufHandle = IF locked[t] THEN 0 ELSE map[s].dataBufHandle
             /\ map'[s].task = map[s].task /\ map'[s].tid = map[s].tid
             /\ map'[s].data = map[s].data
             /\ map'[s].ackSema = map[s].ackSema /\ map'[s].rspSema = map[s].rspSema
<1> DEFINE s == slot[t]
           new == [map[s] EXCEPT !.dataBufHandle = 0]
<1>1. s \in Slots
  BY DEF Return, TypeOK
<1>2. map[s] \in Slot /\ map \in [Slots -> Slot] /\ locked[t] \in BOOLEAN
  BY <1>1 DEF TypeOK
<1>3. new \in Slot
  BY <1>2, ReadTypes DEF Slot
<1>4. CASE locked[t]
  <2>1. map' = [map EXCEPT ![s] = new]
    BY <1>1, <1>2, <1>4 DEF Return, Slot
  <2>2. map' \in [Slots -> Slot] /\ OthersKept(s) /\ map'[s] = new
    BY <1>1, <1>3, <2>1, UpdateSlot
  <2>3. /\ new.dataBufHandle = 0 /\ new.task = map[s].task /\ new.tid = map[s].tid
        /\ new.data = map[s].data /\ new.ackSema = map[s].ackSema
        /\ new.rspSema = map[s].rspSema
    BY <1>2 DEF Slot
  <2> QED
    BY <1>1, <1>4, <2>2, <2>3
<1>5. CASE ~locked[t]
  BY <1>1, <1>2, <1>5 DEF Return, OthersKept
<1> QED
  BY <1>2, <1>4, <1>5

LEMMA HandleAckEffect ==
  ASSUME TypeOK, HandleAck
  PROVE  LET s == hslot
         IN  /\ s \in Slots /\ map' \in [Slots -> Slot] /\ OthersKept(s)
             /\ map'[s].ackSema = map[s].ackSema + 1 /\ map'[s].rspSema = map[s].rspSema
             /\ map'[s].ack = hmsg.ok /\ map'[s].isResultPending = hmsg.pending
             /\ map'[s].ackOf = hmsg.call
             /\ map'[s].tid = IF hmsg.ok /\ hmsg.pending THEN 0 ELSE map[s].tid
             /\ map'[s].data = map[s].data /\ map'[s].task = map[s].task
             /\ map'[s].releaseC2Buf = map[s].releaseC2Buf
             /\ map'[s].dataBufHandle = map[s].dataBufHandle
<1> DEFINE s == hslot
           n == map[s].ackSema + 1
           id == IF hmsg.ok /\ hmsg.pending THEN 0 ELSE map[s].tid
           new == [map[s] EXCEPT !.ack = hmsg.ok, !.ackOf = hmsg.call,
                                 !.isResultPending = hmsg.pending, !.tid = id,
                                 !.ackSema = n]
<1>1. s \in Slots
  BY DEF HandleAck, TypeOK
<1>2. /\ map[s] \in Slot /\ map[s].ackSema \in Nat
      /\ hmsg.call \in CallOrNone /\ hmsg.ok \in BOOLEAN /\ hmsg.pending \in BOOLEAN
  BY <1>1, ReadTypes
<1>3. id \in Tids /\ n \in Nat
  BY <1>2, ReadTypes DEF Slot
<1>4. map' = [map EXCEPT ![s] = new]
  BY <1>1, <1>2 DEF HandleAck, TypeOK, Slot
<1> HIDE DEF id, n
<1>5. new \in Slot
  BY <1>2, <1>3 DEF Slot
<1>6. map' \in [Slots -> Slot] /\ OthersKept(s) /\ map'[s] = new
  BY <1>1, <1>4, <1>5, UpdateSlot
<1>7. /\ new.ackSema = n /\ new.rspSema = map[s].rspSema
      /\ new.ack = hmsg.ok /\ new.isResultPending = hmsg.pending /\ new.ackOf = hmsg.call
      /\ new.tid = id /\ new.data = map[s].data /\ new.task = map[s].task
      /\ new.releaseC2Buf = map[s].releaseC2Buf
      /\ new.dataBufHandle = map[s].dataBufHandle
  BY <1>2 DEF Slot
<1> HIDE DEF new
<1> QED
  BY <1>1, <1>6, <1>7 DEF id, n

LEMMA HandleResponseEffect ==
  ASSUME TypeOK, HandleResponse
  PROVE  LET s == hslot
         IN  /\ s \in Slots /\ map' \in [Slots -> Slot] /\ OthersKept(s)
             /\ map'[s].rspSema = map[s].rspSema + 1 /\ map'[s].ackSema = map[s].ackSema
             /\ map'[s].ack = map[s].ack /\ map'[s].ackOf = map[s].ackOf
             /\ map'[s].isResultPending = map[s].isResultPending
             /\ map'[s].result = hmsg.call /\ map'[s].tid = 0
             /\ map'[s].data = map[s].data /\ map'[s].task = map[s].task
             /\ map'[s].releaseC2Buf = map[s].releaseC2Buf
             /\ map'[s].dataBufHandle =
                  IF map[s].releaseC2Buf THEN map[s].dataBufHandle ELSE hmsg.call
<1> DEFINE s == hslot
           n == map[s].rspSema + 1
           buf == IF map[s].releaseC2Buf THEN map[s].dataBufHandle ELSE hmsg.call
           new == [map[s] EXCEPT !.result = hmsg.call, !.tid = 0, !.dataBufHandle = buf,
                                 !.rspSema = n]
<1>1. s \in Slots
  BY DEF HandleResponse, TypeOK
<1>2. map[s] \in Slot /\ map[s].rspSema \in Nat /\ hmsg.call \in CallOrNone
  BY <1>1, ReadTypes
<1>3. buf \in CallOrNone /\ n \in Nat
  BY <1>2 DEF Slot
<1>4. map' = [map EXCEPT ![s] = new]
  BY <1>1, <1>2 DEF HandleResponse, TypeOK, Slot
<1> HIDE DEF buf, n
<1>5. new \in Slot
  BY <1>2, <1>3, ReadTypes DEF Slot
<1>6. map' \in [Slots -> Slot] /\ OthersKept(s) /\ map'[s] = new
  BY <1>1, <1>4, <1>5, UpdateSlot
<1>7. /\ new.rspSema = n /\ new.ackSema = map[s].ackSema
      /\ new.ack = map[s].ack /\ new.ackOf = map[s].ackOf
      /\ new.isResultPending = map[s].isResultPending
      /\ new.result = hmsg.call /\ new.tid = 0
      /\ new.data = map[s].data /\ new.task = map[s].task
      /\ new.releaseC2Buf = map[s].releaseC2Buf /\ new.dataBufHandle = buf
  BY <1>2 DEF Slot
<1> HIDE DEF new
<1> QED
  BY <1>1, <1>6, <1>7 DEF buf, n
-----------------------------------------------------------------------------
LEMMA TakeTidType ==
  ASSUME TypeOK, NEW t \in Tasks, TakeTid(t)
  PROVE  /\ sCurrTID' \in Tids \ {0} /\ calls' \in CallOrNone
         /\ call' \in [Tasks -> CallOrNone] /\ mytid' \in [Tasks -> Tids]
<1>1. calls + 1 \in CallOrNone
  BY SyncAssumption DEF SyncAssumption, TakeTid, TypeOK, CallOrNone, Calls
<1>2. sCurrTID' \in Tids \ {0}
  BY NextTIDIsTid DEF TakeTid, TypeOK
<1> QED
  BY <1>1, <1>2 DEF TakeTid, TypeOK

\* RPC_SyncCreateTID finds a slot that is the task's already, or nobody's.
LEMMA SlotFound ==
  ASSUME TypeOK, NEW t \in Tasks, FoundMap(t) \/ NewMap(t)
  PROVE  \E s \in Slots :
           /\ ResetSlot(s, t) /\ slot' = [slot EXCEPT ![t] = s] /\ TakeTid(t)
           /\ \/ map[s].task = t
              \/ map[s].task = NoTask /\ \A x \in Slots : map[x].task # t
           /\ UNCHANGED <<alive, up, resultVars, cp, inbox, handlerVars, late, stray>>
<1>1. SlotsOf(t) \subseteq Slots /\ FreeSlots \subseteq Slots
  BY DEF SlotsOf, FreeSlots
<1>2. CASE FoundMap(t)
  <2> DEFINE s == First(SlotsOf(t))
  <2>1. s \in Slots /\ s \in SlotsOf(t)
    BY <1>1, <1>2, FirstIsIn DEF FoundMap
  <2>2. map[s].task = t
    BY <2>1 DEF SlotsOf
  <2> QED
    BY <1>2, <2>1, <2>2 DEF FoundMap
<1>3. CASE NewMap(t)
  <2> DEFINE s == First(FreeSlots)
  <2>1. s \in Slots /\ s \in FreeSlots
    BY <1>1, <1>3, FirstIsIn DEF NewMap
  <2>2. map[s].task = NoTask /\ \A x \in Slots : map[x].task # t
    BY <1>3, <2>1 DEF FreeSlots, NewMap, SlotsOf
  <2> QED
    BY <1>3, <2>1, <2>2 DEF NewMap
<1> QED
  BY <1>2, <1>3

LEMMA TypeStep ==
  ASSUME TypeOK, [Next]_vars
  PROVE  TypeOK'
<1> USE DEF taskVars, resultVars, handlerVars, ghostVars
<1>0. /\ 0 \notin Slots /\ 0 \in CallOrNone /\ 0 \in Tids /\ Calls \subseteq CallOrNone
      /\ \A s \in Slots : /\ map[s] \in Slot
                          /\ map[s].ackSema \in Nat /\ map[s].rspSema \in Nat
      /\ hmsg.call \in CallOrNone /\ hmsg.ok \in BOOLEAN /\ hmsg.pending \in BOOLEAN
  BY ReadTypes
<1>1. ASSUME NEW t \in Tasks, Spawn(t) \/ Exit(t) PROVE TypeOK'
  BY <1>1 DEF Spawn, Exit, TypeOK
<1>2. ASSUME NEW t \in Tasks, FoundMap(t) \/ NewMap(t) PROVE TypeOK'
  <2>1. PICK s \in Slots :
          /\ ResetSlot(s, t) /\ slot' = [slot EXCEPT ![t] = s] /\ TakeTid(t)
          /\ UNCHANGED <<alive, up, resultVars, cp, inbox, handlerVars, late, stray>>
    BY <1>2, SlotFound
  <2>2. /\ map' \in [Slots -> Slot] /\ lost' \subseteq Slots
        /\ pc' = [pc EXCEPT ![t] = "publish"]
    BY <2>1, ResetEffect
  <2>3. /\ sCurrTID' \in Tids \ {0} /\ calls' \in CallOrNone
        /\ call' \in [Tasks -> CallOrNone] /\ mytid' \in [Tasks -> Tids]
    BY <2>1, TakeTidType
  <2>4. /\ pc' \in [Tasks -> Steps] /\ slot' \in [Tasks -> Slots \cup {0}]
        /\ \A x \in Tasks : pc'[x] = "idle" <=> slot'[x] = 0
    BY <1>0, <2>1, <2>2 DEF TypeOK, Steps
  <2> QED
    BY <2>1, <2>2, <2>3, <2>4 DEF TypeOK
<1>3. ASSUME NEW t \in Tasks, RecycleMap(t) PROVE TypeOK'
  <2> DEFINE s == First(DeadSlots)
  <2>1. s \in Slots /\ slot' = [slot EXCEPT ![t] = s] /\ map' \in [Slots -> Slot]
    BY <1>3, RecycleEffect
  <2>3. /\ sCurrTID' \in Tids \ {0} /\ calls' \in CallOrNone
        /\ call' \in [Tasks -> CallOrNone] /\ mytid' \in [Tasks -> Tids]
    BY <1>3, TakeTidType DEF RecycleMap
  <2>4. /\ pc' \in [Tasks -> Steps] /\ slot' \in [Tasks -> Slots \cup {0}]
        /\ \A x \in Tasks : pc'[x] = "idle" <=> slot'[x] = 0
    BY <1>0, <1>3, <2>1 DEF RecycleMap, Goto, TypeOK, Steps
  <2> QED
    BY <1>3, <2>1, <2>3, <2>4 DEF RecycleMap, TypeOK
<1>4. ASSUME NEW t \in Tasks, NoMap(t) PROVE TypeOK'
  <2>3. /\ sCurrTID' \in Tids \ {0} /\ calls' \in CallOrNone
        /\ call' \in [Tasks -> CallOrNone] /\ mytid' \in [Tasks -> Tids]
    BY <1>4, TakeTidType DEF NoMap
  <2> QED
    BY <1>4, <2>3 DEF NoMap, TypeOK
<1>5. ASSUME NEW t \in Tasks, ResetRecycled(t) PROVE TypeOK'
  <2>1. slot[t] \in Slots
    BY <1>5 DEF ResetRecycled, TypeOK
  <2>2. /\ map' \in [Slots -> Slot] /\ lost' \subseteq Slots
        /\ pc' = [pc EXCEPT ![t] = "publish"]
    BY <1>5, <2>1, ResetEffect DEF ResetRecycled
  <2>3. pc' \in [Tasks -> Steps] /\ \A x \in Tasks : pc'[x] = "idle" <=> slot[x] = 0
    BY <1>5, <2>1, <2>2 DEF ResetRecycled, TypeOK, Steps
  <2> QED
    BY <1>5, <2>2, <2>3 DEF ResetRecycled, TypeOK
<1>6. ASSUME NEW t \in Tasks, Publish(t) PROVE TypeOK'
  <2>1. map' \in [Slots -> Slot]
    BY <1>6, PublishEffect
  <2>2. cp' \in [Calls -> [st : {"none", "asked", "accepted", "over"}, tid : Tids]]
    BY <1>6 DEF Publish, SendRequest, TypeOK
  <2>3. pc' \in [Tasks -> Steps] /\ \A x \in Tasks : pc'[x] = "idle" <=> slot[x] = 0
    BY <1>6 DEF Publish, SendRequest, Goto, TypeOK, Steps
  <2> QED
    BY <1>6, <2>1, <2>2, <2>3 DEF Publish, TypeOK
<1>7. ASSUME NEW t \in Tasks, LockResponseBuffer(t) PROVE TypeOK'
  <2>1. map' \in [Slots -> Slot]
    BY <1>7, LockEffect
  <2>2. cp' \in [Calls -> [st : {"none", "asked", "accepted", "over"}, tid : Tids]]
    BY <1>7 DEF LockResponseBuffer, SendRequest, TypeOK
  <2>3. pc' \in [Tasks -> Steps] /\ \A x \in Tasks : pc'[x] = "idle" <=> slot[x] = 0
    BY <1>7 DEF LockResponseBuffer, SendRequest, Goto, TypeOK, Steps
  <2>4. locked' \in [Tasks -> BOOLEAN]
    BY <1>7 DEF LockResponseBuffer, TypeOK
  <2> QED
    BY <1>7, <2>1, <2>2, <2>3, <2>4 DEF LockResponseBuffer, TypeOK
<1>8. ASSUME NEW t \in Tasks, AckObtain(t) \/ RspObtain(t) \/ ReadLate(t) PROVE TypeOK'
  <2>1. slot[t] \in Slots
    BY <1>8 DEF AckObtain, RspObtain, ReadLate, TypeOK
  <2>2. map' \in [Slots -> Slot]
    BY <1>8, ObtainEffect DEF ReadLate, TypeOK
  <2> DEFINE a == [of |-> map[slot[t]].ackOf, ok |-> map[slot[t]].ack,
                   pending |-> map[slot[t]].isResultPending]
  <2>3. /\ a \in [of : CallOrNone, ok : BOOLEAN, pending : BOOLEAN]
        /\ map[slot[t]].result \in CallOrNone
    BY <1>0, <2>1 DEF Slot
  <2>4. /\ ackRes' \in [Tasks -> [of : CallOrNone, ok : BOOLEAN, pending : BOOLEAN]]
        /\ rspRes' \in [Tasks -> CallOrNone]
    <3>1. /\ ackRes' = [ackRes EXCEPT ![t] = a] \/ ackRes' = ackRes
          /\ ReadRsp(t) \/ rspRes' = rspRes
      BY <1>8 DEF AckObtain, RspObtain, ReadLate, ReadAck
    <3>2. /\ ackRes \in [Tasks -> [of : CallOrNone, ok : BOOLEAN, pending : BOOLEAN]]
          /\ rspRes \in [Tasks -> CallOrNone]
      BY DEF TypeOK
    <3>3. rspRes' \in [Tasks -> CallOrNone]
      BY <2>3, <3>1, <3>2 DEF ReadRsp
    <3> DEFINE Acks == [of : CallOrNone, ok : BOOLEAN, pending : BOOLEAN]
    <3>4. a \in Acks /\ ackRes \in [Tasks -> Acks]
      BY <2>3, <3>2
    <3> HIDE DEF a, Acks
    <3>5. ackRes' \in [Tasks -> Acks]
      BY <3>1, <3>4
    <3> QED
      BY <3>3, <3>5 DEF Acks
  <2>5. pc' \in [Tasks -> Steps] /\ \A x \in Tasks : pc'[x] = "idle" <=> slot[x] = 0
    BY <1>8 DEF AckObtain, RspObtain, ReadLate, ReadAck, ReadRsp, Goto, TypeOK, Steps
  <2> QED
    BY <1>8, <2>2, <2>4, <2>5 DEF AckObtain, RspObtain, ReadLate, TypeOK
<1>9. ASSUME NEW t \in Tasks, Timeout(t) PROVE TypeOK'
  <2>1. late' \subseteq Slots
    BY <1>9 DEF Timeout, TypeOK
  <2>2. pc' \in [Tasks -> Steps] /\ \A x \in Tasks : pc'[x] = "idle" <=> slot[x] = 0
    BY <1>9 DEF Timeout, Goto, TypeOK, Steps
  <2> QED
    BY <1>9, <2>1, <2>2 DEF Timeout, TypeOK
<1>10. ASSUME NEW t \in Tasks, Return(t) PROVE TypeOK'
  <2>1. map' \in [Slots -> Slot]
    BY <1>10, ReturnEffect
  <2>2. /\ pc' \in [Tasks -> Steps] /\ slot' \in [Tasks -> Slots \cup {0}]
        /\ \A x \in Tasks : pc'[x] = "idle" <=> slot'[x] = 0
    BY <1>10 DEF Return, Goto, TypeOK, Steps
  <2>3. /\ call' \in [Tasks -> CallOrNone] /\ mytid' \in [Tasks -> Tids]
        /\ rspRes' \in [Tasks -> CallOrNone] /\ filled' \in [Tasks -> CallOrNone]
        /\ locked' \in [Tasks -> BOOLEAN]
    BY <1>10, <1>0 DEF Return, TypeOK
  <2>4. ackRes' \in [Tasks -> [of : CallOrNone, ok : BOOLEAN, pending : BOOLEAN]]
    BY <1>10, <1>0 DEF Return, TypeOK, NoAck
  <2> QED
    BY <1>10, <2>1, <2>2, <2>3, <2>4 DEF Return, TypeOK
<1>11. ASSUME NEW c \in Calls, CpAck(c) PROVE TypeOK'
  <2>1. PICK ok, pending \in BOOLEAN :
       /\ inbox' = Append(inbox, [kind |-> "ack", tid |-> cp[c].tid, call |-> c,
                                  ok |-> ok, pending |-> pending])
       /\ cp' = [cp EXCEPT ![c] = IF ok /\ ~pending THEN [@ EXCEPT !.st = "accepted"]
                                     ELSE [st |-> "over", tid |-> 0]]
    BY <1>11 DEF CpAck
  <2>2. cp[c].tid \in Tids
    BY DEF TypeOK
  <2>3. inbox' \in Seq(Message)
    BY <2>1, <2>2 DEF TypeOK, Message
  <2>4. cp' \in [Calls -> [st : {"none", "asked", "accepted", "over"}, tid : Tids]]
    BY <2>1, <2>2, <1>0 DEF TypeOK
  <2> QED
    BY <1>11, <2>3, <2>4 DEF CpAck, TypeOK
<1>12. ASSUME NEW c \in Calls, CpRespond(c) PROVE TypeOK'
  <2>2. cp[c].tid \in Tids
    BY DEF TypeOK
  <2>3. inbox' \in Seq(Message)
    BY <1>12, <2>2 DEF CpRespond, TypeOK, Message
  <2>4. cp' \in [Calls -> [st : {"none", "asked", "accepted", "over"}, tid : Tids]]
    BY <1>12, <1>0 DEF CpRespond, TypeOK
  <2> QED
    BY <1>12, <2>3, <2>4 DEF CpRespond, TypeOK
<1>13. CASE DispatchNoMap
  <2>1. inbox' \in Seq(Message)
    BY <1>13 DEF DispatchNoMap, TypeOK
  <2> QED
    BY <1>13, <2>1 DEF DispatchNoMap, TypeOK
<1>14. CASE Dispatch
  <2>1. inbox' \in Seq(Message) /\ hmsg' \in Message
    BY <1>14 DEF Dispatch, TypeOK
  <2>2. hslot' \in Slots /\ hpc' \in {"ack", "copy"}
    BY <1>14, FirstIsIn DEF Dispatch, SlotsWithTid
  <2> QED
    BY <1>14, <1>0, <2>1, <2>2 DEF Dispatch, TypeOK
<1>15. CASE HandleAck \/ HandleResponse
  <2>2. map' \in [Slots -> Slot]
    BY <1>15, HandleAckEffect, HandleResponseEffect
  <2> QED
    BY <1>15, <2>2 DEF HandleAck, HandleResponse, HandlerDone, TypeOK
<1>16. CASE CopyCb
  <2>1. filled' \in [Tasks -> CallOrNone]
    BY <1>16, <1>0 DEF CopyCb, TypeOK
  <2>2. stray' \subseteq Slots
    BY <1>16 DEF CopyCb, TypeOK
  <2> QED
    BY <1>16, <2>1, <2>2 DEF CopyCb, TypeOK
<1>17. CASE UNCHANGED vars
  BY <1>17 DEF vars, TypeOK
<1> QED
  BY <1>1, <1>2, <1>3, <1>4, <1>5, <1>6, <1>7, <1>8, <1>9, <1>10, <1>11, <1>12,
     <1>13, <1>14, <1>15, <1>16, <1>17 DEF Next

(***************************************************************************)
(* The fields of sTaskRequestMap, the ids and the steps of the tasks and   *)
(* of the message thread keep their types; the id counter skips 0.         *)
(***************************************************************************)
THEOREM TypeCorrect == Spec => []TypeOK
  BY InitType, TypeStep, PTL DEF Spec
-----------------------------------------------------------------------------
(***************************************************************************)
(* The invariant.  Its first four parts hold whatever times out.           *)
(***************************************************************************)

\* A slot is its owner's: a task has at most one, and works on its own.
Owned ==
  /\ \A t \in Tasks : pc[t] # "idle" => t \in alive /\ map[slot[t]].task = t
  /\ \A s1, s2 \in Slots :
       map[s1].task = map[s2].task /\ map[s1].task # NoTask => s1 = s2


LEMMA OwnedStep ==
  ASSUME TypeOK, Owned, [Next]_vars
  PROVE  Owned'
<1> USE DEF taskVars, resultVars, handlerVars, ghostVars
<1>0. 0 \notin Slots /\ \A t \in Tasks : pc[t] # "idle" => slot[t] \in Slots
  BY ReadTypes DEF TypeOK
<1>1. ASSUME NEW t \in Tasks, Spawn(t) \/ Exit(t) PROVE Owned'
  BY <1>1 DEF Spawn, Exit, Owned
<1>2. ASSUME NEW t \in Tasks, FoundMap(t) \/ NewMap(t) PROVE Owned'
  <2>1. PICK s \in Slots :
          /\ ResetSlot(s, t) /\ slot' = [slot EXCEPT ![t] = s] /\ TakeTid(t)
          /\ \/ map[s].task = t
             \/ map[s].task = NoTask /\ \A x \in Slots : map[x].task # t
          /\ alive' = alive
    BY <1>2, SlotFound
  <2>2. /\ OthersKept(s) /\ map'[s].task = t
        /\ pc' = [pc EXCEPT ![t] = "publish"]
    BY <2>1, ResetEffect
  <2>3. t \in alive /\ \A x \in Tasks : pc[x] # "idle" => slot[x] # s
    BY <2>1, SyncAssumption DEF SyncAssumption, TakeTid, Owned
  <2>4. \A x \in Tasks :
          /\ x = t => pc'[x] # "idle" /\ slot'[x] = s
          /\ x # t => pc'[x] = pc[x] /\ slot'[x] = slot[x]
    BY <2>1, <2>2 DEF TypeOK
  <2>5. \A x \in Tasks : pc'[x] # "idle" => x \in alive' /\ map'[slot'[x]].task = x
    BY <1>0, <2>1, <2>2, <2>3, <2>4 DEF Owned, OthersKept
  <2>6. \A s1, s2 \in Slots :
          map'[s1].task = map'[s2].task /\ map'[s1].task # NoTask => s1 = s2
    BY <2>1, <2>2 DEF Owned, OthersKept
  <2> QED
    BY <2>5, <2>6 DEF Owned
<1>3. ASSUME NEW t \in Tasks, RecycleMap(t) PROVE Owned'
  <2> DEFINE s == First(DeadSlots)
  <2>1. /\ s \in DeadSlots /\ s \in Slots /\ slot' = [slot EXCEPT ![t] = s]
        /\ OthersKept(s) /\ map'[s].task = t
    BY <1>3, RecycleEffect
  <2>2. /\ t \in alive /\ alive' = alive /\ pc' = [pc EXCEPT ![t] = "reset"]
        /\ \A x \in Slots : map[x].task # t
    BY <1>3 DEF RecycleMap, TakeTid, Goto, SlotsOf
  <2>3. \A x \in Tasks : pc[x] # "idle" => slot[x] # s
    BY <2>1 DEF DeadSlots, Owned
  <2> HIDE DEF s
  <2>4. \A x \in Tasks :
          /\ x = t => pc'[x] # "idle" /\ slot'[x] = s
          /\ x # t => pc'[x] = pc[x] /\ slot'[x] = slot[x]
    BY <2>1, <2>2 DEF TypeOK
  <2>5. \A x \in Tasks : pc'[x] # "idle" => x \in alive' /\ map'[slot'[x]].task = x
    BY <1>0, <2>1, <2>2, <2>3, <2>4 DEF Owned, OthersKept
  <2>6. \A s1, s2 \in Slots :
          map'[s1].task = map'[s2].task /\ map'[s1].task # NoTask => s1 = s2
    BY <2>1, <2>2 DEF Owned, OthersKept
  <2> QED
    BY <2>5, <2>6 DEF Owned
<1>4. ASSUME NEW t \in Tasks, NoMap(t) PROVE Owned'
  BY <1>4 DEF NoMap, Owned
<1>5. ASSUME NEW s \in Slots, OthersKept(s), map'[s].task = map[s].task,
             alive' = alive, slot' = slot,
             \A x \in Tasks : pc'[x] # "idle" => pc[x] # "idle"
      PROVE  Owned'
  BY <1>0, <1>5 DEF Owned, OthersKept
<1>6. ASSUME NEW t \in Tasks, ResetRecycled(t) PROVE Owned'
  <2>1. slot[t] \in Slots /\ t \in alive /\ map[slot[t]].task = t
    BY <1>6, <1>0 DEF ResetRecycled, Owned
  <2>2. /\ OthersKept(slot[t]) /\ map'[slot[t]].task = t
        /\ pc' = [pc EXCEPT ![t] = "publish"]
    BY <1>6, <2>1, ResetEffect DEF ResetRecycled
  <2>3. \A x \in Tasks : pc'[x] # "idle" => pc[x] # "idle"
    BY <1>6, <2>2 DEF ResetRecycled, TypeOK
  <2> QED
    BY <1>5, <1>6, <2>1, <2>2, <2>3 DEF ResetRecycled
<1>7. ASSUME NEW t \in Tasks, Publish(t) PROVE Owned'
  <2>1. \A x \in Tasks : pc'[x] # "idle" => pc[x] # "idle"
    BY <1>7 DEF Publish, SendRequest, Goto, TypeOK
  <2> QED
    BY <1>5, <1>7, <2>1, PublishEffect DEF Publish
<1>8. ASSUME NEW t \in Tasks, LockResponseBuffer(t) PROVE Owned'
  <2>1. \A x \in Tasks : pc'[x] # "idle" => pc[x] # "idle"
    BY <1>8 DEF LockResponseBuffer, SendRequest, Goto, TypeOK
  <2> QED
    BY <1>5, <1>8, <2>1, LockEffect DEF LockResponseBuffer
<1>9. ASSUME NEW t \in Tasks, AckObtain(t) \/ RspObtain(t) PROVE Owned'
  <2>1. \A x \in Tasks : pc'[x] # "idle" => pc[x] # "idle"
    BY <1>9 DEF AckObtain, RspObtain, ReadAck, ReadRsp, Goto, TypeOK
  <2> QED
    BY <1>5, <1>9, <2>1, ObtainEffect DEF AckObtain, RspObtain
<1>10. ASSUME NEW t \in Tasks, Timeout(t) \/ ReadLate(t) PROVE Owned'
  <2>1. \A x \in Tasks : pc'[x] # "idle" => pc[x] # "idle"
    BY <1>10 DEF Timeout, ReadLate, ReadAck, ReadRsp, Goto, TypeOK
  <2> QED
    BY <1>10, <2>1 DEF Timeout, ReadLate, Owned
<1>11. ASSUME NEW t \in Tasks, Return(t) PROVE Owned'
  <2>1. /\ \A x \in Tasks : pc'[x] # "idle" => pc[x] # "idle" /\ slot'[x] = slot[x]
        /\ alive' = alive
    BY <1>11 DEF Return, Goto, TypeOK
  <2>2. slot[t] \in Slots /\ OthersKept(slot[t]) /\ map'[slot[t]].task = map[slot[t]].task
    BY <1>11, ReturnEffect
  <2> QED
    BY <1>0, <2>1, <2>2 DEF Owned, OthersKept
<1>12. ASSUME NEW c \in Calls, CpAck(c) \/ CpRespond(c) PROVE Owned'
  BY <1>12 DEF CpAck, CpRespond, Owned
<1>13. CASE DispatchNoMap \/ Dispatch \/ CopyCb
  BY <1>13 DEF DispatchNoMap, Dispatch, CopyCb, Owned
<1>14. CASE HandleAck
  BY <1>5, <1>14, HandleAckEffect DEF HandleAck
<1>15. CASE HandleResponse
  BY <1>5, <1>15, HandleResponseEffect DEF HandleResponse
<1>16. CASE UNCHANGED vars
  BY <1>16 DEF vars, Owned
<1> QED
  BY <1>1, <1>2, <1>3, <1>4, <1>6, <1>7, <1>8, <1>9, <1>10, <1>11, <1>12,
     <1>13, <1>14, <1>15, <1>16 DEF Next

LEMMA OwnedHolds == Spec => []Owned
<1>1. Init => Owned
  BY DEF Init, Owned, EmptySlot
<1> QED
  BY <1>1, OwnedStep, TypeCorrect, PTL DEF Spec

\* A task that finds no slot is one more than the owners of all slots.
LEMMA NoMapMeansFull ==
  ASSUME TypeOK, Owned, NEW t \in Tasks, NoMap(t)
  PROVE  Cardinality(alive) > MAX_TASKS_NUM
<1> DEFINE owner == [s \in Slots |-> map[s].task]
           others == alive \ {t}
<1>1. \A s \in Slots : map[s].task \in others /\ map[s].task # NoTask
  BY DEF NoMap, SlotsOf, FreeSlots, DeadSlots
<1>2. owner \in Injection(Slots, others)
  BY <1>1 DEF Owned, Injection, IsInjective
<1>3. IsFiniteSet(alive) /\ Cardinality(alive) \in Nat
  BY FS_Subset, FS_CardinalityType, SyncAssumption DEF SyncAssumption, TypeOK
<1>4. IsFiniteSet(others) /\ Cardinality(others) = Cardinality(alive) - 1
  BY <1>3, FS_RemoveElement DEF NoMap, TakeTid
<1>5. Cardinality(Slots) = MAX_TASKS_NUM
  BY FS_Interval, SyncAssumption DEF SyncAssumption, Slots
<1>6. Cardinality(Slots) <= Cardinality(others)
  BY <1>2, <1>4, FS_Injection
<1> QED
  BY <1>3, <1>4, <1>5, <1>6, SyncAssumption DEF SyncAssumption

(***************************************************************************)
(* GetNewMapForCurrentTask, which takes back the slots of tasks that have  *)
(* ended, returns no slot only when more tasks are alive than the table    *)
(* has slots, in whatever order tasks come, call and go.                   *)
(***************************************************************************)
THEOREM TableSuffices == Spec => []TableHasRoom
<1>1. Init => TableHasRoom
  BY DEF Init, TableHasRoom
<1>2. ASSUME TypeOK, Owned, TableHasRoom, [Next]_vars
      PROVE  TableHasRoom'
  <2>1. CASE UNCHANGED vars
    BY <1>2, <2>1 DEF vars, TableHasRoom
  <2>2. CASE \E t \in Tasks : NoMap(t)
    BY <1>2, <2>2, NoMapMeansFull DEF NoMap, TableHasRoom
  <2>3. CASE Next /\ ~\E t \in Tasks : NoMap(t)
    <3>1. up' = up /\ up
      BY <2>3 DEF Next, Spawn, Exit, FoundMap, NewMap, RecycleMap, ResetRecycled,
         Publish, LockResponseBuffer, AckObtain, RspObtain, Timeout, ReadLate, Return,
         CpAck, CpRespond, DispatchNoMap, Dispatch, HandleAck, CopyCb, HandleResponse
    <3> QED
      BY <3>1 DEF TableHasRoom
  <2> QED
    BY <1>2, <2>1, <2>2, <2>3
<1> QED
  BY <1>1, <1>2, TypeCorrect, OwnedHolds, PTL DEF Spec
-----------------------------------------------------------------------------
\* Calls are new when they are made: nothing is under way for a call that is
\* not sent yet, and no slot but the caller's points to its buffer.
Numbered ==
  /\ \A t \in Tasks : pc[t] # "idle" => call[t] \in 1..calls /\ mytid[t] # 0
  /\ \A t1, t2 \in Tasks :
       pc[t1] # "idle" /\ pc[t2] # "idle" /\ call[t1] = call[t2] => t1 = t2
  /\ \A c \in Calls : c > calls => cp[c].st = "none"
  /\ \A t \in Tasks : pc[t] \in {"reset", "publish", "lock"} => cp[call[t]].st = "none"
  /\ \A s \in Slots : map[s].data <= calls /\ (map[s].tid # 0 => map[s].data # 0)
  /\ \A t \in Tasks, s \in Slots :
       pc[t] # "idle" /\ map[s].data = call[t] => s = slot[t]

Unsent == {"reset", "publish", "lock"}

\* A step that makes no call and publishes none.
KeepsCalls ==
  /\ calls' = calls
  /\ \A t \in Tasks : pc'[t] # "idle" =>
       /\ pc[t] # "idle" /\ call'[t] = call[t] /\ mytid'[t] = mytid[t] /\ slot'[t] = slot[t]
       /\ pc'[t] \in Unsent => pc[t] \in Unsent
  /\ \A c \in Calls : cp[c].st = "none" =>
       \/ cp'[c].st = "none"
       \/ \E t \in Tasks : pc[t] # "idle" /\ call[t] = c /\ pc'[t] \notin Unsent
  /\ \A s \in Slots :
       \/ map'[s].data = map[s].data /\ map'[s].tid \in {0, map[s].tid}
       \/ map'[s].data = 0 /\ map'[s].tid = 0

LEMMA KeepsCallsNumbered ==
  ASSUME TypeOK, Numbered, KeepsCalls
  PROVE  Numbered'
<1>0. /\ calls \in Nat /\ Calls \subseteq Nat \ {0}
      /\ \A t \in Tasks : call[t] \in Nat
  BY SyncAssumption DEF SyncAssumption, TypeOK, CallOrNone, Calls
<1>1. \A t \in Tasks : pc'[t] # "idle" => call'[t] \in 1..calls' /\ mytid'[t] # 0
  BY DEF KeepsCalls, Numbered
<1>2. \A t1, t2 \in Tasks :
        pc'[t1] # "idle" /\ pc'[t2] # "idle" /\ call'[t1] = call'[t2] => t1 = t2
  BY DEF KeepsCalls, Numbered
<1>3. \A c \in Calls : c > calls' => cp'[c].st = "none"
  <2> SUFFICES ASSUME NEW c \in Calls, c > calls
               PROVE  cp'[c].st = "none"
    BY DEF KeepsCalls
  <2>1. cp[c].st = "none" /\ \A t \in Tasks : pc[t] # "idle" => call[t] # c
    BY <1>0 DEF Numbered
  <2> QED
    BY <2>1 DEF KeepsCalls
<1>4. \A t \in Tasks : pc'[t] \in Unsent => cp'[call'[t]].st = "none"
  <2> SUFFICES ASSUME NEW t \in Tasks, pc'[t] \in Unsent
               PROVE  cp'[call'[t]].st = "none"
    OBVIOUS
  <2>1. pc[t] \in Unsent /\ pc[t] # "idle" /\ call'[t] = call[t]
    BY DEF KeepsCalls, Unsent
  <2>2. call[t] \in Calls /\ cp[call[t]].st = "none"
    BY <2>1, <1>0 DEF Numbered, Unsent, TypeOK, CallOrNone
  <2>3. \A x \in Tasks : pc[x] # "idle" /\ call[x] = call[t] => x = t
    BY <2>1 DEF Numbered
  <2> QED
    BY <2>1, <2>2, <2>3 DEF KeepsCalls
<1>5. \A s \in Slots : map'[s].data <= calls' /\ (map'[s].tid # 0 => map'[s].data # 0)
  BY <1>0 DEF KeepsCalls, Numbered
<1>6. \A t \in Tasks, s \in Slots :
        pc'[t] # "idle" /\ map'[s].data = call'[t] => s = slot'[t]
  BY <1>0 DEF KeepsCalls, Numbered
<1> QED
  BY <1>1, <1>2, <1>3, <1>4, <1>5, <1>6 DEF Numbered, Unsent

\* Everything is such a step but the beginning of a call and its publication.
LEMMA MostKeepCalls ==
  ASSUME TypeOK, Numbered, [Next]_vars,
         ~\E t \in Tasks : TakeTid(t) \/ Publish(t)
  PROVE  KeepsCalls
<1> USE DEF taskVars, resultVars, handlerVars, ghostVars
<1>0. \A t \in Tasks : pc[t] # "idle" => slot[t] \in Slots
  BY DEF TypeOK
<1>1. ASSUME NEW t \in Tasks, Spawn(t) \/ Exit(t) PROVE KeepsCalls
  BY <1>1 DEF Spawn, Exit, KeepsCalls
<1>2. ASSUME NEW t \in Tasks, ResetRecycled(t) PROVE KeepsCalls
  <2>1. slot[t] \in Slots
    BY <1>0, <1>2 DEF ResetRecycled
  <2>2. /\ OthersKept(slot[t]) /\ map'[slot[t]].tid = 0 /\ map'[slot[t]].data = 0
        /\ pc' = [pc EXCEPT ![t] = "publish"]
    BY <1>2, <2>1, ResetEffect DEF ResetRecycled
  <2>3. \A s \in Slots :
          \/ map'[s].data = map[s].data /\ map'[s].tid \in {0, map[s].tid}
          \/ map'[s].data = 0 /\ map'[s].tid = 0
    BY <2>2 DEF OthersKept
  <2>4. \A x \in Tasks : pc'[x] # "idle" => pc[x] # "idle" /\ (pc'[x] \in Unsent => pc[x] \in Unsent)
    BY <1>2, <2>2 DEF ResetRecycled, TypeOK, Unsent
  <2> QED
    BY <1>2, <2>3, <2>4 DEF ResetRecycled, KeepsCalls
<1>3. ASSUME NEW s \in Slots, OthersKept(s), map'[s].data = map[s].data,
             map'[s].tid \in {0, map[s].tid}
      PROVE  \A x \in Slots : map'[x].data = map[x].data /\ map'[x].tid \in {0, map[x].tid}
  BY <1>3 DEF OthersKept
<1>4. ASSUME NEW t \in Tasks, LockResponseBuffer(t) PROVE KeepsCalls
  <2>1. \A x \in Slots : map'[x].data = map[x].data /\ map'[x].tid \in {0, map[x].tid}
    BY <1>3, <1>4, LockEffect
  <2>2. /\ pc[t] = "lock" /\ pc'[t] = "ack"
        /\ \A x \in Tasks : x # t => pc'[x] = pc[x]
    BY <1>4 DEF LockResponseBuffer, SendRequest, Goto, TypeOK
  <2>3. \A c \in Calls : c # call[t] => cp'[c] = cp[c]
    BY <1>4 DEF LockResponseBuffer, SendRequest, TypeOK
  <2> QED
    BY <1>4, <2>1, <2>2, <2>3 DEF LockResponseBuffer, KeepsCalls, Unsent
<1>5. ASSUME NEW t \in Tasks, AckObtain(t) \/ RspObtain(t) PROVE KeepsCalls
  <2>1. \A x \in Slots : map'[x].data = map[x].data /\ map'[x].tid \in {0, map[x].tid}
    BY <1>3, <1>5, ObtainEffect
  <2>2. /\ pc[t] # "idle" /\ pc'[t] \in {"rsp", "done"}
        /\ \A x \in Tasks : x # t => pc'[x] = pc[x]
    BY <1>5 DEF AckObtain, RspObtain, ReadAck, ReadRsp, Goto, TypeOK
  <2> QED
    BY <1>5, <2>1, <2>2 DEF AckObtain, RspObtain, KeepsCalls, Unsent
<1>6. ASSUME NEW t \in Tasks, Timeout(t) \/ ReadLate(t) PROVE KeepsCalls
  <2>2. /\ pc[t] # "idle" /\ pc'[t] \in {"readAck", "readRsp", "rsp", "done"}
        /\ \A x \in Tasks : x # t => pc'[x] = pc[x]
    BY <1>6 DEF Timeout, ReadLate, ReadAck, ReadRsp, Goto, TypeOK
  <2> QED
    BY <1>6, <2>2 DEF Timeout, ReadLate, KeepsCalls, Unsent
<1>7. ASSUME NEW t \in Tasks, Return(t) PROVE KeepsCalls
  <2>1. \A x \in Slots : map'[x].data = map[x].data /\ map'[x].tid \in {0, map[x].tid}
    BY <1>3, <1>7, ReturnEffect
  <2>2. \A x \in Tasks :
          /\ x # t => pc'[x] = pc[x] /\ call'[x] = call[x] /\ mytid'[x] = mytid[x]
                      /\ slot'[x] = slot[x]
          /\ x = t => pc'[x] = "idle"
    BY <1>7 DEF Return, Goto, TypeOK
  <2> QED
    BY <1>7, <2>1, <2>2 DEF Return, KeepsCalls, Unsent
<1>8. ASSUME NEW c \in Calls, CpAck(c) \/ CpRespond(c) PROVE KeepsCalls
  <2>1. cp[c].st # "none" /\ \A x \in Calls : x # c => cp'[x] = cp[x]
    BY <1>8 DEF CpAck, CpRespond, TypeOK
  <2> QED
    BY <1>8, <2>1 DEF CpAck, CpRespond, KeepsCalls
<1>9. CASE DispatchNoMap \/ Dispatch \/ CopyCb
  BY <1>9 DEF DispatchNoMap, Dispatch, CopyCb, KeepsCalls
<1>10. CASE HandleAck
  <2>1. \A x \in Slots : map'[x].data = map[x].data /\ map'[x].tid \in {0, map[x].tid}
    BY <1>3, <1>10, HandleAckEffect
  <2> QED
    BY <1>10, <2>1 DEF HandleAck, KeepsCalls
<1>11. CASE HandleResponse
  <2>1. \A x \in Slots : map'[x].data = map[x].data /\ map'[x].tid \in {0, map[x].tid}
    BY <1>3, <1>11, HandleResponseEffect
  <2> QED
    BY <1>11, <2>1 DEF HandleResponse, KeepsCalls
<1>12. CASE UNCHANGED vars
  BY <1>12 DEF vars, KeepsCalls
<1> QED
  BY <1>1, <1>2, <1>4, <1>5, <1>6, <1>7, <1>8, <1>9, <1>10, <1>11, <1>12
     DEF Next, FoundMap, NewMap, RecycleMap, NoMap

\* A call begins; an old call may stay in the slot for a while.
BeginsCall(t, s) ==
  /\ TakeTid(t) /\ pc'[t] \in {"reset", "publish"} /\ slot'[t] = s
  /\ \A x \in Tasks : x # t => pc'[x] = pc[x] /\ slot'[x] = slot[x]
  /\ OthersKept(s)
  /\ \/ map'[s].data = map[s].data /\ map'[s].tid = map[s].tid
     \/ map'[s].data = 0 /\ map'[s].tid = 0
  /\ UNCHANGED <<alive, up, resultVars, cp, inbox, handlerVars, late, stray>>

LEMMA TakeTidCases ==
  ASSUME TypeOK, [Next]_vars, NEW t \in Tasks, TakeTid(t)
  PROVE  (\E s \in Slots : BeginsCall(t, s)) \/ NoMap(t)
<1>1. ASSUME NEW x \in Tasks, FoundMap(x) \/ NewMap(x)
      PROVE  \E s \in Slots : BeginsCall(x, s)
  <2>1. PICK s \in Slots :
          /\ ResetSlot(s, x) /\ slot' = [slot EXCEPT ![x] = s] /\ TakeTid(x)
          /\ UNCHANGED <<alive, up, resultVars, cp, inbox, handlerVars, late, stray>>
    BY <1>1, SlotFound
  <2>2. /\ OthersKept(s) /\ map'[s].tid = 0 /\ map'[s].data = 0
        /\ pc' = [pc EXCEPT ![x] = "publish"]
    BY <2>1, ResetEffect
  <2> QED
    BY <2>1, <2>2 DEF BeginsCall, TypeOK
<1>2. ASSUME NEW x \in Tasks, RecycleMap(x)
      PROVE  \E s \in Slots : BeginsCall(x, s)
  <2> DEFINE s == First(DeadSlots)
  <2>1. /\ s \in Slots /\ slot' = [slot EXCEPT ![x] = s] /\ OthersKept(s)
        /\ map'[s].tid = map[s].tid /\ map'[s].data = map[s].data
    BY <1>2, RecycleEffect
  <2> HIDE DEF s
  <2> QED
    BY <1>2, <2>1 DEF RecycleMap, Goto, BeginsCall, TypeOK, ghostVars
<1>3. calls' = calls + 1 /\ calls \in Nat /\ \A x \in Tasks : x # t => call'[x] = call[x]
  BY SyncAssumption DEF SyncAssumption, TakeTid, TypeOK, CallOrNone, Calls
<1>4. ASSUME NEW x \in Tasks, TakeTid(x)
      PROVE  x = t
  <2>1. mytid'[x] = sCurrTID /\ mytid[x] # sCurrTID
    BY <1>4 DEF TakeTid, TidsInUse, TypeOK
  <2>2. x # t => mytid'[x] = mytid[x]
    BY DEF TakeTid, TypeOK
  <2> QED
    BY <2>1, <2>2
<1>5. \E x \in Tasks : FoundMap(x) \/ NewMap(x) \/ RecycleMap(x) \/ NoMap(x)
  <2>1. calls' # calls
    BY <1>3
  <2> QED
    BY <2>1 DEF Next, vars, Spawn, Exit, ResetRecycled,
         Publish, LockResponseBuffer, AckObtain, RspObtain, Timeout, ReadLate, Return,
         CpAck, CpRespond, DispatchNoMap, Dispatch, HandleAck, CopyCb, HandleResponse
<1> QED
  BY <1>1, <1>2, <1>4, <1>5 DEF FoundMap, NewMap, RecycleMap, NoMap

LEMMA NumberedStep ==
  ASSUME TypeOK, Owned, Numbered, [Next]_vars
  PROVE  Numbered'
<1>0. /\ calls \in Nat /\ Calls \subseteq Nat \ {0} /\ sCurrTID # 0
      /\ \A x \in Tasks : call[x] \in Nat
      /\ \A s \in Slots : map[s].data \in Nat
  BY SyncAssumption DEF SyncAssumption, TypeOK, CallOrNone, Calls, Slot
<1>1. ASSUME NEW t \in Tasks, NEW s \in Slots, BeginsCall(t, s)
      PROVE  Numbered'
  <2>1. /\ calls' = calls + 1 /\ call'[t] = calls + 1 /\ mytid'[t] = sCurrTID
        /\ \A x \in Tasks : x # t => call'[x] = call[x] /\ mytid'[x] = mytid[x]
        /\ calls + 1 \in Calls /\ pc[t] = "idle"
    BY <1>1, SyncAssumption DEF SyncAssumption, BeginsCall, TakeTid, TypeOK, CallOrNone, Calls
  <2>2. /\ cp' = cp /\ pc'[t] \in {"reset", "publish"} /\ slot'[t] = s
        /\ \A x \in Tasks : x # t => pc'[x] = pc[x] /\ slot'[x] = slot[x]
    BY <1>1 DEF BeginsCall
  <2>3. \A x \in Slots :
          \/ map'[x].data = map[x].data /\ map'[x].tid = map[x].tid
          \/ map'[x].data = 0 /\ map'[x].tid = 0
    BY <1>1 DEF BeginsCall, OthersKept
  <2>4. \A x \in Tasks : pc'[x] # "idle" => call'[x] \in 1..calls' /\ mytid'[x] # 0
    BY <1>0, <2>1, <2>2 DEF Numbered
  <2>5. \A t1, t2 \in Tasks :
          pc'[t1] # "idle" /\ pc'[t2] # "idle" /\ call'[t1] = call'[t2] => t1 = t2
    BY <1>0, <2>1, <2>2 DEF Numbered
  <2>6. \A c \in Calls : c > calls' => cp'[c].st = "none"
    BY <1>0, <2>1, <2>2 DEF Numbered
  <2>7. \A x \in Tasks : pc'[x] \in {"reset", "publish", "lock"} => cp'[call'[x]].st = "none"
    BY <1>0, <2>1, <2>2 DEF Numbered
  <2>8. \A x \in Slots : map'[x].data <= calls' /\ (map'[x].tid # 0 => map'[x].data # 0)
    BY <1>0, <2>1, <2>3 DEF Numbered
  <2>9. \A x \in Tasks, y \in Slots :
          pc'[x] # "idle" /\ map'[y].data = call'[x] => y = slot'[x]
    BY <1>0, <2>1, <2>2, <2>3 DEF Numbered
  <2> QED
    BY <2>4, <2>5, <2>6, <2>7, <2>8, <2>9 DEF Numbered
<1>2. ASSUME NEW t \in Tasks, NoMap(t) PROVE Numbered'
  <2>1. /\ calls' = calls + 1 /\ pc[t] = "idle" /\ pc' = pc /\ slot' = slot /\ map' = map
        /\ \A x \in Tasks : x # t => call'[x] = call[x] /\ mytid'[x] = mytid[x]
        /\ cp' = cp
    BY <1>2 DEF NoMap, TakeTid, TypeOK
  <2>2. \A x \in Tasks : pc[x] # "idle" => x # t /\ call'[x] = call[x] /\ mytid'[x] = mytid[x]
    BY <2>1
  <2>3. \A x \in Tasks : pc'[x] # "idle" => call'[x] \in 1..calls' /\ mytid'[x] # 0
    BY <1>0, <2>1, <2>2 DEF Numbered
  <2>4. \A t1, t2 \in Tasks :
          pc'[t1] # "idle" /\ pc'[t2] # "idle" /\ call'[t1] = call'[t2] => t1 = t2
    BY <2>1, <2>2 DEF Numbered
  <2>5. \A x \in Tasks : pc'[x] \in {"reset", "publish", "lock"} => cp'[call'[x]].st = "none"
    BY <2>1, <2>2 DEF Numbered
  <2>6. /\ \A c \in Calls : c > calls' => cp'[c].st = "none"
        /\ \A x \in Slots : map'[x].data <= calls' /\ (map'[x].tid # 0 => map'[x].data # 0)
    BY <1>0, <2>1 DEF Numbered
  <2>7. \A x \in Tasks, y \in Slots :
          pc'[x] # "idle" /\ map'[y].data = call'[x] => y = slot'[x]
    BY <2>1, <2>2 DEF Numbered
  <2> QED
    BY <2>3, <2>4, <2>5, <2>6, <2>7 DEF Numbered
<1>3. ASSUME NEW t \in Tasks, Publish(t) PROVE Numbered'
  <2> DEFINE s == slot[t]
  <2>1. /\ s \in Slots /\ OthersKept(s) /\ map'[s].tid = mytid[t] /\ map'[s].data = call[t]
    BY <1>3, PublishEffect
  <2>2. /\ calls' = calls /\ call' = call /\ mytid' = mytid /\ slot' = slot
        /\ pc[t] = "publish" /\ pc'[t] \in {"lock", "ack"}
        /\ \A x \in Tasks : x # t => pc'[x] = pc[x]
        /\ \A c \in Calls : (c = call[t] /\ pc'[t] = "ack") \/ cp'[c] = cp[c]
    BY <1>3 DEF Publish, SendRequest, Goto, TypeOK
  <2>3. call[t] \in 1..calls /\ call[t] \in Calls /\ mytid[t] # 0
    BY <1>0, <2>2 DEF Numbered, TypeOK, CallOrNone
  <2>4. \A x \in Tasks : pc'[x] # "idle" => call'[x] \in 1..calls' /\ mytid'[x] # 0
    BY <2>2, <2>3 DEF Numbered
  <2>5. \A t1, t2 \in Tasks :
          pc'[t1] # "idle" /\ pc'[t2] # "idle" /\ call'[t1] = call'[t2] => t1 = t2
    BY <2>2 DEF Numbered
  <2>6. \A c \in Calls : c > calls' => cp'[c].st = "none"
    BY <1>0, <2>2, <2>3 DEF Numbered
  <2>7. \A x \in Tasks : pc'[x] \in {"reset", "publish", "lock"} => cp'[call'[x]].st = "none"
    <3> SUFFICES ASSUME NEW x \in Tasks, pc'[x] \in {"reset", "publish", "lock"}
                 PROVE  cp'[call[x]].st = "none"
      BY <2>2
    <3>0. pc[x] \in {"reset", "publish", "lock"}
      BY <2>2
    <3>1. pc[x] # "idle" /\ call[x] \in Calls
      BY <1>0, <3>0 DEF Numbered, TypeOK, CallOrNone
    <3>2. x = t \/ call[x] # call[t]
      BY <2>2, <3>1 DEF Numbered
    <3> QED
      BY <2>2, <3>0, <3>1, <3>2 DEF Numbered
  <2>8. \A x \in Slots : map'[x].data <= calls' /\ (map'[x].tid # 0 => map'[x].data # 0)
    BY <1>0, <2>1, <2>2, <2>3 DEF Numbered, OthersKept
  <2>9. \A x \in Tasks, y \in Slots :
          pc'[x] # "idle" /\ map'[y].data = call'[x] => y = slot'[x]
    BY <1>0, <2>1, <2>2, <2>3 DEF Numbered, OthersKept
  <2> QED
    BY <2>4, <2>5, <2>6, <2>7, <2>8, <2>9 DEF Numbered
<1>4. CASE ~\E t \in Tasks : TakeTid(t) \/ Publish(t)
  BY <1>4, MostKeepCalls, KeepsCallsNumbered
<1> QED
  BY <1>1, <1>2, <1>3, <1>4, TakeTidCases

LEMMA NumberedHolds == Spec => []Numbered
<1>1. Init => Numbered
  <2> SUFFICES ASSUME Init PROVE Numbered
    OBVIOUS
  <2>1. \A s \in Slots : map[s].data = 0 /\ map[s].tid = 0
    BY DEF Init, EmptySlot
  <2> QED
    BY <2>1 DEF Init, Numbered
<1> QED
  BY <1>1, NumberedStep, TypeCorrect, OwnedHolds, PTL DEF Spec
-----------------------------------------------------------------------------
\* What the CP sends for a call: an ack, and after it, if that is positive
\* and final, a response; when it has sent the last it is done with the call.
MsgOK(m, req) ==
  /\ m.tid # 0
  /\ req[m.call].st \in {"accepted", "over"}
  /\ m.kind = "rsp" \/ ~m.ok \/ m.pending => req[m.call].st = "over"

InOrder(m1, m2) ==
  m1.call = m2.call => m1.kind = "ack" /\ m1.ok /\ ~m1.pending /\ m2.kind = "rsp"

Protocol ==
  /\ \A c \in Calls : cp[c].st \in {"asked", "accepted"} => cp[c].tid # 0
  /\ \A i \in 1..Len(inbox) : MsgOK(inbox[i], cp)
  /\ \A i, j \in 1..Len(inbox) : i < j => InOrder(inbox[i], inbox[j])
  /\ hpc # "idle" =>
       /\ hmsg \in Message /\ MsgOK(hmsg, cp)
       /\ hpc = "ack" <=> hmsg.kind = "ack"
       /\ \A i \in 1..Len(inbox) : InOrder(hmsg, inbox[i])

\* A message of a sequence is a message.
LEMMA InboxTypes ==
  ASSUME TypeOK
  PROVE  /\ Len(inbox) \in Nat
         /\ \A i \in 1..Len(inbox) : inbox[i] \in Message /\ inbox[i].call \in Calls
         /\ hmsg \in Message => hmsg.call \in Calls
<1>1. inbox \in Seq(Message)
  BY DEF TypeOK
<1>2. Len(inbox) \in Nat /\ \A i \in 1..Len(inbox) : inbox[i] \in Message
  BY <1>1
<1>3. \A m \in Message : m.call \in Calls
  BY DEF Message
<1> QED
  BY <1>2, <1>3

\* The message thread takes the first message.
LEMMA TakesHead ==
  ASSUME TypeOK, inbox # <<>>, inbox' = Tail(inbox)
  PROVE  /\ 1 \in 1..Len(inbox) /\ Head(inbox) = inbox[1]
         /\ Len(inbox') = Len(inbox) - 1
         /\ \A i \in 1..Len(inbox') : i + 1 \in 1..Len(inbox) /\ inbox'[i] = inbox[i + 1]
<1>1. inbox \in Seq(Message) /\ Len(inbox) \in Nat /\ Len(inbox) # 0
  BY DEF TypeOK
<1> QED
  BY <1>1

LEMMA CpSends ==
  ASSUME TypeOK, NEW m \in Message, inbox' = Append(inbox, m)
  PROVE  /\ Len(inbox') = Len(inbox) + 1 /\ inbox'[Len(inbox) + 1] = m
         /\ \A i \in 1..Len(inbox) : inbox'[i] = inbox[i]
BY DEF TypeOK

\* A request is sent for a call of which the CP has not heard.
LEMMA SendKeepsProtocol ==
  ASSUME TypeOK, Numbered, Protocol, NEW t \in Tasks, SendRequest(t),
         pc[t] \in {"publish", "lock"},
         UNCHANGED <<inbox, hpc, hmsg>>
  PROVE  Protocol'
<1>1. call[t] \in Calls /\ mytid[t] # 0 /\ cp[call[t]].st = "none"
  <2>1. pc[t] # "idle" /\ pc[t] \in {"reset", "publish", "lock"}
    OBVIOUS
  <2>2. call[t] # 0 /\ call[t] \in CallOrNone
    BY <2>1 DEF Numbered, TypeOK
  <2> QED
    BY <2>1, <2>2 DEF Numbered, CallOrNone
<1>2. /\ cp'[call[t]] = [st |-> "asked", tid |-> mytid[t]]
      /\ \A c \in Calls : c # call[t] => cp'[c] = cp[c]
  BY <1>1 DEF SendRequest, TypeOK
<1>3. ASSUME NEW m \in Message, MsgOK(m, cp)
      PROVE  MsgOK(m, cp')
  <2>1. m.call \in Calls
    BY DEF Message
  <2> QED
    BY <1>1, <1>2, <1>3, <2>1 DEF MsgOK
<1>4. \A c \in Calls : cp'[c].st \in {"asked", "accepted"} => cp'[c].tid # 0
  BY <1>1, <1>2 DEF Protocol
<1>5. \A i \in 1..Len(inbox) : MsgOK(inbox[i], cp')
  BY <1>3, InboxTypes DEF Protocol, MsgOK
<1>6. hpc # "idle" => MsgOK(hmsg, cp')
  BY <1>3 DEF Protocol, MsgOK
<1> QED
  BY <1>4, <1>5, <1>6 DEF Protocol, InOrder, MsgOK

\* The CP sends the ack of a request, or the response to one it has accepted.
CpStep(c, m) ==
  /\ m.call = c /\ m.tid = cp[c].tid /\ inbox' = Append(inbox, m)
  /\ cp[c].st \in {"asked", "accepted"}
  /\ m.kind = IF cp[c].st = "asked" THEN "ack" ELSE "rsp"
  /\ \A x \in Calls : x # c => cp'[x] = cp[x]
  /\ cp'[c].st = IF m.kind = "ack" /\ m.ok /\ ~m.pending THEN "accepted" ELSE "over"
  /\ cp'[c].tid \in {0, cp[c].tid}
  /\ cp'[c].st = "accepted" => cp'[c].tid = cp[c].tid
  /\ UNCHANGED <<sCurrTID, map, alive, up, taskVars, calls, handlerVars, ghostVars>>

LEMMA CpEffect ==
  ASSUME TypeOK, NEW c \in Calls, CpAck(c) \/ CpRespond(c)
  PROVE  \E m \in Message : CpStep(c, m)
<1>0. cp[c].tid \in Tids /\ cp[c].st \in {"none", "asked", "accepted", "over"}
  BY DEF TypeOK
<1>1. CASE CpAck(c)
  <2>1. PICK ok \in BOOLEAN, pending \in BOOLEAN :
       /\ inbox' = Append(inbox, [kind |-> "ack", tid |-> cp[c].tid, call |-> c,
                                  ok |-> ok, pending |-> pending])
       /\ cp' = [cp EXCEPT ![c] = IF ok /\ ~pending THEN [@ EXCEPT !.st = "accepted"]
                                     ELSE [st |-> "over", tid |-> 0]]
    BY <1>1 DEF CpAck
  <2> DEFINE m == [kind |-> "ack", tid |-> cp[c].tid, call |-> c,
                   ok |-> ok, pending |-> pending]
  <2>2. /\ m \in Message /\ m.call = c /\ m.tid = cp[c].tid /\ m.kind = "ack"
        /\ m.ok = ok /\ m.pending = pending /\ inbox' = Append(inbox, m)
    BY <1>0, <2>1 DEF Message
  <2>3. /\ \A x \in Calls : x # c => cp'[x] = cp[x]
        /\ ok /\ ~pending => cp'[c].st = "accepted" /\ cp'[c].tid = cp[c].tid
        /\ ~(ok /\ ~pending) => cp'[c].st = "over" /\ cp'[c].tid = 0
    BY <1>0, <2>1 DEF TypeOK
  <2>4. /\ cp[c].st = "asked"
        /\ UNCHANGED <<sCurrTID, map, alive, up, taskVars, calls, handlerVars, ghostVars>>
    BY <1>1 DEF CpAck
  <2> HIDE DEF m
  <2>5. CpStep(c, m)
    BY <2>2, <2>3, <2>4 DEF CpStep
  <2> QED
    BY <2>2, <2>5
<1>2. CASE CpRespond(c)
  <2> DEFINE m == [kind |-> "rsp", tid |-> cp[c].tid, call |-> c,
                   ok |-> TRUE, pending |-> FALSE]
  <2>2. /\ m \in Message /\ m.call = c /\ m.tid = cp[c].tid /\ m.kind = "rsp"
        /\ inbox' = Append(inbox, m)
    BY <1>0, <1>2 DEF CpRespond, Message
  <2>3. /\ \A x \in Calls : x # c => cp'[x] = cp[x]
        /\ cp'[c].st = "over" /\ cp'[c].tid = 0
    BY <1>2 DEF CpRespond, TypeOK
  <2>4. /\ cp[c].st = "accepted"
        /\ UNCHANGED <<sCurrTID, map, alive, up, taskVars, calls, handlerVars, ghostVars>>
    BY <1>2 DEF CpRespond
  <2> HIDE DEF m
  <2>5. CpStep(c, m)
    BY <2>2, <2>3, <2>4 DEF CpStep
  <2> QED
    BY <2>2, <2>5
<1> QED
  BY <1>1, <1>2

LEMMA CpKeepsProtocol ==
  ASSUME TypeOK, Protocol, NEW c \in Calls, NEW m \in Message, CpStep(c, m)
  PROVE  Protocol'
<1>0. /\ m.call = c /\ m.tid = cp[c].tid /\ m.tid # 0 /\ cp[c].st \in {"asked", "accepted"}
      /\ m.kind = IF cp[c].st = "asked" THEN "ack" ELSE "rsp"
      /\ \A x \in Calls : x # c => cp'[x] = cp[x]
      /\ cp'[c].st = IF m.kind = "ack" /\ m.ok /\ ~m.pending THEN "accepted" ELSE "over"
      /\ cp'[c].st = "accepted" => cp'[c].tid # 0
      /\ UNCHANGED <<hpc, hmsg>>
  BY DEF CpStep, Protocol, handlerVars
<1>1. /\ Len(inbox') = Len(inbox) + 1 /\ inbox'[Len(inbox) + 1] = m
      /\ \A i \in 1..Len(inbox) : inbox'[i] = inbox[i]
      /\ Len(inbox) \in Nat
  BY CpSends, InboxTypes DEF CpStep
<1>2. ASSUME NEW x \in Message, MsgOK(x, cp)
      PROVE  MsgOK(x, cp') /\ InOrder(x, m)
  <2>1. x.call \in Calls
    BY DEF Message
  <2>2. CASE x.call # c
    BY <1>0, <1>2, <2>1, <2>2 DEF MsgOK, InOrder
  <2>3. CASE x.call = c
    <3>1. cp[c].st = "accepted" /\ x.kind # "rsp" /\ x.ok /\ ~x.pending
      BY <1>0, <1>2, <2>3 DEF MsgOK
    <3> QED
      BY <1>0, <1>2, <2>3, <3>1 DEF MsgOK, InOrder, Message
  <2> QED
    BY <2>2, <2>3
<1>3. MsgOK(m, cp')
  BY <1>0 DEF MsgOK
<1>4. \A x \in Calls : cp'[x].st \in {"asked", "accepted"} => cp'[x].tid # 0
  BY <1>0 DEF Protocol
<1>5. \A i \in 1..Len(inbox) : MsgOK(inbox[i], cp') /\ InOrder(inbox[i], m)
  BY <1>2, InboxTypes DEF Protocol, MsgOK
<1>6. \A i \in 1..Len(inbox') : i = Len(inbox) + 1 \/ i \in 1..Len(inbox)
  BY <1>1
<1>7. \A i \in 1..Len(inbox') : MsgOK(inbox'[i], cp')
  BY <1>1, <1>3, <1>5, <1>6 DEF MsgOK
<1>8. \A i, j \in 1..Len(inbox') : i < j => InOrder(inbox'[i], inbox'[j])
  BY <1>1, <1>5, <1>6 DEF Protocol
<1>9. hpc # "idle" => MsgOK(hmsg, cp') /\ \A i \in 1..Len(inbox') : InOrder(hmsg, inbox'[i])
  BY <1>1, <1>2, <1>6 DEF Protocol, MsgOK
<1> QED
  BY <1>0, <1>4, <1>7, <1>8, <1>9 DEF Protocol, InOrder

LEMMA ProtocolStep ==
  ASSUME TypeOK, Numbered, Protocol, [Next]_vars
  PROVE  Protocol'
<1> USE DEF taskVars, resultVars, handlerVars, ghostVars
<1>1. CASE UNCHANGED <<cp, inbox, hpc, hmsg>>
  BY <1>1 DEF Protocol, MsgOK, InOrder
<1>2. ASSUME NEW t \in Tasks, Publish(t) \/ LockResponseBuffer(t) PROVE Protocol'
  BY <1>1, <1>2, SendKeepsProtocol DEF Publish, LockResponseBuffer
<1>3. ASSUME NEW c \in Calls, CpAck(c) \/ CpRespond(c) PROVE Protocol'
  BY <1>3, CpEffect, CpKeepsProtocol
<1>4. CASE DispatchNoMap \/ Dispatch
  <2>1. /\ 1 \in 1..Len(inbox) /\ Head(inbox) = inbox[1]
        /\ Len(inbox') = Len(inbox) - 1 /\ Len(inbox) \in Nat
        /\ \A i \in 1..Len(inbox') : i + 1 \in 1..Len(inbox) /\ inbox'[i] = inbox[i + 1]
        /\ cp' = cp /\ hpc = "idle" /\ inbox[1] \in Message
    BY <1>4, TakesHead, InboxTypes DEF DispatchNoMap, Dispatch
  <2>2. \A i \in 1..Len(inbox') : MsgOK(inbox'[i], cp')
    BY <2>1 DEF Protocol
  <2>3. \A i, j \in 1..Len(inbox') : i < j => InOrder(inbox'[i], inbox'[j])
    BY <2>1 DEF Protocol
  <2>4. \A i \in 1..Len(inbox') : InOrder(inbox[1], inbox'[i])
    BY <2>1 DEF Protocol
  <2>5. hpc' # "idle" =>
          /\ hmsg' = inbox[1] /\ MsgOK(inbox[1], cp')
          /\ hpc' = "ack" <=> inbox[1].kind = "ack"
    BY <1>4, <2>1 DEF DispatchNoMap, Dispatch, Protocol, MsgOK
  <2>6. hpc' # "idle" =>
          /\ hmsg' \in Message /\ MsgOK(hmsg', cp')
          /\ hpc' = "ack" <=> hmsg'.kind = "ack"
          /\ \A i \in 1..Len(inbox') : InOrder(hmsg', inbox'[i])
    BY <2>1, <2>4, <2>5 DEF MsgOK
  <2> QED
    BY <2>1, <2>2, <2>3, <2>6 DEF Protocol, InOrder, MsgOK
<1>5. CASE HandleAck \/ HandleResponse
  BY <1>5 DEF HandleAck, HandleResponse, HandlerDone, Protocol, MsgOK, InOrder
<1>6. CASE CopyCb
  BY <1>6 DEF CopyCb, Protocol, MsgOK, InOrder
<1> QED
  BY <1>1, <1>2, <1>3, <1>4, <1>5, <1>6 DEF Next, vars, Spawn, Exit, FoundMap,
     NewMap, RecycleMap, NoMap, ResetRecycled, AckObtain, RspObtain, Timeout, ReadLate, Return

LEMMA ProtocolHolds == Spec => []Protocol
<1>1. Init => Protocol
  BY DEF Init, Protocol
<1> QED
  BY <1>1, ProtocolStep, TypeCorrect, NumberedHolds, PTL DEF Spec
-----------------------------------------------------------------------------
\* Somebody knows id k as the id of call c.
TaskCarries(k, c) == \E t \in Tasks : pc[t] # "idle" /\ mytid[t] = k /\ call[t] = c
CpCarries(k, c) == c \in Calls /\ cp[c].st \in {"asked", "accepted"} /\ cp[c].tid = k
InboxCarries(k, c) == \E i \in 1..Len(inbox) : inbox[i].tid = k /\ inbox[i].call = c
HandlerCarries(k, c) == hpc # "idle" /\ hmsg.tid = k /\ hmsg.call = c
SlotCarries(k, c) == \E s \in Slots : map[s].tid = k /\ map[s].data = c

Carries(k, c) ==
  \/ TaskCarries(k, c) \/ CpCarries(k, c) \/ InboxCarries(k, c)
  \/ HandlerCarries(k, c) \/ SlotCarries(k, c)

\* An id stands for one call, and a call has one id.
TidsUnique ==
  /\ \A k \in Tids \ {0}, c1, c2 \in CallOrNone :
       Carries(k, c1) /\ Carries(k, c2) => c1 = c2
  /\ \A k1, k2 \in Tids \ {0}, c \in Calls :
       Carries(k1, c) /\ Carries(k2, c) => k1 = k2

\* An id moves from the task to the CP, and on with its messages.
LEMMA IdsMove ==
  ASSUME TypeOK, Numbered, [Next]_vars,
         ~\E t \in Tasks : TakeTid(t), NEW k \in Tids \ {0}, NEW c \in CallOrNone
  PROVE  /\ CpCarries(k, c)' => CpCarries(k, c) \/ TaskCarries(k, c)
         /\ InboxCarries(k, c)' => InboxCarries(k, c) \/ CpCarries(k, c)
         /\ HandlerCarries(k, c)' => HandlerCarries(k, c) \/ InboxCarries(k, c)
<1> DEFINE Moved == /\ CpCarries(k, c)' => CpCarries(k, c) \/ TaskCarries(k, c)
                    /\ InboxCarries(k, c)' => InboxCarries(k, c) \/ CpCarries(k, c)
                    /\ HandlerCarries(k, c)' => HandlerCarries(k, c) \/ InboxCarries(k, c)
<1> USE DEF taskVars, resultVars, handlerVars, ghostVars
<1>1. CASE UNCHANGED <<cp, inbox, hpc, hmsg>>
  BY <1>1 DEF CpCarries, InboxCarries, HandlerCarries
<1>2. ASSUME NEW t \in Tasks, Publish(t) \/ LockResponseBuffer(t) PROVE Moved
  <2>1. CASE SendRequest(t)
    <3>1. pc[t] # "idle" /\ UNCHANGED <<inbox, hpc, hmsg>>
      BY <1>2 DEF Publish, LockResponseBuffer
    <3>2. \A x \in Calls :
            \/ cp'[x] = cp[x]
            \/ x = call[t] /\ cp'[x].tid = mytid[t]
      BY <2>1 DEF SendRequest, TypeOK
    <3> QED
      BY <3>1, <3>2 DEF CpCarries, TaskCarries, InboxCarries, HandlerCarries
  <2> QED
    BY <1>1, <1>2, <2>1 DEF Publish, LockResponseBuffer
<1>3. ASSUME NEW x \in Calls, CpAck(x) \/ CpRespond(x) PROVE Moved
  <2>1. PICK m \in Message : CpStep(x, m)
    BY <1>3, CpEffect
  <2>2. /\ Len(inbox') = Len(inbox) + 1 /\ inbox'[Len(inbox) + 1] = m
        /\ \A i \in 1..Len(inbox) : inbox'[i] = inbox[i]
        /\ \A i \in 1..Len(inbox') : i = Len(inbox) + 1 \/ i \in 1..Len(inbox)
    BY <2>1, CpSends, InboxTypes DEF CpStep
  <2>3. InboxCarries(k, c)' => InboxCarries(k, c) \/ CpCarries(k, c)
    BY <2>1, <2>2 DEF InboxCarries, CpCarries, CpStep
  <2>4. CpCarries(k, c)' => CpCarries(k, c)
    BY <2>1 DEF CpCarries, CpStep
  <2>5. HandlerCarries(k, c)' => HandlerCarries(k, c)
    BY <2>1 DEF CpStep, HandlerCarries
  <2> QED
    BY <2>3, <2>4, <2>5
<1>4. CASE DispatchNoMap \/ Dispatch
  <2>1. /\ 1 \in 1..Len(inbox) /\ Head(inbox) = inbox[1]
        /\ \A i \in 1..Len(inbox') : i + 1 \in 1..Len(inbox) /\ inbox'[i] = inbox[i + 1]
    BY <1>4, TakesHead DEF DispatchNoMap, Dispatch
  <2>2. cp' = cp /\ hpc = "idle" /\ (hpc' = "idle" \/ hmsg' = inbox[1])
    BY <1>4, <2>1 DEF DispatchNoMap, Dispatch
  <2> QED
    BY <2>1, <2>2 DEF CpCarries, InboxCarries, HandlerCarries
<1>5. CASE HandleAck \/ HandleResponse \/ CopyCb
  BY <1>5 DEF HandleAck, HandleResponse, CopyCb, HandlerDone, CpCarries, InboxCarries,
     HandlerCarries
<1> QED
  BY <1>1, <1>2, <1>3, <1>4, <1>5 DEF Next, vars, Spawn, Exit, FoundMap,
     NewMap, RecycleMap, NoMap, ResetRecycled, AckObtain, RspObtain, Timeout, ReadLate, Return

\* No step but the taking of a new id tells anybody an id that is not known.
LEMMA IdsKept ==
  ASSUME TypeOK, Numbered, [Next]_vars,
         ~\E t \in Tasks : TakeTid(t), NEW k \in Tids \ {0}, NEW c \in CallOrNone,
         Carries(k, c)'
  PROVE  Carries(k, c)
<1>1. CASE \E t \in Tasks : Publish(t)
  <2>1. PICK t \in Tasks : Publish(t)
    BY <1>1
  <2>2. /\ slot[t] \in Slots /\ OthersKept(slot[t])
        /\ map'[slot[t]].tid = mytid[t] /\ map'[slot[t]].data = call[t]
    BY <2>1, PublishEffect
  <2>3. SlotCarries(k, c)' => SlotCarries(k, c) \/ TaskCarries(k, c)
    BY <2>1, <2>2 DEF Publish, SlotCarries, TaskCarries, OthersKept
  <2>4. TaskCarries(k, c)' => TaskCarries(k, c)
    BY <2>1 DEF Publish, SendRequest, Goto, TaskCarries, TypeOK
  <2> QED
    BY <2>3, <2>4, IdsMove DEF Carries
<1>2. CASE ~\E t \in Tasks : Publish(t)
  <2>1. KeepsCalls
    BY <1>2, MostKeepCalls
  <2>2. SlotCarries(k, c)' => SlotCarries(k, c)
    BY <2>1 DEF KeepsCalls, SlotCarries
  <2>3. TaskCarries(k, c)' => TaskCarries(k, c)
    BY <2>1 DEF KeepsCalls, TaskCarries
  <2> QED
    BY <2>2, <2>3, IdsMove DEF Carries
<1> QED
  BY <1>1, <1>2

\* An id that is taken is known to nobody.
LEMMA NewIdUnknown ==
  ASSUME TypeOK, NEW t \in Tasks, TakeTid(t), NEW c
  PROVE  ~Carries(sCurrTID, c)
<1>1. sCurrTID \notin TidsInUse
  BY DEF TakeTid
<1>2. ~CpCarries(sCurrTID, c) /\ ~InboxCarries(sCurrTID, c) /\ ~HandlerCarries(sCurrTID, c)
  BY <1>1 DEF TidsInUse, CpCarries, InboxCarries, HandlerCarries
<1>3. ~TaskCarries(sCurrTID, c) /\ ~SlotCarries(sCurrTID, c)
  BY <1>1 DEF TidsInUse, TaskCarries, SlotCarries
<1> QED
  BY <1>2, <1>3 DEF Carries

LEMMA NewCallUnknown ==
  ASSUME TypeOK, Numbered, Protocol, NEW k \in Tids \ {0}
  PROVE  ~Carries(k, calls + 1)
<1>0. calls \in Nat /\ Calls \subseteq Nat
  BY SyncAssumption DEF SyncAssumption, TypeOK, CallOrNone, Calls
<1>1. ~CpCarries(k, calls + 1)
  BY <1>0 DEF CpCarries, Numbered
<1>2. ~TaskCarries(k, calls + 1) /\ ~SlotCarries(k, calls + 1)
  BY <1>0 DEF TaskCarries, SlotCarries, Numbered
<1>3. \A m \in Message : MsgOK(m, cp) => m.call # calls + 1
  <2> SUFFICES ASSUME NEW m \in Message, MsgOK(m, cp), m.call = calls + 1
               PROVE  FALSE
    OBVIOUS
  <2>1. m.call \in Calls /\ m.call > calls
    BY <1>0 DEF Message
  <2> QED
    BY <2>1 DEF MsgOK, Numbered
<1>4. ~InboxCarries(k, calls + 1) /\ ~HandlerCarries(k, calls + 1)
  BY <1>3, InboxTypes DEF Protocol, InboxCarries, HandlerCarries
<1> QED
  BY <1>1, <1>2, <1>4 DEF Carries

\* The taking of a new id tells it to the task alone.
LEMMA IdTaken ==
  ASSUME TypeOK, [Next]_vars, NEW t \in Tasks, TakeTid(t),
         NEW k \in Tids \ {0}, NEW c \in CallOrNone, Carries(k, c)'
  PROVE  Carries(k, c) \/ (k = sCurrTID /\ c = calls + 1)
<1>1. /\ pc[t] = "idle" /\ mytid' = [mytid EXCEPT ![t] = sCurrTID]
      /\ call' = [call EXCEPT ![t] = calls + 1]
  BY DEF TakeTid
<1>2. CASE NoMap(t)
  <2>1. pc' = pc /\ map' = map /\ UNCHANGED <<cp, inbox, hpc, hmsg>>
    BY <1>2 DEF NoMap, handlerVars
  <2>2. TaskCarries(k, c)' => TaskCarries(k, c)
    BY <1>1, <2>1 DEF TaskCarries, TypeOK
  <2> QED
    BY <2>1, <2>2 DEF Carries, CpCarries, InboxCarries, HandlerCarries, SlotCarries
<1>3. ASSUME NEW s \in Slots, BeginsCall(t, s)
      PROVE  Carries(k, c) \/ (k = sCurrTID /\ c = calls + 1)
  <2>1. UNCHANGED <<cp, inbox, hpc, hmsg>> /\ \A x \in Tasks : x # t => pc'[x] = pc[x]
    BY <1>3 DEF BeginsCall, handlerVars
  <2>2. TaskCarries(k, c)' => TaskCarries(k, c) \/ (k = sCurrTID /\ c = calls + 1)
    BY <1>1, <2>1 DEF TaskCarries, TypeOK
  <2>3. SlotCarries(k, c)' => SlotCarries(k, c)
    BY <1>3 DEF BeginsCall, SlotCarries, OthersKept
  <2> QED
    BY <2>1, <2>2, <2>3 DEF Carries, CpCarries, InboxCarries, HandlerCarries
<1> QED
  BY <1>2, <1>3, TakeTidCases

LEMMA TidsUniqueStep ==
  ASSUME TypeOK, Numbered, Protocol, TidsUnique, [Next]_vars
  PROVE  TidsUnique'
<1>0. Calls \subseteq CallOrNone
  BY DEF CallOrNone
<1>1. ASSUME NEW k \in Tids \ {0}, NEW c \in CallOrNone, Carries(k, c)'
      PROVE  \/ Carries(k, c)
             \/ /\ k = sCurrTID /\ \A x \in CallOrNone : ~Carries(k, x)
                /\ c = calls + 1 /\ \A x \in Tids \ {0} : ~Carries(x, c)
  BY <1>1, IdsKept, IdTaken, NewIdUnknown, NewCallUnknown
<1>2. \A k \in Tids \ {0}, c1, c2 \in CallOrNone :
        Carries(k, c1)' /\ Carries(k, c2)' => c1 = c2
  BY <1>1 DEF TidsUnique
<1>3. \A k1, k2 \in Tids \ {0}, c \in Calls :
        Carries(k1, c)' /\ Carries(k2, c)' => k1 = k2
  BY <1>0, <1>1 DEF TidsUnique
<1> QED
  BY <1>2, <1>3 DEF TidsUnique

LEMMA TidsUniqueHolds == Spec => []TidsUnique
<1>1. Init => TidsUnique
  <2> SUFFICES ASSUME Init, NEW k \in Tids \ {0}, NEW c \in CallOrNone, Carries(k, c)
               PROVE  FALSE
    BY DEF TidsUnique, CallOrNone
  <2>1. \A s \in Slots : map[s].tid = 0
    BY DEF Init, EmptySlot
  <2>2. ~SlotCarries(k, c)
    BY <2>1 DEF SlotCarries
  <2>3. ~TaskCarries(k, c) /\ ~CpCarries(k, c) /\ ~InboxCarries(k, c) /\ ~HandlerCarries(k, c)
    BY DEF Init, TaskCarries, CpCarries, InboxCarries, HandlerCarries
  <2> QED
    BY <2>2, <2>3 DEF Carries
<1> QED
  BY <1>1, TidsUniqueStep, TypeCorrect, NumberedHolds, ProtocolHolds, PTL DEF Spec
-----------------------------------------------------------------------------
(***************************************************************************)
(* The other parts are about slots in which nothing has timed out.         *)
(***************************************************************************)

\* Calls for which nothing will come any more, whose ack is still to come,
\* and whose ack has been dealt with.
UnderWay ==
  {inbox[i].call : i \in 1..Len(inbox)} \cup (IF hpc # "idle" THEN {hmsg.call} ELSE {})

AcksUnderWay ==
  {inbox[i].call : i \in {j \in 1..Len(inbox) : inbox[j].kind = "ack"}}
    \cup (IF hpc = "ack" THEN {hmsg.call} ELSE {})

Settled == {c \in Calls : cp[c].st = "over" /\ c \notin UnderWay}
AckDue == {c \in Calls : cp[c].st = "asked" \/ c \in AcksUnderWay}
AckOver == {c \in Calls : cp[c].st \in {"accepted", "over"} /\ c \notin AcksUnderWay}

\* The message thread works on the slot of its message, and on the caller's.
HandlerInSlot ==
  hpc # "idle" =>
    /\ hslot \notin late => map[hslot].tid = hmsg.tid
    /\ \A t \in Tasks : pc[t] # "idle" /\ call[t] = hmsg.call => slot[t] = hslot

\* A wait that timed out has marked its slot; a locked buffer is one the
\* message thread is told to leave.
Marked(t) ==
  /\ pc[t] \in {"readAck", "readRsp"} => slot[t] \in late
  /\ pc[t] \in {"idle", "reset", "publish", "lock"} => ~locked[t]
  /\ pc[t] \in {"ack", "rsp"} /\ slot[t] \notin late =>
       (map[slot[t]].releaseC2Buf <=> ~locked[t])

\* A slot nobody waits in: no signal is left in its semaphores, and no
\* message will find it.
Rest(s) ==
  /\ map[s].ackSema = 0 /\ map[s].rspSema = 0
  /\ map[s].tid # 0 => map[s].data \in Settled

RestEmpty(s) == Rest(s) /\ map[s].dataBufHandle = 0

\* The response is to come, or it is there and was the last message.
RspDue(t, s) ==
  /\ map[s].rspSema = 0 /\ map[s].tid = mytid[t] /\ map[s].dataBufHandle = 0
  /\ hpc = "rsp" /\ hmsg.call = call[t] => filled[t] = call[t]

RspThere(t, s) ==
  /\ map[s].rspSema = 1 /\ map[s].result = call[t] /\ filled[t] = call[t]
  /\ map[s].tid = 0 /\ call[t] \in Settled
  /\ map[s].dataBufHandle # 0 => locked[t]

AwaitsRsp(t, s) == call[t] \in AckOver /\ (RspDue(t, s) \/ RspThere(t, s))

\* The same for the ack.
AckWanted(t, s) ==
  /\ map[s].ackSema = 0 /\ map[s].rspSema = 0 /\ map[s].tid = mytid[t]
  /\ map[s].dataBufHandle = 0 /\ call[t] \in AckDue

AckThere(t, s) ==
  /\ map[s].ackSema = 1 /\ map[s].ackOf = call[t]
  /\ map[s].ack /\ ~map[s].isResultPending => AwaitsRsp(t, s)
  /\ ~(map[s].ack /\ ~map[s].isResultPending) =>
       map[s].rspSema = 0 /\ map[s].dataBufHandle = 0 /\ call[t] \in Settled

\* What a task finds in its slot, by the step it has come to.
Phase(t, s) ==
  /\ pc[t] = "reset" => RestEmpty(s)
  /\ pc[t] = "publish" => RestEmpty(s) /\ map[s].tid = 0 /\ map[s].releaseC2Buf
  /\ pc[t] = "lock" =>
       /\ map[s].ackSema = 0 /\ map[s].rspSema = 0 /\ map[s].dataBufHandle = 0
       /\ map[s].tid = mytid[t] /\ map[s].data = call[t]
  /\ pc[t] = "ack" => map[s].data = call[t] /\ (AckWanted(t, s) \/ AckThere(t, s))
  /\ pc[t] = "rsp" =>
       /\ map[s].data = call[t] /\ map[s].ackSema = 0
       /\ ackRes[t].of = call[t] /\ AwaitsRsp(t, s)
  /\ pc[t] = "done" =>
       /\ Rest(s) /\ (map[s].dataBufHandle # 0 => locked[t])
       /\ ackRes[t].of = call[t]
       /\ ackRes[t].ok /\ ~ackRes[t].pending => rspRes[t] = call[t] /\ filled[t] = call[t]

Works(t, s) == pc[t] # "idle" /\ slot[t] = s

SlotInv ==
  /\ HandlerInSlot
  /\ \A t \in Tasks : Marked(t)
  /\ \A s \in Slots : s \notin late /\ (\A t \in Tasks : ~Works(t, s)) => RestEmpty(s)
  /\ \A t \in Tasks, s \in Slots : Works(t, s) /\ s \notin late => Phase(t, s)
  /\ OnlyLateSlotsHarm
-----------------------------------------------------------------------------
(* The messages under way.                                                 *)

\* What holds whatever times out.
Base == TypeOK /\ Owned /\ Numbered /\ Protocol /\ TidsUnique

LEMMA BaseHolds == Spec => []Base
  BY TypeCorrect, OwnedHolds, NumberedHolds, ProtocolHolds, TidsUniqueHolds, PTL DEF Base

LEMMA UnderWayIsSent ==
  ASSUME Base
  PROVE  /\ AcksUnderWay \subseteq UnderWay
         /\ \A c \in UnderWay : c \in Calls /\ cp[c].st \in {"accepted", "over"}
<1>1. \A i \in 1..Len(inbox) :
        inbox[i].call \in Calls /\ cp[inbox[i].call].st \in {"accepted", "over"}
  BY InboxTypes DEF Base, Protocol, MsgOK
<1>2. hpc # "idle" => hmsg.call \in Calls /\ cp[hmsg.call].st \in {"accepted", "over"}
  BY InboxTypes DEF Base, Protocol, MsgOK
<1> QED
  BY <1>1, <1>2 DEF UnderWay, AcksUnderWay

\* A step brings a message under way only for a call the CP owes it to, and
\* the CP goes on.
LEMMA CpGoesOn ==
  ASSUME Base, [Next]_vars, NEW c \in Calls
  PROVE  /\ c \in UnderWay' => c \in UnderWay \/ cp[c].st \in {"asked", "accepted"}
         /\ c \in AcksUnderWay' => c \in AcksUnderWay \/ cp[c].st = "asked"
         /\ cp[c].st = "over" => cp'[c].st = "over"
         /\ cp[c].st = "accepted" => cp'[c].st \in {"accepted", "over"}
<1> DEFINE On == /\ c \in UnderWay' => c \in UnderWay \/ cp[c].st \in {"asked", "accepted"}
                 /\ c \in AcksUnderWay' => c \in AcksUnderWay \/ cp[c].st = "asked"
                 /\ cp[c].st = "over" => cp'[c].st = "over"
                 /\ cp[c].st = "accepted" => cp'[c].st \in {"accepted", "over"}
<1> USE DEF taskVars, resultVars, handlerVars, ghostVars
<1>0. TypeOK
  BY DEF Base
<1>1. CASE UNCHANGED <<cp, inbox, hpc, hmsg>>
  BY <1>1 DEF UnderWay, AcksUnderWay
<1>2. ASSUME NEW t \in Tasks, Publish(t) \/ LockResponseBuffer(t) PROVE On
  <2>1. CASE SendRequest(t)
    <3>1. pc[t] \in {"publish", "lock"} /\ UNCHANGED <<inbox, hpc, hmsg>>
      BY <1>2 DEF Publish, LockResponseBuffer
    <3>2. cp[call[t]].st = "none"
      BY <3>1 DEF Base, Numbered
    <3>3. c # call[t] => cp'[c] = cp[c]
      BY <2>1 DEF SendRequest, Base, TypeOK
    <3> QED
      BY <3>1, <3>2, <3>3 DEF UnderWay, AcksUnderWay
  <2> QED
    BY <1>1, <1>2, <2>1 DEF Publish, LockResponseBuffer
<1>3. ASSUME NEW x \in Calls, CpAck(x) \/ CpRespond(x) PROVE On
  <2>1. PICK m \in Message : CpStep(x, m)
    BY <1>0, <1>3, CpEffect
  <2>2. /\ Len(inbox') = Len(inbox) + 1 /\ inbox'[Len(inbox) + 1] = m
        /\ \A i \in 1..Len(inbox) : inbox'[i] = inbox[i]
        /\ \A i \in 1..Len(inbox') : i = Len(inbox) + 1 \/ i \in 1..Len(inbox)
    BY <1>0, <2>1, CpSends, InboxTypes DEF CpStep
  <2>3. c \in UnderWay' => c \in UnderWay \/ c = x
    BY <2>1, <2>2 DEF UnderWay, CpStep
  <2>4. c \in AcksUnderWay' => c \in AcksUnderWay \/ (c = x /\ m.kind = "ack")
    BY <2>1, <2>2 DEF AcksUnderWay, CpStep
  <2> QED
    BY <2>1, <2>3, <2>4 DEF CpStep
<1>4. CASE DispatchNoMap \/ Dispatch
  <2>1. /\ 1 \in 1..Len(inbox) /\ Head(inbox) = inbox[1]
        /\ \A i \in 1..Len(inbox') : i + 1 \in 1..Len(inbox) /\ inbox'[i] = inbox[i + 1]
    BY <1>0, <1>4, TakesHead DEF DispatchNoMap, Dispatch
  <2>2. /\ cp' = cp /\ hpc = "idle"
        /\ hpc' # "idle" => hmsg' = inbox[1]
        /\ hpc' = "ack" => hmsg'.kind = "ack"
    BY <1>4, <2>1 DEF DispatchNoMap, Dispatch
  <2>3. c \in UnderWay' => c \in UnderWay
    BY <2>1, <2>2 DEF UnderWay
  <2>4. c \in AcksUnderWay' => c \in AcksUnderWay
    BY <2>1, <2>2 DEF AcksUnderWay
  <2> QED
    BY <2>2, <2>3, <2>4
<1>5. CASE HandleAck \/ HandleResponse \/ CopyCb
  BY <1>5 DEF HandleAck, HandleResponse, CopyCb, HandlerDone, UnderWay, AcksUnderWay
<1> QED
  BY <1>1, <1>2, <1>3, <1>4, <1>5 DEF Next, vars, Spawn, Exit, FoundMap,
     NewMap, RecycleMap, NoMap, ResetRecycled, AckObtain, RspObtain, Timeout, ReadLate, Return

\* What is over stays over.
LEMMA OverStaysOver ==
  ASSUME Base, [Next]_vars
  PROVE  Settled \subseteq Settled' /\ AckOver \subseteq AckOver'
  BY CpGoesOn DEF Settled, AckOver

\* An ack stays due until the message thread takes it to its caller.
LEMMA AckStaysDue ==
  ASSUME Base, [Next]_vars, ~HandleAck,
         NEW t \in Tasks, NEW s \in Slots, Works(t, s), map[s].tid = mytid[t],
         call[t] \in AckDue
  PROVE  call[t] \in AckDue'
<1> DEFINE c == call[t]
<1> USE DEF taskVars, resultVars, handlerVars, ghostVars
<1>0. TypeOK /\ c \in Calls
  BY DEF Base, AckDue
<1> SUFFICES cp'[c].st = "asked" \/ c \in AcksUnderWay'
  BY <1>0 DEF AckDue
<1>a. cp[c].st = "asked" \/ c \in AcksUnderWay
  BY DEF AckDue
<1>1. CASE UNCHANGED <<cp, inbox, hpc, hmsg>>
  BY <1>1, <1>a DEF AcksUnderWay
<1>2. ASSUME NEW x \in Tasks, Publish(x) \/ LockResponseBuffer(x)
      PROVE  cp'[c].st = "asked" \/ c \in AcksUnderWay'
  <2>1. CASE SendRequest(x)
    <3>1. UNCHANGED <<inbox, hpc, hmsg>>
      BY <1>2 DEF Publish, LockResponseBuffer
    <3>2. cp'[c] = cp[c] \/ cp'[c].st = "asked"
      BY <1>0, <2>1 DEF SendRequest, TypeOK
    <3> QED
      BY <1>a, <3>1, <3>2 DEF AcksUnderWay
  <2> QED
    BY <1>1, <1>2, <2>1 DEF Publish, LockResponseBuffer
<1>3. ASSUME NEW x \in Calls, CpAck(x) \/ CpRespond(x)
      PROVE  cp'[c].st = "asked" \/ c \in AcksUnderWay'
  <2>1. PICK m \in Message : CpStep(x, m)
    BY <1>0, <1>3, CpEffect
  <2>2. /\ Len(inbox') = Len(inbox) + 1 /\ inbox'[Len(inbox) + 1] = m
        /\ \A i \in 1..Len(inbox) : inbox'[i] = inbox[i] /\ i \in 1..Len(inbox')
        /\ Len(inbox) + 1 \in 1..Len(inbox')
    BY <1>0, <2>1, CpSends, InboxTypes DEF CpStep
  <2>3. CASE c \in AcksUnderWay
    BY <2>1, <2>2, <2>3 DEF AcksUnderWay, CpStep
  <2>4. CASE cp[c].st = "asked"
    BY <1>0, <2>1, <2>2, <2>4 DEF AcksUnderWay, CpStep
  <2> QED
    BY <1>a, <2>3, <2>4
<1>4. CASE DispatchNoMap \/ Dispatch
  <2>1. /\ 1 \in 1..Len(inbox) /\ Head(inbox) = inbox[1]
        /\ Len(inbox') = Len(inbox) - 1 /\ Len(inbox) \in Nat
        /\ \A i \in 1..Len(inbox') : i + 1 \in 1..Len(inbox) /\ inbox'[i] = inbox[i + 1]
    BY <1>0, <1>4, TakesHead, InboxTypes DEF DispatchNoMap, Dispatch
  <2>2. cp' = cp /\ hpc = "idle"
    BY <1>4 DEF DispatchNoMap, Dispatch
  <2>3. CASE c \in AcksUnderWay
    <3>1. PICK i \in 1..Len(inbox) : inbox[i].kind = "ack" /\ inbox[i].call = c
      BY <2>2, <2>3 DEF AcksUnderWay
    <3>2. CASE i # 1
      <4>1. i - 1 \in 1..Len(inbox') /\ inbox'[i - 1] = inbox[i]
        BY <2>1, <3>2
      <4> QED
        BY <3>1, <4>1 DEF AcksUnderWay
    <3>3. CASE i = 1
      <4>1. inbox[1].tid \in Tids \ {0} /\ mytid[t] \in Tids \ {0}
        BY <2>1, InboxTypes DEF Base, Protocol, MsgOK, Message, Numbered, Works, TypeOK
      <4>2. Carries(inbox[1].tid, c) /\ Carries(mytid[t], c)
        BY <2>1, <3>1, <3>3 DEF Carries, InboxCarries, TaskCarries, Works
      <4>3. inbox[1].tid = mytid[t]
        BY <1>0, <4>1, <4>2 DEF Base, TidsUnique
      <4>4. SlotsWithTid(Head(inbox).tid) # {}
        BY <2>1, <4>3 DEF SlotsWithTid
      <4>5. hpc' = "ack" /\ hmsg' = inbox[1]
        BY <1>4, <2>1, <3>1, <3>3, <4>4 DEF DispatchNoMap, Dispatch
      <4> QED
        BY <3>1, <3>3, <4>5 DEF AcksUnderWay
    <3> QED
      BY <3>2, <3>3
  <2> QED
    BY <1>a, <2>2, <2>3
<1>5. CASE HandleResponse \/ CopyCb
  BY <1>5, <1>a DEF HandleResponse, CopyCb, HandlerDone, AcksUnderWay
<1> QED
  BY <1>1, <1>2, <1>3, <1>4, <1>5 DEF Next, vars, Spawn, Exit, FoundMap,
     NewMap, RecycleMap, NoMap, ResetRecycled, AckObtain, RspObtain, Timeout, ReadLate, Return

\* A message that finds a slot in which nothing timed out finds the task that
\* made the call, waiting for this very message.
Expects(t, s, m) ==
  /\ Works(t, s) /\ call[t] = m.call
  /\ map[s].data = m.call /\ map[s].tid = mytid[t]
  /\ \/ pc[t] = "ack" /\ AckWanted(t, s)
     \/ /\ m.call \in AckOver /\ RspDue(t, s)
        /\ \/ pc[t] = "rsp"
           \/ pc[t] = "ack" /\ AckThere(t, s) /\ map[s].ack /\ ~map[s].isResultPending

LEMMA MessageIsExpected ==
  ASSUME Base, SlotInv, NEW s \in Slots, s \notin late, NEW m \in Message,
         map[s].tid = m.tid,
         (hpc # "idle" /\ m = hmsg) \/ (\E i \in 1..Len(inbox) : m = inbox[i])
  PROVE  \E t \in Tasks : Expects(t, s, m)
<1>1. m.tid \in Tids \ {0} /\ m.call \in UnderWay /\ Carries(m.tid, m.call)
  <2>1. m.tid # 0
    BY DEF Base, Protocol, MsgOK
  <2> QED
    BY <2>1 DEF Message, UnderWay, Carries, HandlerCarries, InboxCarries
<1>2. map[s].data = m.call
  <2>1. map[s].data \in CallOrNone /\ m.call \in CallOrNone
    BY DEF Base, TypeOK, Slot, Message, CallOrNone
  <2>2. Carries(m.tid, map[s].data)
    BY DEF Carries, SlotCarries
  <2> QED
    BY <1>1, <2>1, <2>2 DEF Base, TidsUnique
<1>3. m.call \in Calls /\ m.call \notin Settled /\ cp[m.call].st # "none"
  BY <1>1, UnderWayIsSent DEF Settled
<1>4. ~Rest(s)
  BY <1>1, <1>2, <1>3 DEF Rest
<1>5. PICK t \in Tasks : Works(t, s)
  BY <1>4 DEF SlotInv, RestEmpty
<1>6. Phase(t, s) /\ slot[t] = s /\ Marked(t) /\ pc[t] \in Steps
  BY <1>5 DEF SlotInv, Works, Base, TypeOK
<1>7. pc[t] \notin {"idle", "reset", "publish", "done", "readAck", "readRsp"}
  BY <1>4, <1>5, <1>6 DEF Phase, RestEmpty, Marked, Works
<1>8. pc[t] # "lock"
  BY <1>2, <1>3, <1>6 DEF Phase, Base, Numbered
<1>9. map[s].tid # 0
  BY <1>1
<1>10. CASE pc[t] = "ack"
  <2>1. call[t] = m.call /\ (AckWanted(t, s) \/ AckThere(t, s))
    BY <1>2, <1>6, <1>10 DEF Phase
  <2>2. CASE AckThere(t, s)
    <3>1. map[s].ack /\ ~map[s].isResultPending /\ m.call \in AckOver /\ RspDue(t, s)
      BY <1>3, <1>9, <2>1, <2>2 DEF AckThere, AwaitsRsp, RspThere
    <3> QED
      BY <1>2, <1>5, <1>10, <2>1, <2>2, <3>1 DEF Expects, RspDue
  <2>3. CASE AckWanted(t, s)
    BY <1>2, <1>5, <1>10, <2>1, <2>3 DEF Expects, AckWanted
  <2> QED
    BY <2>1, <2>2, <2>3
<1>11. CASE pc[t] = "rsp"
  <2>1. call[t] = m.call /\ m.call \in AckOver /\ RspDue(t, s)
    BY <1>2, <1>6, <1>9, <1>11 DEF Phase, AwaitsRsp, RspThere
  <2> QED
    BY <1>2, <1>5, <1>11, <2>1 DEF Expects, RspDue
<1> QED
  BY <1>6, <1>7, <1>8, <1>10, <1>11 DEF Steps
-----------------------------------------------------------------------------
(* Steps of a task.                                                        *)

SameTask(t) ==
  /\ pc'[t] = pc[t] /\ call'[t] = call[t] /\ mytid'[t] = mytid[t] /\ slot'[t] = slot[t]
  /\ ackRes'[t] = ackRes[t] /\ rspRes'[t] = rspRes[t]
  /\ filled'[t] = filled[t] /\ locked'[t] = locked[t]

\* A task whose slot is left alone stays where it is.
LEMMA PhaseKept ==
  ASSUME Base, [Next]_vars, NEW t \in Tasks, NEW s \in Slots, Phase(t, s),
         SameTask(t), map'[s] = map[s],
         AckWanted(t, s) /\ pc[t] = "ack" => call[t] \in AckDue',
         hpc' = "rsp" /\ hmsg'.call = call[t] => hpc = "rsp" /\ hmsg' = hmsg
  PROVE  Phase(t, s)'
<1>1. Settled \subseteq Settled' /\ AckOver \subseteq AckOver'
  BY OverStaysOver
<1>2. Rest(s) => Rest(s)'
  BY <1>1 DEF Rest
<1>3. RestEmpty(s) => RestEmpty(s)'
  BY <1>2 DEF RestEmpty
<1>4. AwaitsRsp(t, s) => AwaitsRsp(t, s)'
  BY <1>1 DEF AwaitsRsp, RspDue, RspThere, SameTask
<1>5. AckWanted(t, s) /\ pc[t] = "ack" => AckWanted(t, s)'
  BY DEF AckWanted, SameTask
<1>6. AckThere(t, s) => AckThere(t, s)'
  BY <1>1, <1>4 DEF AckThere, SameTask
<1> QED
  BY <1>2, <1>3, <1>4, <1>5, <1>6 DEF Phase, SameTask

LEMMA OneWorker ==
  ASSUME Base, NEW t \in Tasks, NEW x \in Tasks, NEW s \in Slots, Works(t, s), Works(x, s)
  PROVE  x = t
BY DEF Base, Owned, Works

\* A step of task t on slot s.
TaskStep(t, s) ==
  /\ \A x \in Tasks : x # t => SameTask(x) /\ ~Works(x, s)
  /\ OthersKept(s)
  /\ pc[t] # "idle" => slot[t] = s
  /\ pc'[t] # "idle" => slot'[t] = s
  /\ UNCHANGED handlerVars /\ late \subseteq late'

LEMMA TaskStepKeeps ==
  ASSUME Base, SlotInv, [Next]_vars, NEW t \in Tasks, NEW s \in Slots, TaskStep(t, s),
         pc'[t] # "idle" /\ hpc # "idle" /\ call'[t] = hmsg.call =>
           pc[t] # "idle" /\ call'[t] = call[t],
         s \notin late' /\ hpc # "idle" /\ hslot = s => map'[s].tid = map[s].tid,
         Marked(t)',
         s \notin late' /\ pc'[t] # "idle" => Phase(t, s)',
         s \notin late' /\ pc'[t] = "idle" => RestEmpty(s)',
         OnlyLateSlotsHarm'
  PROVE  SlotInv'
<1>1. /\ hpc' = hpc /\ hmsg' = hmsg /\ hslot' = hslot /\ ~HandleAck
      /\ hpc # "idle" => hslot \in Slots
  BY DEF TaskStep, handlerVars, HandleAck, HandlerDone, Base, TypeOK
<1>2. HandlerInSlot'
  BY <1>1 DEF TaskStep, SlotInv, HandlerInSlot, OthersKept, SameTask
<1>3. \A x \in Tasks : Marked(x)'
  <2> SUFFICES ASSUME NEW x \in Tasks, x # t
               PROVE  Marked(x)'
    OBVIOUS
  <2>1. Marked(x) /\ SameTask(x) /\ late \subseteq late'
    BY DEF SlotInv, TaskStep
  <2>2. pc[x] # "idle" => map'[slot[x]] = map[slot[x]]
    BY DEF TaskStep, Works, OthersKept, Base, TypeOK
  <2> QED
    BY <2>1, <2>2 DEF Marked, SameTask
<1>4. ASSUME NEW y \in Slots, y \notin late', \A x \in Tasks : ~Works(x, y)'
      PROVE  RestEmpty(y)'
  <2>1. CASE y = s
    BY <1>4, <2>1 DEF Works, TaskStep
  <2>2. CASE y # s
    <3>1. \A x \in Tasks : ~Works(x, y)
      BY <1>4, <2>2 DEF Works, TaskStep, SameTask
    <3>2. RestEmpty(y) /\ map'[y] = map[y]
      BY <1>4, <2>2, <3>1 DEF SlotInv, TaskStep, OthersKept
    <3> QED
      BY <3>2, OverStaysOver DEF RestEmpty, Rest
  <2> QED
    BY <2>1, <2>2
<1>5. ASSUME NEW x \in Tasks, NEW y \in Slots, Works(x, y)', y \notin late'
      PROVE  Phase(x, y)'
  <2>1. CASE x = t
    BY <1>5, <2>1 DEF Works, TaskStep
  <2>2. CASE x # t
    <3>1. SameTask(x) /\ Works(x, y) /\ y # s /\ map'[y] = map[y]
      BY <1>5, <2>2 DEF Works, TaskStep, SameTask, OthersKept
    <3>2. Phase(x, y)
      BY <1>5, <3>1 DEF SlotInv, TaskStep
    <3>3. AckWanted(x, y) /\ pc[x] = "ack" => call[x] \in AckDue'
      BY <1>1, <3>1, AckStaysDue DEF AckWanted
    <3> QED
      BY <1>1, <3>1, <3>2, <3>3, PhaseKept
  <2> QED
    BY <2>1, <2>2
<1> QED
  BY <1>2, <1>3, <1>4, <1>5 DEF SlotInv

\* The message thread is not in a slot at rest.
LEMMA NoHandlerAtRest ==
  ASSUME Base, SlotInv, NEW s \in Slots, s \notin late, Rest(s)
  PROVE  ~(hpc # "idle" /\ hslot = s)
<1> SUFFICES ASSUME hpc # "idle", hslot = s
             PROVE  FALSE
  OBVIOUS
<1>1. hmsg \in Message /\ map[s].tid = hmsg.tid /\ hmsg.tid # 0 /\ hmsg.call \in UnderWay
  BY DEF Base, Protocol, MsgOK, SlotInv, HandlerInSlot, UnderWay
<1>2. PICK t \in Tasks : Expects(t, s, hmsg)
  BY <1>1, MessageIsExpected
<1>3. map[s].data = hmsg.call
  BY <1>2 DEF Expects
<1> QED
  BY <1>1, <1>3 DEF Rest, Settled

\* A slot that a call begins in is nobody's.
LEMMA BeginsAtRest ==
  ASSUME Base, SlotInv, NEW s \in Slots, s \notin late, \A x \in Tasks : ~Works(x, s)
  PROVE  RestEmpty(s) /\ ~(hpc # "idle" /\ hslot = s)
<1>1. RestEmpty(s)
  BY DEF SlotInv
<1> QED
  BY <1>1, NoHandlerAtRest DEF RestEmpty

\* The message thread has no message of a call that begins.
LEMMA NewCallNotHandled ==
  ASSUME Base, NEW t \in Tasks, TakeTid(t)
  PROVE  /\ pc[t] = "idle" /\ call'[t] = calls + 1
         /\ hpc # "idle" => hmsg.call # calls + 1
         /\ \A x \in Tasks : x # t => call'[x] = call[x] /\ mytid'[x] = mytid[x]
<1>0. TypeOK /\ calls \in Nat
  BY SyncAssumption DEF SyncAssumption, Base, TypeOK, CallOrNone, Calls
<1>1. /\ pc[t] = "idle" /\ call'[t] = calls + 1
      /\ \A x \in Tasks : x # t => call'[x] = call[x] /\ mytid'[x] = mytid[x]
  BY <1>0 DEF TakeTid, TypeOK
<1>2. ASSUME hpc # "idle", hmsg.call = calls + 1
      PROVE  FALSE
  <2>1. hmsg.call \in UnderWay
    BY <1>2 DEF UnderWay
  <2>2. hmsg.call \in Calls /\ cp[hmsg.call].st # "none" /\ hmsg.call > calls
    BY <1>0, <1>2, <2>1, UnderWayIsSent
  <2> QED
    BY <2>2 DEF Base, Numbered
<1> QED
  BY <1>1, <1>2

LEMMA FoundMapKeeps ==
  ASSUME Base, SlotInv, [Next]_vars, NEW t \in Tasks, FoundMap(t) \/ NewMap(t)
  PROVE  SlotInv'
<1>0. TypeOK
  BY DEF Base
<1>1. PICK s \in Slots :
        /\ ResetSlot(s, t) /\ slot' = [slot EXCEPT ![t] = s] /\ TakeTid(t)
        /\ \/ map[s].task = t
           \/ map[s].task = NoTask /\ \A x \in Slots : map[x].task # t
        /\ UNCHANGED <<alive, up, resultVars, cp, inbox, handlerVars, late, stray>>
  BY <1>0, SlotFound
<1>2. /\ OthersKept(s) /\ map'[s].tid = 0
      /\ map'[s].ackSema = map[s].ackSema /\ map'[s].rspSema = map[s].rspSema
      /\ map'[s].releaseC2Buf /\ map'[s].dataBufHandle = 0
      /\ lost' = IF map[s].dataBufHandle # 0 THEN lost \cup {s} ELSE lost
      /\ pc' = [pc EXCEPT ![t] = "publish"]
  BY <1>0, <1>1, ResetEffect
<1>3. /\ pc[t] = "idle" /\ call'[t] = calls + 1
      /\ hpc # "idle" => hmsg.call # calls + 1
      /\ \A x \in Tasks : x # t => call'[x] = call[x] /\ mytid'[x] = mytid[x]
  BY <1>1, NewCallNotHandled
<1>4. \A x \in Tasks : ~Works(x, s)
  BY <1>1, <1>3, SyncAssumption DEF SyncAssumption, Base, Owned, Works
<1>5. s \notin late => RestEmpty(s) /\ ~(hpc # "idle" /\ hslot = s)
  BY <1>4, BeginsAtRest
<1>6. pc'[t] = "publish" /\ slot'[t] = s
      /\ \A x \in Tasks : x # t => pc'[x] = pc[x] /\ slot'[x] = slot[x]
  BY <1>0, <1>1, <1>2 DEF TypeOK
<1>7. TaskStep(t, s)
  BY <1>1, <1>2, <1>3, <1>4, <1>6 DEF TaskStep, SameTask, resultVars
<1>8. Marked(t)'
  BY <1>1, <1>3, <1>6 DEF Marked, SlotInv, resultVars
<1>9. s \notin late => Phase(t, s)'
  BY <1>2, <1>5, <1>6 DEF Phase, RestEmpty, Rest
<1>10. OnlyLateSlotsHarm'
  BY <1>1, <1>2, <1>5 DEF OnlyLateSlotsHarm, SlotInv, RestEmpty
<1> QED
  BY <1>1, <1>3, <1>5, <1>6, <1>7, <1>8, <1>9, <1>10, TaskStepKeeps

LEMMA RecycleMapKeeps ==
  ASSUME Base, SlotInv, [Next]_vars, NEW t \in Tasks, RecycleMap(t)
  PROVE  SlotInv'
<1>0. TypeOK
  BY DEF Base
<1>1. PICK s \in Slots :
      /\ s \in DeadSlots /\ slot' = [slot EXCEPT ![t] = s] /\ OthersKept(s)
      /\ map'[s].ackSema = 0 /\ map'[s].rspSema = 0
      /\ map'[s].tid = map[s].tid /\ map'[s].data = map[s].data
      /\ map'[s].dataBufHandle = map[s].dataBufHandle
  BY <1>0, RecycleEffect
<1>2. /\ TakeTid(t) /\ pc' = [pc EXCEPT ![t] = "reset"]
      /\ UNCHANGED <<alive, up, resultVars, cp, inbox, handlerVars, ghostVars>>
  BY DEF RecycleMap, Goto
<1>3. /\ pc[t] = "idle" /\ call'[t] = calls + 1
      /\ hpc # "idle" => hmsg.call # calls + 1
      /\ \A x \in Tasks : x # t => call'[x] = call[x] /\ mytid'[x] = mytid[x]
  BY <1>2, NewCallNotHandled
<1>4. \A x \in Tasks : ~Works(x, s)
  BY <1>1 DEF DeadSlots, Base, Owned, Works
<1>5. s \notin late => RestEmpty(s)
  BY <1>1, <1>4, BeginsAtRest
<1>6. pc'[t] = "reset" /\ slot'[t] = s
      /\ \A x \in Tasks : x # t => pc'[x] = pc[x] /\ slot'[x] = slot[x]
  BY <1>0, <1>1, <1>2 DEF TypeOK
<1>7. TaskStep(t, s) /\ late' = late
  BY <1>1, <1>2, <1>3, <1>4, <1>6 DEF TaskStep, SameTask, resultVars, ghostVars
<1>8. Marked(t)'
  BY <1>2, <1>3, <1>6 DEF Marked, SlotInv, resultVars
<1>9. s \notin late => Phase(t, s)'
  BY <1>1, <1>5, <1>6, OverStaysOver DEF Phase, RestEmpty, Rest
<1>10. OnlyLateSlotsHarm'
  BY <1>2 DEF OnlyLateSlotsHarm, SlotInv, ghostVars
<1> QED
  BY <1>1, <1>3, <1>6, <1>7, <1>8, <1>9, <1>10, TaskStepKeeps

\* A task that is in a call works on its own slot.
LEMMA OwnStep ==
  ASSUME Base, NEW t \in Tasks, NEW s \in Slots, Works(t, s), OthersKept(s),
         \A x \in Tasks : x # t => SameTask(x),
         slot'[t] = slot[t] \/ pc'[t] = "idle",
         UNCHANGED handlerVars, late \subseteq late'
  PROVE  TaskStep(t, s)
BY OneWorker DEF TaskStep, Works

LEMMA ResetRecycledKeeps ==
  ASSUME Base, SlotInv, [Next]_vars, NEW t \in Tasks, ResetRecycled(t)
  PROVE  SlotInv'
<1>0. TypeOK
  BY DEF Base
<1>1. PICK s \in Slots : s = slot[t] /\ Works(t, s)
  BY <1>0 DEF ResetRecycled, TypeOK, Works
<1>2. /\ OthersKept(s) /\ map'[s].tid = 0
      /\ map'[s].ackSema = map[s].ackSema /\ map'[s].rspSema = map[s].rspSema
      /\ map'[s].releaseC2Buf /\ map'[s].dataBufHandle = 0
      /\ lost' = IF map[s].dataBufHandle # 0 THEN lost \cup {s} ELSE lost
      /\ pc' = [pc EXCEPT ![t] = "publish"]
  BY <1>0, <1>1, ResetEffect DEF ResetRecycled
<1>3. /\ UNCHANGED <<call, mytid, slot, ackRes, rspRes, filled, locked, hpc, hmsg, hslot, late, stray>>
      /\ pc[t] = "reset"
  BY DEF ResetRecycled, resultVars, handlerVars
<1>4. pc'[t] = "publish" /\ \A x \in Tasks : x # t => pc'[x] = pc[x]
  BY <1>0, <1>2 DEF TypeOK
<1>5. s \notin late => RestEmpty(s) /\ ~(hpc # "idle" /\ hslot = s)
  <2>1. s \notin late => RestEmpty(s)
    BY <1>1, <1>3 DEF SlotInv, Phase
  <2> QED
    BY <2>1, NoHandlerAtRest DEF RestEmpty
<1>6. TaskStep(t, s)
  BY <1>1, <1>2, <1>3, <1>4, OwnStep DEF SameTask, handlerVars
<1>7. Marked(t)'
  BY <1>3, <1>4 DEF Marked, SlotInv
<1>8. s \notin late => Phase(t, s)'
  BY <1>2, <1>4, <1>5 DEF Phase, RestEmpty, Rest
<1>9. OnlyLateSlotsHarm'
  BY <1>2, <1>3, <1>5 DEF OnlyLateSlotsHarm, SlotInv, RestEmpty
<1> QED
  BY <1>3, <1>4, <1>5, <1>6, <1>7, <1>8, <1>9, TaskStepKeeps

\* The ack of a request that is sent is due.
LEMMA SentIsDue ==
  ASSUME Base, NEW t \in Tasks, pc[t] # "idle", SendRequest(t)
  PROVE  /\ call[t] \in AckDue' /\ pc'[t] = "ack"
         /\ \A x \in Tasks : x # t => pc'[x] = pc[x]
<1>1. call[t] \in Calls
  BY DEF Base, Numbered, TypeOK, CallOrNone
<1>2. cp'[call[t]].st = "asked"
  BY <1>1 DEF SendRequest, Base, TypeOK
<1> QED
  BY <1>1, <1>2 DEF AckDue, SendRequest, Goto, Base, TypeOK

LEMMA PublishKeeps ==
  ASSUME Base, SlotInv, [Next]_vars, NEW t \in Tasks, Publish(t)
  PROVE  SlotInv'
<1>0. TypeOK
  BY DEF Base
<1>1. PICK s \in Slots : s = slot[t] /\ Works(t, s)
  BY <1>0 DEF Publish, TypeOK, Works
<1>2. /\ OthersKept(s) /\ map'[s].tid = mytid[t] /\ map'[s].data = call[t]
      /\ map'[s].ackSema = map[s].ackSema /\ map'[s].rspSema = map[s].rspSema
      /\ map'[s].releaseC2Buf = map[s].releaseC2Buf
      /\ map'[s].dataBufHandle = map[s].dataBufHandle
  BY <1>0, <1>1, PublishEffect
<1>3. /\ UNCHANGED <<call, mytid, slot, ackRes, rspRes, filled, locked, hpc, hmsg, hslot,
                     late, stray, lost>>
      /\ pc[t] = "publish"
  BY DEF Publish, resultVars, handlerVars, ghostVars
<1>4. /\ pc'[t] = "lock" \/ (pc'[t] = "ack" /\ call[t] \in AckDue')
      /\ \A x \in Tasks : x # t => pc'[x] = pc[x]
  <2>1. CASE SendRequest(t)
    BY <1>3, <2>1, SentIsDue
  <2>2. CASE Goto(t, "lock")
    BY <1>0, <2>2 DEF Goto, TypeOK
  <2> QED
    BY <2>1, <2>2 DEF Publish
<1>5. s \notin late =>
        RestEmpty(s) /\ map[s].releaseC2Buf /\ ~(hpc # "idle" /\ hslot = s)
  <2>1. s \notin late => RestEmpty(s) /\ map[s].releaseC2Buf
    BY <1>1, <1>3 DEF SlotInv, Phase
  <2> QED
    BY <2>1, NoHandlerAtRest DEF RestEmpty
<1>6. TaskStep(t, s)
  BY <1>1, <1>2, <1>3, <1>4, OwnStep DEF SameTask, handlerVars
<1>7. Marked(t)'
  <2>1. ~locked[t]
    BY <1>3 DEF SlotInv, Marked
  <2> QED
    BY <1>1, <1>2, <1>3, <1>4, <1>5, <2>1 DEF Marked
<1>8. s \notin late => Phase(t, s)'
  <2> SUFFICES ASSUME s \notin late PROVE Phase(t, s)'
    OBVIOUS
  <2>1. pc'[t] = "ack" => AckWanted(t, s)'
    BY <1>2, <1>3, <1>4, <1>5 DEF AckWanted, RestEmpty, Rest
  <2> QED
    BY <1>2, <1>3, <1>4, <1>5, <2>1 DEF Phase, RestEmpty, Rest
<1>9. OnlyLateSlotsHarm'
  BY <1>3 DEF OnlyLateSlotsHarm, SlotInv
<1>10. pc'[t] # "idle"
  BY <1>4
<1> QED
  BY <1>3, <1>5, <1>6, <1>7, <1>8, <1>9, <1>10, TaskStepKeeps

LEMMA LockKeeps ==
  ASSUME Base, SlotInv, [Next]_vars, NEW t \in Tasks, LockResponseBuffer(t)
  PROVE  SlotInv'
<1>0. TypeOK
  BY DEF Base
<1>1. PICK s \in Slots : s = slot[t] /\ Works(t, s)
  BY <1>0 DEF LockResponseBuffer, TypeOK, Works
<1>2. /\ OthersKept(s) /\ ~map'[s].releaseC2Buf
      /\ map'[s].tid = map[s].tid /\ map'[s].data = map[s].data
      /\ map'[s].ackSema = map[s].ackSema /\ map'[s].rspSema = map[s].rspSema
      /\ map'[s].dataBufHandle = map[s].dataBufHandle
  BY <1>0, <1>1, LockEffect
<1>3. /\ UNCHANGED <<call, mytid, slot, ackRes, rspRes, filled, hpc, hmsg, hslot,
                     late, stray, lost>>
      /\ pc[t] = "lock"
  BY DEF LockResponseBuffer, handlerVars, ghostVars
<1>4. /\ pc'[t] = "ack" /\ call[t] \in AckDue'
      /\ \A x \in Tasks : x # t => pc'[x] = pc[x]
  BY <1>3, SentIsDue DEF LockResponseBuffer
<1>5. locked'[t] /\ \A x \in Tasks : x # t => locked'[x] = locked[x]
  BY <1>0 DEF LockResponseBuffer, TypeOK
<1>6. TaskStep(t, s)
  BY <1>1, <1>2, <1>3, <1>4, <1>5, OwnStep DEF SameTask, handlerVars
<1>7. Marked(t)'
  BY <1>1, <1>2, <1>3, <1>4, <1>5 DEF Marked
<1>8. s \notin late => Phase(t, s)'
  <2> SUFFICES ASSUME s \notin late PROVE Phase(t, s)'
    OBVIOUS
  <2>1. /\ map[s].ackSema = 0 /\ map[s].rspSema = 0 /\ map[s].dataBufHandle = 0
        /\ map[s].tid = mytid[t] /\ map[s].data = call[t]
    BY <1>1, <1>3 DEF SlotInv, Phase
  <2>2. AckWanted(t, s)'
    BY <1>2, <1>3, <1>4, <2>1 DEF AckWanted
  <2> QED
    BY <1>2, <1>3, <1>4, <2>1, <2>2 DEF Phase
<1>9. OnlyLateSlotsHarm'
  BY <1>3 DEF OnlyLateSlotsHarm, SlotInv
<1> QED
  BY <1>2, <1>3, <1>4, <1>6, <1>7, <1>8, <1>9, TaskStepKeeps

LEMMA AckObtainKeeps ==
  ASSUME Base, SlotInv, [Next]_vars, NEW t \in Tasks, AckObtain(t)
  PROVE  SlotInv'
<1>0. TypeOK
  BY DEF Base
<1>1. PICK s \in Slots : s = slot[t] /\ Works(t, s)
  BY <1>0 DEF AckObtain, TypeOK, Works
<1>2. /\ OthersKept(s)
      /\ map'[s].ackSema = map[s].ackSema - 1 /\ map'[s].rspSema = map[s].rspSema
      /\ map'[s].tid = map[s].tid /\ map'[s].data = map[s].data
      /\ map'[s].result = map[s].result
      /\ map'[s].releaseC2Buf = map[s].releaseC2Buf
      /\ map'[s].dataBufHandle = map[s].dataBufHandle
  BY <1>0, <1>1, ObtainEffect
<1>3. /\ UNCHANGED <<call, mytid, slot, rspRes, filled, locked, hpc, hmsg, hslot,
                     late, stray, lost>>
      /\ pc[t] = "ack" /\ map[s].ackSema > 0
  BY <1>1 DEF AckObtain, handlerVars, ghostVars
<1>4. /\ pc'[t] = IF map[s].ack /\ ~map[s].isResultPending THEN "rsp" ELSE "done"
      /\ ackRes'[t] = [of |-> map[s].ackOf, ok |-> map[s].ack,
                       pending |-> map[s].isResultPending]
      /\ \A x \in Tasks : x # t => pc'[x] = pc[x] /\ ackRes'[x] = ackRes[x]
  BY <1>0, <1>1 DEF AckObtain, ReadAck, Goto, TypeOK
<1>5. TaskStep(t, s)
  BY <1>1, <1>2, <1>3, <1>4, OwnStep DEF SameTask, handlerVars
<1>6. Marked(t)'
  BY <1>1, <1>2, <1>3, <1>4 DEF Marked, SlotInv
<1>7. s \notin late => Phase(t, s)'
  <2> SUFFICES ASSUME s \notin late PROVE Phase(t, s)'
    OBVIOUS
  <2>1. AckThere(t, s) /\ map[s].data = call[t]
    BY <1>1, <1>3 DEF SlotInv, Phase, AckWanted
  <2>2. ackRes'[t].of = call[t] /\ map'[s].ackSema = 0
    BY <1>2, <1>4, <2>1 DEF AckThere
  <2>3. Settled \subseteq Settled' /\ AckOver \subseteq AckOver'
    BY OverStaysOver
  <2>4. CASE map[s].ack /\ ~map[s].isResultPending
    <3>1. AwaitsRsp(t, s)'
      BY <1>2, <1>3, <2>1, <2>3, <2>4 DEF AckThere, AwaitsRsp, RspDue, RspThere
    <3> QED
      BY <1>2, <1>3, <1>4, <2>1, <2>2, <2>4, <3>1 DEF Phase
  <2>5. CASE ~(map[s].ack /\ ~map[s].isResultPending)
    <3>1. Rest(s)' /\ map'[s].dataBufHandle = 0
      BY <1>2, <2>1, <2>2, <2>3, <2>5 DEF AckThere, Rest
    <3>2. ~(ackRes'[t].ok /\ ~ackRes'[t].pending) /\ pc'[t] = "done"
      BY <1>4, <2>5
    <3> QED
      BY <1>3, <2>2, <3>1, <3>2 DEF Phase
  <2> QED
    BY <2>4, <2>5
<1>8. OnlyLateSlotsHarm'
  BY <1>3 DEF OnlyLateSlotsHarm, SlotInv
<1>9. pc'[t] # "idle"
  BY <1>4
<1> QED
  BY <1>2, <1>3, <1>5, <1>6, <1>7, <1>8, <1>9, TaskStepKeeps

LEMMA RspObtainKeeps ==
  ASSUME Base, SlotInv, [Next]_vars, NEW t \in Tasks, RspObtain(t)
  PROVE  SlotInv'
<1>0. TypeOK
  BY DEF Base
<1>1. PICK s \in Slots : s = slot[t] /\ Works(t, s)
  BY <1>0 DEF RspObtain, TypeOK, Works
<1>2. ~AckObtain(t)
  BY DEF RspObtain, AckObtain
<1>3. /\ OthersKept(s)
      /\ map'[s].ackSema = map[s].ackSema /\ map'[s].rspSema = map[s].rspSema - 1
      /\ map'[s].tid = map[s].tid /\ map'[s].dataBufHandle = map[s].dataBufHandle
  BY <1>0, <1>1, <1>2, ObtainEffect
<1>4. /\ UNCHANGED <<call, mytid, slot, ackRes, filled, locked, hpc, hmsg, hslot,
                     late, stray, lost>>
      /\ pc[t] = "rsp" /\ map[s].rspSema > 0
  BY <1>1 DEF RspObtain, handlerVars, ghostVars
<1>5. /\ pc'[t] = "done" /\ rspRes'[t] = map[s].result
      /\ \A x \in Tasks : x # t => pc'[x] = pc[x] /\ rspRes'[x] = rspRes[x]
  BY <1>0, <1>1 DEF RspObtain, ReadRsp, Goto, TypeOK
<1>6. TaskStep(t, s)
  BY <1>1, <1>3, <1>4, <1>5, OwnStep DEF SameTask, handlerVars
<1>7. Marked(t)'
  BY <1>5 DEF Marked
<1>8. s \notin late => Phase(t, s)'
  <2> SUFFICES ASSUME s \notin late PROVE Phase(t, s)'
    OBVIOUS
  <2>1. RspThere(t, s) /\ map[s].ackSema = 0 /\ ackRes[t].of = call[t]
    BY <1>1, <1>4 DEF SlotInv, Phase, AwaitsRsp, RspDue
  <2> QED
    BY <1>3, <1>4, <1>5, <2>1 DEF Phase, RspThere, Rest
<1>9. OnlyLateSlotsHarm'
  BY <1>4 DEF OnlyLateSlotsHarm, SlotInv
<1> QED
  BY <1>3, <1>4, <1>5, <1>6, <1>7, <1>8, <1>9, TaskStepKeeps

\* A task whose wait has timed out.
LEMMA LateKeeps ==
  ASSUME Base, SlotInv, [Next]_vars, NEW t \in Tasks, Timeout(t) \/ ReadLate(t)
  PROVE  SlotInv'
<1>0. TypeOK
  BY DEF Base
<1>1. PICK s \in Slots : s = slot[t] /\ Works(t, s)
  BY <1>0 DEF Timeout, ReadLate, TypeOK, Works
<1>2. /\ UNCHANGED <<map, call, mytid, slot, filled, locked, hpc, hmsg, hslot, stray, lost>>
      /\ late \subseteq late' /\ pc[t] # "idle"
  BY DEF Timeout, ReadLate, resultVars, handlerVars, ghostVars
<1>3. s \in late'
  BY <1>1 DEF Timeout, ReadLate, SlotInv, Marked, ghostVars
<1>4. /\ pc'[t] \in {"readAck", "readRsp", "rsp", "done"}
      /\ \A x \in Tasks : x # t =>
           pc'[x] = pc[x] /\ ackRes'[x] = ackRes[x] /\ rspRes'[x] = rspRes[x]
  BY <1>0 DEF Timeout, ReadLate, ReadAck, ReadRsp, Goto, TypeOK, resultVars
<1>5. TaskStep(t, s)
  BY <1>1, <1>2, <1>4, OwnStep DEF SameTask, handlerVars, OthersKept
<1>6. Marked(t)'
  BY <1>1, <1>2, <1>3, <1>4 DEF Marked
<1>7. OnlyLateSlotsHarm'
  BY <1>2 DEF OnlyLateSlotsHarm, SlotInv
<1> QED
  BY <1>2, <1>3, <1>5, <1>6, <1>7, TaskStepKeeps

LEMMA ReturnKeeps ==
  ASSUME Base, SlotInv, [Next]_vars, NEW t \in Tasks, Return(t)
  PROVE  SlotInv'
<1>0. TypeOK
  BY DEF Base
<1>1. PICK s \in Slots : s = slot[t] /\ Works(t, s)
  BY <1>0 DEF Return, TypeOK, Works
<1>2. /\ OthersKept(s)
      /\ map'[s].dataBufHandle = IF locked[t] THEN 0 ELSE map[s].dataBufHandle
      /\ map'[s].tid = map[s].tid /\ map'[s].data = map[s].data
      /\ map'[s].ackSema = map[s].ackSema /\ map'[s].rspSema = map[s].rspSema
  BY <1>0, <1>1, ReturnEffect
<1>3. UNCHANGED <<hpc, hmsg, hslot, late, stray, lost>> /\ pc[t] = "done"
  BY DEF Return, handlerVars, ghostVars
<1>4. /\ pc'[t] = "idle" /\ ~locked'[t]
      /\ \A x \in Tasks : x # t => SameTask(x)
  BY <1>0 DEF Return, Goto, TypeOK, SameTask
<1>5. TaskStep(t, s)
  BY <1>1, <1>2, <1>3, <1>4, OwnStep DEF handlerVars
<1>6. Marked(t)'
  BY <1>4 DEF Marked
<1>7. s \notin late => RestEmpty(s)'
  <2> SUFFICES ASSUME s \notin late PROVE RestEmpty(s)'
    OBVIOUS
  <2>1. Rest(s) /\ (map[s].dataBufHandle # 0 => locked[t])
    BY <1>1, <1>3 DEF SlotInv, Phase
  <2> QED
    BY <1>2, <2>1, OverStaysOver DEF RestEmpty, Rest
<1>8. OnlyLateSlotsHarm'
  BY <1>3 DEF OnlyLateSlotsHarm, SlotInv
<1> QED
  BY <1>2, <1>3, <1>4, <1>5, <1>6, <1>7, <1>8, TaskStepKeeps
-----------------------------------------------------------------------------
(* Steps of the CP, and of tasks outside a call.                           *)

\* A step that touches no slot and no task in a call.
QuietStep ==
  /\ map' = map /\ late' = late /\ stray' = stray /\ lost' = lost
  /\ pc' = pc /\ slot' = slot /\ locked' = locked
  /\ \A x \in Tasks : pc[x] # "idle" => SameTask(x)
  /\ ~HandleAck
  /\ hpc' = "rsp" => hpc = "rsp" /\ hmsg' = hmsg

LEMMA QuietStepKeeps ==
  ASSUME Base, SlotInv, [Next]_vars, QuietStep, HandlerInSlot'
  PROVE  SlotInv'
<1>1. \A t \in Tasks : Marked(t)'
  BY DEF QuietStep, SlotInv, Marked
<1>2. ASSUME NEW s \in Slots, s \notin late', \A t \in Tasks : ~Works(t, s)'
      PROVE  RestEmpty(s)'
  <2>1. RestEmpty(s)
    BY <1>2 DEF QuietStep, SlotInv, Works
  <2> QED
    BY <2>1, OverStaysOver DEF QuietStep, RestEmpty, Rest
<1>3. ASSUME NEW t \in Tasks, NEW s \in Slots, Works(t, s)', s \notin late'
      PROVE  Phase(t, s)'
  <2>1. Works(t, s) /\ s \notin late /\ SameTask(t) /\ map'[s] = map[s]
    BY <1>3 DEF QuietStep, Works
  <2>2. Phase(t, s)
    BY <2>1 DEF SlotInv
  <2>3. AckWanted(t, s) /\ pc[t] = "ack" => call[t] \in AckDue'
    BY <2>1, AckStaysDue DEF AckWanted, QuietStep
  <2> QED
    BY <2>1, <2>2, <2>3, PhaseKept DEF QuietStep
<1>4. OnlyLateSlotsHarm'
  BY DEF QuietStep, SlotInv, OnlyLateSlotsHarm
<1> QED
  BY <1>1, <1>2, <1>3, <1>4 DEF SlotInv

LEMMA RestingStepsKeep ==
  ASSUME Base, SlotInv, [Next]_vars,
         \/ \E t \in Tasks : Spawn(t) \/ Exit(t) \/ NoMap(t)
         \/ \E c \in Calls : CpAck(c) \/ CpRespond(c)
         \/ DispatchNoMap \/ UNCHANGED vars
  PROVE  SlotInv'
<1> USE DEF taskVars, resultVars, handlerVars, ghostVars
<1>1. /\ map' = map /\ late' = late /\ stray' = stray /\ lost' = lost
      /\ pc' = pc /\ slot' = slot /\ locked' = locked
      /\ UNCHANGED <<ackRes, rspRes, filled, hpc, hmsg, hslot>>
  BY DEF Spawn, Exit, NoMap, CpAck, CpRespond, DispatchNoMap, vars
<1>2. ~HandleAck
  BY <1>1 DEF HandleAck, HandlerDone
<1>3. ASSUME NEW t \in Tasks, NoMap(t)
      PROVE  \A x \in Tasks : pc[x] # "idle" => call'[x] = call[x] /\ mytid'[x] = mytid[x]
  BY <1>3, NewCallNotHandled DEF NoMap
<1>4. \A x \in Tasks : pc[x] # "idle" => SameTask(x)
  <2>1. CASE \E t \in Tasks : NoMap(t)
    BY <1>1, <1>3, <2>1 DEF SameTask
  <2>2. CASE ~\E t \in Tasks : NoMap(t)
    <3>1. call' = call /\ mytid' = mytid
      BY <2>2 DEF Spawn, Exit, CpAck, CpRespond, DispatchNoMap, vars
    <3> QED
      BY <1>1, <3>1 DEF SameTask
  <2> QED
    BY <2>1, <2>2
<1>5. HandlerInSlot'
  BY <1>1, <1>4 DEF SlotInv, HandlerInSlot, SameTask
<1> QED
  BY <1>1, <1>2, <1>4, <1>5, QuietStepKeeps DEF QuietStep

-----------------------------------------------------------------------------
(* Steps of the message thread.                                            *)

\* The message thread finds the slot of the call its message belongs to.
LEMMA DispatchKeeps ==
  ASSUME Base, SlotInv, [Next]_vars, Dispatch
  PROVE  SlotInv'
<1> USE DEF taskVars, resultVars, handlerVars, ghostVars
<1>0. TypeOK /\ inbox # <<>> /\ inbox' = Tail(inbox)
  BY DEF Base, Dispatch
<1>1. PICK m \in Message : m = Head(inbox) /\ 1 \in 1..Len(inbox) /\ m = inbox[1]
  BY <1>0, TakesHead, InboxTypes
<1>2. SlotsWithTid(m.tid) # {} /\ SlotsWithTid(m.tid) \subseteq Slots
  BY <1>1 DEF Dispatch, SlotsWithTid
<1>3. First(SlotsWithTid(m.tid)) \in SlotsWithTid(m.tid)
  BY <1>2, FirstIsIn
<1>4. PICK s \in Slots : s = First(SlotsWithTid(m.tid)) /\ map[s].tid = m.tid
  BY <1>3 DEF SlotsWithTid
<1>5. /\ UNCHANGED <<map, pc, call, mytid, slot, ackRes, rspRes, filled, locked,
                     late, stray, lost>>
      /\ hmsg' = m /\ hslot' = s /\ hpc' \in {"ack", "copy"} /\ hpc = "idle"
  BY <1>1, <1>4 DEF Dispatch
<1>6. map[s].data = m.call
  <2>1. m.tid \in Tids \ {0} /\ Carries(m.tid, m.call)
    BY <1>1 DEF Base, Protocol, MsgOK, Message, Carries, InboxCarries
  <2>2. map[s].data \in CallOrNone /\ m.call \in CallOrNone
    BY <1>0 DEF TypeOK, Slot, Message, CallOrNone
  <2>3. Carries(m.tid, map[s].data)
    BY <1>4 DEF Carries, SlotCarries
  <2> QED
    BY <2>1, <2>2, <2>3 DEF Base, TidsUnique
<1>7. \A t \in Tasks : pc[t] # "idle" /\ call[t] = m.call => slot[t] = s
  BY <1>6 DEF Base, Numbered
<1>8. HandlerInSlot'
  BY <1>4, <1>5, <1>7 DEF HandlerInSlot
<1> QED
  BY <1>5, <1>8, QuietStepKeeps DEF QuietStep, SameTask, HandleAck

\* The message thread works on slot s; a task with another slot sees nothing.
HandlerStep(s) ==
  /\ OthersKept(s) /\ map'[s].releaseC2Buf = map[s].releaseC2Buf
  /\ pc' = pc /\ slot' = slot /\ locked' = locked /\ late' = late
  /\ \A x \in Tasks : pc[x] # "idle" /\ slot[x] # s => SameTask(x)
  /\ \A x \in Tasks : pc[x] # "idle" /\ slot[x] # s /\ hpc' = "rsp" => hmsg'.call # call[x]

LEMMA HandlerStepKeeps ==
  ASSUME Base, SlotInv, [Next]_vars, NEW s \in Slots, HandlerStep(s),
         \A x \in Tasks, y \in Slots :
           Works(x, y) /\ y # s /\ AckWanted(x, y) => call[x] \in AckDue',
         HandlerInSlot', OnlyLateSlotsHarm',
         s \notin late => \E t \in Tasks : Works(t, s) /\ Phase(t, s)'
  PROVE  SlotInv'
<1>1. ASSUME NEW t \in Tasks
      PROVE  Marked(t)'
  <2>1. pc[t] # "idle" => map'[slot[t]].releaseC2Buf = map[slot[t]].releaseC2Buf
    BY DEF HandlerStep, OthersKept, Base, TypeOK
  <2> QED
    BY <2>1 DEF HandlerStep, SlotInv, Marked
<1>2. ASSUME NEW y \in Slots, y \notin late', \A t \in Tasks : ~Works(t, y)'
      PROVE  RestEmpty(y)'
  <2>1. RestEmpty(y) /\ y # s
    BY <1>2 DEF HandlerStep, SlotInv, Works
  <2> QED
    BY <2>1, OverStaysOver DEF HandlerStep, OthersKept, RestEmpty, Rest
<1>3. ASSUME NEW x \in Tasks, NEW y \in Slots, Works(x, y)', y \notin late'
      PROVE  Phase(x, y)'
  <2>1. Works(x, y) /\ y \notin late
    BY <1>3 DEF HandlerStep, Works
  <2>2. CASE y = s
    BY <2>1, <2>2, OneWorker
  <2>3. CASE y # s
    <3>1. SameTask(x) /\ map'[y] = map[y] /\ Phase(x, y)
      BY <2>1, <2>3 DEF HandlerStep, OthersKept, Works, SlotInv
    <3>2. AckWanted(x, y) /\ pc[x] = "ack" => call[x] \in AckDue'
      BY <2>1, <2>3
    <3>3. ~(hpc' = "rsp" /\ hmsg'.call = call[x])
      BY <2>1, <2>3 DEF HandlerStep, Works
    <3> QED
      BY <3>1, <3>2, <3>3, PhaseKept
  <2> QED
    BY <2>2, <2>3
<1> QED
  BY <1>1, <1>2, <1>3 DEF SlotInv

\* What the message thread holds, and for whom.
LEMMA HandlerAtWork ==
  ASSUME Base, SlotInv, hpc # "idle"
  PROVE  \E s \in Slots :
           /\ s = hslot /\ hmsg \in Message /\ hmsg.call \in Calls
           /\ \A x \in Tasks : pc[x] # "idle" /\ slot[x] # s => call[x] # hmsg.call
           /\ s \notin late => \E t \in Tasks : Expects(t, s, hmsg)
<1>1. PICK s \in Slots : s = hslot
  BY DEF Base, TypeOK
<1>2. hmsg \in Message /\ hmsg.call \in Calls
  BY InboxTypes DEF Base, Protocol
<1>3. \A x \in Tasks : pc[x] # "idle" /\ slot[x] # s => call[x] # hmsg.call
  BY <1>1 DEF SlotInv, HandlerInSlot
<1>4. ASSUME s \notin late
      PROVE  \E t \in Tasks : Expects(t, s, hmsg)
  <2>1. map[s].tid = hmsg.tid
    BY <1>1, <1>4 DEF SlotInv, HandlerInSlot
  <2> QED
    BY <1>2, <1>4, <2>1, MessageIsExpected
<1> QED
  BY <1>1, <1>2, <1>3, <1>4

\* RPC_SyncHandleAck: the ack is the one its task waits for.
LEMMA HandleAckKeeps ==
  ASSUME Base, SlotInv, [Next]_vars, HandleAck
  PROVE  SlotInv'
<1> USE DEF taskVars, resultVars, handlerVars, ghostVars
<1>0. TypeOK /\ hpc = "ack"
  BY DEF Base, HandleAck
<1>1. PICK s \in Slots :
        /\ s = hslot /\ hmsg \in Message /\ hmsg.call \in Calls
        /\ \A x \in Tasks : pc[x] # "idle" /\ slot[x] # s => call[x] # hmsg.call
        /\ s \notin late => \E t \in Tasks : Expects(t, s, hmsg)
  BY <1>0, HandlerAtWork
<1>2. /\ OthersKept(s)
      /\ map'[s].ackSema = map[s].ackSema + 1 /\ map'[s].rspSema = map[s].rspSema
      /\ map'[s].ack = hmsg.ok /\ map'[s].isResultPending = hmsg.pending
      /\ map'[s].ackOf = hmsg.call
      /\ map'[s].tid = IF hmsg.ok /\ hmsg.pending THEN 0 ELSE map[s].tid
      /\ map'[s].data = map[s].data
      /\ map'[s].releaseC2Buf = map[s].releaseC2Buf
      /\ map'[s].dataBufHandle = map[s].dataBufHandle
  BY <1>0, <1>1, HandleAckEffect
<1>3. /\ UNCHANGED <<pc, call, mytid, slot, ackRes, rspRes, filled, locked, cp, inbox,
                     late, stray, lost>>
      /\ hpc' = "idle"
  BY DEF HandleAck, HandlerDone
<1>4. HandlerStep(s)
  BY <1>2, <1>3 DEF HandlerStep, SameTask
<1>5. ASSUME NEW x \in Tasks, NEW y \in Slots, Works(x, y), y # s, AckWanted(x, y)
      PROVE  call[x] \in AckDue'
  <2>1. call[x] # hmsg.call /\ call[x] \in AckDue
    BY <1>1, <1>5 DEF Works, AckWanted
  <2> QED
    BY <1>3, <2>1 DEF AckDue, AcksUnderWay
<1>6. HandlerInSlot' /\ OnlyLateSlotsHarm'
  BY <1>3 DEF HandlerInSlot, OnlyLateSlotsHarm, SlotInv
<1>7. ASSUME s \notin late
      PROVE  \E t \in Tasks : Works(t, s) /\ Phase(t, s)'
  <2>1. PICK t \in Tasks : Expects(t, s, hmsg)
    BY <1>1, <1>7
  <2>2. hmsg.call \notin AckOver
    BY <1>0 DEF AckOver, AcksUnderWay
  <2>3. /\ Works(t, s) /\ pc[t] = "ack" /\ AckWanted(t, s) /\ call[t] = hmsg.call
        /\ map[s].data = call[t]
    BY <2>1, <2>2 DEF Expects
  <2>4. /\ cp[hmsg.call].st \in {"accepted", "over"}
        /\ ~hmsg.ok \/ hmsg.pending => cp[hmsg.call].st = "over"
        /\ \A i \in 1..Len(inbox) : inbox[i].call = hmsg.call =>
             hmsg.ok /\ ~hmsg.pending /\ inbox[i].kind = "rsp"
    BY <1>0 DEF Base, Protocol, MsgOK, InOrder
  <2>5. map'[s].ackSema = 1 /\ map'[s].ackOf = call[t] /\ map'[s].rspSema = 0
        /\ map'[s].dataBufHandle = 0
    BY <1>2, <2>3 DEF AckWanted
  <2>6. ASSUME hmsg.ok, ~hmsg.pending
        PROVE  AwaitsRsp(t, s)'
    <3>1. call[t] \in AckOver'
      BY <1>1, <1>3, <2>3, <2>4 DEF AckOver, AcksUnderWay
    <3>2. RspDue(t, s)'
      BY <1>2, <1>3, <2>3, <2>5, <2>6 DEF RspDue, AckWanted
    <3> QED
      BY <1>3, <3>1, <3>2 DEF AwaitsRsp
  <2>7. ASSUME ~(hmsg.ok /\ ~hmsg.pending)
        PROVE  call[t] \in Settled'
    BY <1>1, <1>3, <2>3, <2>4, <2>7 DEF Settled, UnderWay
  <2>8. AckThere(t, s)'
    BY <1>2, <1>3, <2>5, <2>6, <2>7 DEF AckThere
  <2> QED
    BY <1>2, <1>3, <2>3, <2>8 DEF Phase
<1> QED
  BY <1>4, <1>5, <1>6, <1>7, HandlerStepKeeps

\* A response comes after the ack: its task has it, or will find it.
LEMMA ResponseIsExpected ==
  ASSUME Base, SlotInv, hpc \in {"copy", "rsp"}, NEW t \in Tasks, NEW s \in Slots,
         Expects(t, s, hmsg)
  PROVE  /\ Works(t, s) /\ call[t] = hmsg.call /\ map[s].data = hmsg.call
         /\ call[t] \in AckOver /\ RspDue(t, s)
         /\ \/ pc[t] = "rsp"
            \/ pc[t] = "ack" /\ AckThere(t, s) /\ map[s].ack /\ ~map[s].isResultPending
<1>1. hmsg.kind # "ack" /\ cp[hmsg.call].st \in {"accepted", "over"}
  BY DEF Base, Protocol, MsgOK
<1>2. \A i \in 1..Len(inbox) : inbox[i].call # hmsg.call
  BY <1>1 DEF Base, Protocol, InOrder
<1>3. hmsg.call \notin AckDue
  BY <1>1, <1>2 DEF AckDue, AcksUnderWay
<1>4. ~AckWanted(t, s)
  BY <1>3 DEF Expects, AckWanted
<1> QED
  BY <1>4 DEF Expects

\* copyCb: the data pointer of the slot is that of the task that waits.
LEMMA CopyCbKeeps ==
  ASSUME Base, SlotInv, [Next]_vars, CopyCb
  PROVE  SlotInv'
<1> USE DEF taskVars, resultVars, handlerVars, ghostVars
<1>0. TypeOK /\ hpc = "copy"
  BY DEF Base, CopyCb
<1>1. PICK s \in Slots :
        /\ s = hslot /\ hmsg \in Message /\ hmsg.call \in Calls
        /\ \A x \in Tasks : pc[x] # "idle" /\ slot[x] # s => call[x] # hmsg.call
        /\ s \notin late => \E t \in Tasks : Expects(t, s, hmsg)
  BY <1>0, HandlerAtWork
<1>2. /\ UNCHANGED <<map, pc, call, mytid, slot, ackRes, rspRes, locked, cp, inbox,
                     hmsg, hslot, late, lost>>
      /\ hpc' = "rsp" /\ ~HandleAck
  BY DEF CopyCb, HandleAck
<1>3. /\ \A x \in Tasks : filled'[x] = IF pc[x] # "idle" /\ call[x] = map[s].data
                                         THEN hmsg.call ELSE filled[x]
      /\ stray' = IF map[s].data # 0 /\ ~\E x \in Tasks : Writes(x)
                    THEN stray \cup {s} ELSE stray
  BY <1>1 DEF CopyCb, Writes
<1>4. HandlerStep(s)
  <2>1. \A x \in Tasks : pc[x] # "idle" /\ slot[x] # s => call[x] # map[s].data
    BY DEF Base, Numbered
  <2>2. \A x \in Tasks : pc[x] # "idle" /\ slot[x] # s => SameTask(x)
    BY <1>2, <1>3, <2>1 DEF SameTask
  <2> QED
    BY <1>1, <1>2, <2>2 DEF HandlerStep, OthersKept
<1>5. \A x \in Tasks, y \in Slots :
        Works(x, y) /\ y # s /\ AckWanted(x, y) => call[x] \in AckDue'
  BY <1>2, AckStaysDue DEF AckWanted
<1>6. HandlerInSlot'
  BY <1>0, <1>2 DEF HandlerInSlot, SlotInv
<1>7. ASSUME s \notin late, NEW t \in Tasks, Expects(t, s, hmsg)
      PROVE  Writes(t) /\ Phase(t, s)'
  <2>1. /\ Works(t, s) /\ call[t] = hmsg.call /\ map[s].data = hmsg.call
        /\ call[t] \in AckOver /\ RspDue(t, s)
        /\ \/ pc[t] = "rsp"
           \/ pc[t] = "ack" /\ AckThere(t, s) /\ map[s].ack /\ ~map[s].isResultPending
    BY <1>0, <1>7, ResponseIsExpected
  <2>2. filled'[t] = call[t]
    BY <1>3, <2>1 DEF Works
  <2>3. AwaitsRsp(t, s)'
    BY <1>2, <2>1, <2>2, OverStaysOver DEF AwaitsRsp, RspDue
  <2>4. Phase(t, s)
    BY <1>7, <2>1 DEF SlotInv
  <2>5. AckThere(t, s) /\ map[s].ack /\ ~map[s].isResultPending => AckThere(t, s)'
    BY <1>2, <2>3 DEF AckThere
  <2> QED
    BY <1>1, <1>2, <2>1, <2>3, <2>4, <2>5 DEF Phase, Writes, Works
<1>8. OnlyLateSlotsHarm'
  <2>1. stray' \subseteq stray \cup {s} /\ (s \notin late => stray' = stray)
    BY <1>1, <1>3, <1>7
  <2> QED
    BY <1>2, <2>1 DEF OnlyLateSlotsHarm, SlotInv
<1>9. s \notin late => \E t \in Tasks : Works(t, s) /\ Phase(t, s)'
  BY <1>1, <1>7 DEF Expects
<1> QED
  BY <1>4, <1>5, <1>6, <1>8, <1>9, HandlerStepKeeps

\* RPC_SyncHandleResponse: a buffer stays in the slot only if its task locked it.
LEMMA HandleResponseKeeps ==
  ASSUME Base, SlotInv, [Next]_vars, HandleResponse
  PROVE  SlotInv'
<1> USE DEF taskVars, resultVars, handlerVars, ghostVars
<1>0. TypeOK /\ hpc = "rsp"
  BY DEF Base, HandleResponse
<1>1. PICK s \in Slots :
        /\ s = hslot /\ hmsg \in Message /\ hmsg.call \in Calls
        /\ \A x \in Tasks : pc[x] # "idle" /\ slot[x] # s => call[x] # hmsg.call
        /\ s \notin late => \E t \in Tasks : Expects(t, s, hmsg)
  BY <1>0, HandlerAtWork
<1>2. /\ OthersKept(s)
      /\ map'[s].rspSema = map[s].rspSema + 1 /\ map'[s].ackSema = map[s].ackSema
      /\ map'[s].ack = map[s].ack /\ map'[s].ackOf = map[s].ackOf
      /\ map'[s].isResultPending = map[s].isResultPending
      /\ map'[s].result = hmsg.call /\ map'[s].tid = 0
      /\ map'[s].data = map[s].data
      /\ map'[s].releaseC2Buf = map[s].releaseC2Buf
      /\ map'[s].dataBufHandle =
           IF map[s].releaseC2Buf THEN map[s].dataBufHandle ELSE hmsg.call
  BY <1>0, <1>1, HandleResponseEffect
<1>3. /\ UNCHANGED <<pc, call, mytid, slot, ackRes, rspRes, filled, locked, cp, inbox,
                     late, stray, lost>>
      /\ hpc' = "idle" /\ ~HandleAck
  BY <1>0 DEF HandleResponse, HandlerDone, HandleAck
<1>4. HandlerStep(s)
  BY <1>2, <1>3 DEF HandlerStep, SameTask
<1>5. \A x \in Tasks, y \in Slots :
        Works(x, y) /\ y # s /\ AckWanted(x, y) => call[x] \in AckDue'
  BY <1>3, AckStaysDue DEF AckWanted
<1>6. HandlerInSlot' /\ OnlyLateSlotsHarm'
  BY <1>3 DEF HandlerInSlot, OnlyLateSlotsHarm, SlotInv
<1>7. ASSUME s \notin late
      PROVE  \E t \in Tasks : Works(t, s) /\ Phase(t, s)'
  <2>1. PICK t \in Tasks : Expects(t, s, hmsg)
    BY <1>1, <1>7
  <2>2. /\ Works(t, s) /\ call[t] = hmsg.call /\ map[s].data = hmsg.call
        /\ call[t] \in AckOver /\ RspDue(t, s)
        /\ \/ pc[t] = "rsp"
           \/ pc[t] = "ack" /\ AckThere(t, s) /\ map[s].ack /\ ~map[s].isResultPending
    BY <1>0, <2>1, ResponseIsExpected
  <2>3. call[t] \in Settled'
    <3>1. cp[hmsg.call].st = "over" /\ \A i \in 1..Len(inbox) : inbox[i].call # hmsg.call
      BY <1>0 DEF Base, Protocol, MsgOK, InOrder, Message
    <3> QED
      BY <1>1, <1>3, <2>2, <3>1 DEF Settled, UnderWay
  <2>4. map'[s].dataBufHandle # 0 => locked[t]
    <3>1. map[s].releaseC2Buf <=> ~locked[t]
      BY <1>7, <2>2 DEF SlotInv, Marked, Works
    <3> QED
      BY <1>2, <2>2, <3>1 DEF RspDue
  <2>5. RspThere(t, s)'
    BY <1>0, <1>2, <1>3, <2>2, <2>3, <2>4 DEF RspDue, RspThere
  <2>6. AwaitsRsp(t, s)'
    BY <1>3, <2>2, <2>5, OverStaysOver DEF AwaitsRsp
  <2>7. Phase(t, s)
    BY <1>7, <2>2 DEF SlotInv
  <2>8. AckThere(t, s) /\ map[s].ack /\ ~map[s].isResultPending => AckThere(t, s)'
    BY <1>2, <1>3, <2>6 DEF AckThere
  <2> QED
    BY <1>2, <1>3, <2>2, <2>6, <2>7, <2>8 DEF Phase
<1> QED
  BY <1>4, <1>5, <1>6, <1>7, HandlerStepKeeps
-----------------------------------------------------------------------------
LEMMA SlotInvStep ==
  ASSUME Base, SlotInv, [Next]_vars
  PROVE  SlotInv'
<1>1. CASE \/ \E t \in Tasks : Spawn(t) \/ Exit(t) \/ NoMap(t)
           \/ \E c \in Calls : CpAck(c) \/ CpRespond(c)
           \/ DispatchNoMap \/ UNCHANGED vars
  BY <1>1, RestingStepsKeep
<1>2. CASE \E t \in Tasks : FoundMap(t) \/ NewMap(t) \/ RecycleMap(t) \/ ResetRecycled(t)
  BY <1>2, FoundMapKeeps, RecycleMapKeeps, ResetRecycledKeeps
<1>3. CASE \E t \in Tasks : Publish(t) \/ LockResponseBuffer(t)
  BY <1>3, PublishKeeps, LockKeeps
<1>4. CASE \E t \in Tasks : AckObtain(t) \/ RspObtain(t)
  BY <1>4, AckObtainKeeps, RspObtainKeeps
<1>5. CASE \E t \in Tasks : Timeout(t) \/ ReadLate(t) \/ Return(t)
  BY <1>5, LateKeeps, ReturnKeeps
<1>6. CASE Dispatch \/ HandleAck \/ CopyCb \/ HandleResponse
  BY <1>6, DispatchKeeps, HandleAckKeeps, CopyCbKeeps, HandleResponseKeeps
<1> QED
  BY <1>1, <1>2, <1>3, <1>4, <1>5, <1>6 DEF Next

LEMMA SlotInvHolds == Spec => []SlotInv
<1>1. Init => SlotInv
  <2> SUFFICES ASSUME Init
               PROVE  SlotInv
    OBVIOUS
  <2>1. \A s \in Slots : RestEmpty(s)
    BY DEF Init, EmptySlot, RestEmpty, Rest
  <2>2. \A t \in Tasks : pc[t] = "idle" /\ ~locked[t]
    BY DEF Init
  <2>3. HandlerInSlot /\ OnlyLateSlotsHarm
    BY DEF Init, HandlerInSlot, OnlyLateSlotsHarm
  <2> QED
    BY <2>1, <2>2, <2>3 DEF SlotInv, Marked, Works
<1> QED
  BY <1>1, SlotInvStep, BaseHolds, PTL DEF Spec

\* A call that ends in a slot in which no wait timed out returns its own ack,
\* and the response to its own request in its own buffer: RPC_SyncHandleAck,
\* copyCb and RPC_SyncHandleResponse, which exclude nobody, find the slot of
\* the call their message answers, while its task sleeps in
\* RPC_SyncWaitForResponse.  For any number of tasks, slots, ids and calls.
THEOREM AnswersAreMine == Spec => []AnswerIsMine
<1>1. TypeOK /\ SlotInv => AnswerIsMine
  <2> SUFFICES ASSUME TypeOK, SlotInv, NEW t \in Tasks, pc[t] = "done", slot[t] \notin late
               PROVE  /\ ackRes[t].of = call[t]
                      /\ ackRes[t].ok /\ ~ackRes[t].pending =>
                           rspRes[t] = call[t] /\ filled[t] = call[t]
    BY DEF AnswerIsMine
  <2>1. PICK s \in Slots : s = slot[t]
    BY DEF TypeOK
  <2>2. Phase(t, s)
    BY <2>1 DEF SlotInv, Works
  <2> QED
    BY <2>2 DEF Phase
<1> QED
  BY <1>1, TypeCorrect, SlotInvHolds, PTL

\* copyCb writes to the buffer of a call that has returned, and
\* RPC_SyncInitTaskMap forgets a response buffer that the slot still holds,
\* only in a slot in which a wait has timed out.
THEOREM HarmNeedsTimeout == Spec => []OnlyLateSlotsHarm
<1>1. SlotInv => OnlyLateSlotsHarm
  BY DEF SlotInv
<1> QED
  BY <1>1, SlotInvHolds, PTL
=============================================================================
