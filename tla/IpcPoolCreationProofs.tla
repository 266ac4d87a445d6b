----------------------- MODULE IpcPoolCreationProofs -----------------------
(***************************************************************************)
(* Proofs about the creation of pools, for any number of threads, types    *)
(* and bytes: what a CPU that creates its pools one at a time can rely on  *)
(* although nothing excludes the other CPU.                                *)
(***************************************************************************)
EXTENDS IpcPoolCreation, FiniteSetTheorems, WellFoundedInduction, TLAPS

\* A mark stays a word.
LEMMA ModIsWord ==
  ASSUME NEW x \in Int
  PROVE  /\ x % WORD \in Addresses
         /\ x \in Addresses => x % WORD = x
BY CreationAssumption DEF Addresses

\* The type of the state, with the list of pools left out.
TypeInv ==
  /\ Allocated \in [Cpus -> Addresses]
  /\ CurrentBuffers \in [Cpus -> Nat]
  /\ handle \in [Cpus -> [Types -> Addresses]]
  /\ pc \in [Threads -> Steps]
  /\ type \in [Threads -> Types \cup {NoType}]
  /\ \A t \in Threads : type[t] = NoType <=> pc[t] = "idle"
  /\ mine \in [Threads -> Addresses]
  /\ tries \in [Threads -> 0..MaxTries]
  /\ pools \subseteq [at : Addresses, type : Types, cpu : Cpus]
  /\ serial \in [Cpus -> BOOLEAN] /\ apart \in BOOLEAN /\ overrun \in BOOLEAN

ListType ==
  /\ FirstPool \in Addresses /\ LastPool \in Addresses
  /\ NextPool \in [Addresses -> Addresses]

LEMMA InitType == Init => TypeInv /\ ListType
<1> SUFFICES ASSUME Init PROVE TypeInv /\ ListType
  OBVIOUS
<1>0. /\ 0 \in Addresses /\ Base \in Addresses /\ Area \in Addresses
      /\ 0 \in 0..MaxTries
  BY CreationAssumption DEF Addresses
<1>1. ListType
  BY <1>0 DEF Init, ListType
<1>2. /\ Allocated \in [Cpus -> Addresses]
      /\ CurrentBuffers \in [Cpus -> Nat]
      /\ handle \in [Cpus -> [Types -> Addresses]]
  BY <1>0 DEF Init
<1>3. /\ pc \in [Threads -> Steps]
      /\ type \in [Threads -> Types \cup {NoType}]
      /\ \A t \in Threads : type[t] = NoType <=> pc[t] = "idle"
      /\ mine \in [Threads -> Addresses]
      /\ tries \in [Threads -> 0..MaxTries]
  BY <1>0 DEF Init, Steps
<1>4. /\ pools \subseteq [at : Addresses, type : Types, cpu : Cpus]
      /\ serial \in [Cpus -> BOOLEAN] /\ apart \in BOOLEAN /\ overrun \in BOOLEAN
  BY DEF Init
<1> QED
  BY <1>1, <1>2, <1>3, <1>4 DEF TypeInv

\* The steps before a pool is handed out, and those after.
Before == {"count", "space", "take", "move", "verify"}
After == {"first", "set first", "last", "set last", "link", "init", "store"}

\* What an action may do to the steps of the threads.
LEMMA StoreType ==
  ASSUME TypeInv, NEW t \in Threads, pc[t] # "idle", NEW a \in Addresses, Store(t, a)
  PROVE  /\ handle' \in [Cpus -> [Types -> Addresses]]
         /\ pc' \in [Threads -> Steps]
         /\ type' \in [Threads -> Types \cup {NoType}]
         /\ \A u \in Threads : type'[u] = NoType <=> pc'[u] = "idle"
         /\ mine' \in [Threads -> Addresses]
<1>1. type[t] \in Types /\ CpuOf[t] \in Cpus /\ 0 \in Addresses
  BY CreationAssumption DEF TypeInv, Addresses
<1> QED
  BY <1>1, CreationAssumption DEF TypeInv, Store, Goto, Steps

LEMMA ContinueType ==
  ASSUME TypeInv, NEW t \in Threads, pc[t] # "idle",
         NEW s \in Steps \ {"idle"}, Continue(t, s)
  PROVE  /\ handle' \in [Cpus -> [Types -> Addresses]]
         /\ pc' \in [Threads -> Steps]
         /\ type' \in [Threads -> Types \cup {NoType}]
         /\ \A u \in Threads : type'[u] = NoType <=> pc'[u] = "idle"
         /\ mine' \in [Threads -> Addresses]
BY DEF TypeInv, Continue, Goto

\* The list of pools is changed by threads that have their pool already.
ListStep(t) ==
  TestFirst(t) \/ SetFirst(t) \/ TestLast(t) \/ Link(t) \/ SetLast(t) \/ InitPool(t)

LEMMA ListStepFrame ==
  ASSUME TypeInv, NEW t \in Threads, ListStep(t)
  PROVE  /\ pc[t] \in After
         /\ pc' \in [Threads -> Steps]
         /\ pc'[t] \in After
         /\ \A u \in Threads \ {t} : pc'[u] = pc[u]
         /\ UNCHANGED <<Allocated, CurrentBuffers, handle, type, mine, tries, pools,
                        serial, apart, overrun>>
BY DEF ListStep, TestFirst, SetFirst, TestLast, Link, SetLast, InitPool, TypeInv,
       After, Steps, Goto, shared, ghosts, list

LEMMA TypeStep ==
  ASSUME TypeInv, ListType, [Next]_vars
  PROVE  TypeInv' /\ ListType'
<1> USE DEF ghosts, shared, list
<1>0. 0 \in Addresses /\ \A t \in Threads : CpuOf[t] \in Cpus
  BY CreationAssumption DEF Addresses
<1>1. ASSUME NEW t \in Threads, NEW i \in Types, Begin(t, i)
      PROVE  TypeInv' /\ ListType'
  <2>0. tries[t] + 1 \in 0..MaxTries
    <3>1. tries[t] \in 0..MaxTries /\ tries[t] < MaxTries
      BY <1>1 DEF Begin, TypeInv
    <3> QED
      BY <3>1, CreationAssumption
  <2>1. /\ tries' \in [Threads -> 0..MaxTries]
        /\ pc' \in [Threads -> Steps]
        /\ type' \in [Threads -> Types \cup {NoType}]
    BY <1>1, <2>0 DEF Begin, TypeInv, Goto, Steps
  <2>2. \A u \in Threads : type'[u] = NoType <=> pc'[u] = "idle"
    BY <1>1, CreationAssumption DEF Begin, TypeInv, Goto
  <2>3. serial' \in [Cpus -> BOOLEAN]
    BY <1>1 DEF Begin, TypeInv
  <2>4. apart' \in BOOLEAN
    BY <1>1 DEF Begin
  <2> QED
    BY <1>1, <2>1, <2>2, <2>3, <2>4 DEF Begin, TypeInv, ListType
<1>2. ASSUME NEW t \in Threads, CountTest(t)
      PROVE  TypeInv' /\ ListType'
  <2>1. pc[t] # "idle" /\ "space" \in Steps \ {"idle"}
    BY <1>2 DEF CountTest, Steps
  <2> QED
    BY <1>2, <1>0, <2>1, StoreType, ContinueType DEF CountTest, TypeInv, ListType
<1>3. ASSUME NEW t \in Threads, SpaceTest(t)
      PROVE  TypeInv' /\ ListType'
  <2>1. pc[t] # "idle" /\ "take" \in Steps \ {"idle"}
    BY <1>3 DEF SpaceTest, Steps
  <2> QED
    BY <1>3, <1>0, <2>1, StoreType, ContinueType DEF SpaceTest, TypeInv, ListType
<1>4. ASSUME NEW t \in Threads, TakeAp(t)
      PROVE  TypeInv' /\ ListType'
  BY <1>4 DEF TakeAp, TypeInv, ListType, Goto, Steps, Cpus
<1>5. ASSUME NEW t \in Threads, MoveAp(t)
      PROVE  TypeInv' /\ ListType'
  <2>1. type[t] \in Types /\ "AP" \in Cpus
    BY <1>5 DEF MoveAp, TypeInv, Cpus
  <2>2. Allocated["AP"] + SizeOf[type[t]] \in Int
    BY <2>1, CreationAssumption DEF TypeInv, Addresses
  <2>3. Allocated' \in [Cpus -> Addresses]
    BY <1>5, <2>2, ModIsWord DEF MoveAp, TypeInv
  <2>4. overrun' \in BOOLEAN
    BY <1>5 DEF MoveAp
  <2> QED
    BY <1>5, <2>3, <2>4 DEF MoveAp, TypeInv, ListType, Goto, Steps
<1>6. ASSUME NEW t \in Threads, MoveCp(t)
      PROVE  TypeInv' /\ ListType'
  <2>1. type[t] \in Types /\ "CP" \in Cpus
    BY <1>6 DEF MoveCp, TypeInv, Cpus
  <2>2. Allocated["CP"] - SizeOf[type[t]] \in Int
    BY <2>1, CreationAssumption DEF TypeInv, Addresses
  <2>3. Allocated' \in [Cpus -> Addresses]
    BY <1>6, <2>2, ModIsWord DEF MoveCp, TypeInv
  <2>4. overrun' \in BOOLEAN
    BY <1>6 DEF MoveCp
  <2> QED
    BY <1>6, <2>3, <2>4 DEF MoveCp, TypeInv, ListType, Goto, Steps
<1>7. ASSUME NEW t \in Threads, TakeCp(t)
      PROVE  TypeInv' /\ ListType'
  BY <1>7 DEF TakeCp, TypeInv, ListType, Goto, Steps, Cpus
<1>8. ASSUME NEW t \in Threads, Verify(t)
      PROVE  TypeInv' /\ ListType'
  <2>1. pc[t] # "idle" /\ "first" \in Steps \ {"idle"} /\ type[t] \in Types
    BY <1>8 DEF Verify, Steps, TypeInv
  <2>2. CASE Crossed \/ mine[t] = 0
    BY <1>8, <1>0, <2>1, <2>2, StoreType DEF Verify, TypeInv, ListType
  <2>3. CASE ~(Crossed \/ mine[t] = 0)
    <3>1. CurrentBuffers' \in [Cpus -> Nat]
      <4>1. CurrentBuffers[CpuOf[t]] + CountOf[type[t]] \in Nat
        BY <1>0, <2>1, CreationAssumption DEF TypeInv
      <4> QED
        BY <1>8, <2>3, <4>1 DEF Verify, TypeInv
    <3>2. pools' \subseteq [at : Addresses, type : Types, cpu : Cpus]
      BY <1>8, <1>0, <2>1, <2>3 DEF Verify, TypeInv
    <3>3. Continue(t, "first")
      BY <1>8, <2>3 DEF Verify
    <3> QED
      BY <1>8, <2>1, <3>1, <3>2, <3>3, ContinueType DEF Verify, TypeInv, ListType
  <2> QED
    BY <2>2, <2>3
<1>9. ASSUME NEW t \in Threads, ListStep(t)
      PROVE  TypeInv' /\ ListType'
  <2>1. /\ pc[t] \in After /\ pc' \in [Threads -> Steps]
        /\ pc'[t] \in After /\ \A u \in Threads \ {t} : pc'[u] = pc[u]
        /\ UNCHANGED <<Allocated, CurrentBuffers, handle, type, mine, tries, pools,
                       serial, apart, overrun>>
    BY <1>9, ListStepFrame
  <2>2. TypeInv'
    BY <2>1 DEF TypeInv, After
  <2>3. ListType'
    <3>1. mine[t] \in Addresses /\ LastPool \in Addresses
      BY DEF TypeInv, ListType
    <3>2. CASE TestFirst(t) \/ TestLast(t)
      BY <3>2 DEF TestFirst, TestLast, ListType
    <3>3. CASE SetFirst(t) \/ SetLast(t)
      BY <3>1, <3>3 DEF SetFirst, SetLast, ListType
    <3>4. CASE Link(t) \/ InitPool(t)
      BY <3>1, <3>4, <1>0 DEF Link, InitPool, ListType
    <3> QED
      BY <1>9, <3>2, <3>3, <3>4 DEF ListStep
  <2> QED
    BY <2>2, <2>3
<1>10. ASSUME NEW t \in Threads, StoreHandle(t)
      PROVE  TypeInv' /\ ListType'
  <2>1. pc[t] # "idle" /\ mine[t] \in Addresses
    BY <1>10 DEF StoreHandle, TypeInv
  <2> QED
    BY <1>10, <2>1, StoreType DEF StoreHandle, TypeInv, ListType
<1>11. CASE UNCHANGED vars
  BY <1>11 DEF vars, TypeInv, ListType
<1> QED
  BY <1>1, <1>2, <1>3, <1>4, <1>5, <1>6, <1>7, <1>8, <1>9, <1>10, <1>11 DEF Next, ListStep

(***************************************************************************)
(* The state of a creation keeps its types; in particular the marks are    *)
(* words, however often they wrap (IPC_SmAlloc).                           *)
(***************************************************************************)
THEOREM TypeCorrect == Spec => []TypeOK
<1>1. TypeInv /\ ListType => TypeOK
  BY DEF TypeInv, ListType, TypeOK
<1>2. ASSUME TypeInv /\ ListType, [Next]_vars
      PROVE  (TypeInv /\ ListType)'
  BY <1>2, TypeStep
<1> QED
  BY <1>1, <1>2, InitType, PTL DEF Spec
-----------------------------------------------------------------------------
(* A CPU that creates its pools one at a time.                             *)

\* At most one thread of such a CPU is creating a pool.
Exclusive ==
  \A t, u \in Threads :
    serial[CpuOf[t]] /\ CpuOf[t] = CpuOf[u] /\ pc[t] # "idle" /\ pc[u] # "idle" => t = u

\* Nothing makes a CPU serial again, and only Begin makes a thread a creator.
LEMMA StepFrame ==
  ASSUME TypeInv, Exclusive, [Next]_vars
  PROVE  /\ \A c \in Cpus : serial'[c] => serial[c]
         /\ Exclusive'
<1> USE DEF ghosts, shared, list
<1>0. \A t \in Threads : CpuOf[t] \in Cpus
  BY CreationAssumption
<1>1. ASSUME NEW t \in Threads, NEW i \in Types, Begin(t, i)
      PROVE  (\A c \in Cpus : serial'[c] => serial[c]) /\ Exclusive'
  <2>1. \A c \in Cpus : serial'[c] => serial[c]
    BY <1>1, <1>0 DEF Begin, TypeInv
  <2>2. serial'[CpuOf[t]] => \A u \in Threads : CpuOf[u] = CpuOf[t] => pc[u] = "idle"
    BY <1>1, <1>0 DEF Begin, TypeInv, Creating
  <2>3. \A u \in Threads \ {t} : pc'[u] = pc[u]
    BY <1>1 DEF Begin, TypeInv, Goto
  <2> QED
    BY <2>1, <2>2, <2>3, <1>0 DEF Exclusive
<1>2. ASSUME NEW t \in Threads, pc[t] # "idle", UNCHANGED serial,
             \A u \in Threads \ {t} : pc'[u] = pc[u]
      PROVE  (\A c \in Cpus : serial'[c] => serial[c]) /\ Exclusive'
  BY <1>2, <1>0 DEF Exclusive
<1>3. ASSUME NEW t \in Threads,
             CountTest(t) \/ SpaceTest(t) \/ TakeAp(t) \/ MoveAp(t) \/ MoveCp(t)
               \/ TakeCp(t) \/ Verify(t) \/ StoreHandle(t)
      PROVE  (\A c \in Cpus : serial'[c] => serial[c]) /\ Exclusive'
  <2>1. pc[t] # "idle" /\ UNCHANGED serial /\ \A u \in Threads \ {t} : pc'[u] = pc[u]
    BY <1>3 DEF CountTest, SpaceTest, TakeAp, MoveAp, MoveCp, TakeCp, Verify,
                StoreHandle, Store, Continue, Goto, TypeInv
  <2> QED
    BY <2>1, <1>2
<1>4. ASSUME NEW t \in Threads, ListStep(t)
      PROVE  (\A c \in Cpus : serial'[c] => serial[c]) /\ Exclusive'
  BY <1>4, <1>2, ListStepFrame DEF After
<1>5. CASE UNCHANGED vars
  BY <1>5 DEF vars, Exclusive
<1> QED
  BY <1>1, <1>3, <1>4, <1>5 DEF Next, ListStep

\* The buffers of such a CPU, with the pool that has passed the test.
CountInv ==
  /\ BuffersFit
  /\ \A t \in Threads :
       serial[CpuOf[t]] /\ pc[t] \in {"space", "take", "move", "verify"} =>
         CurrentBuffers[CpuOf[t]] + CountOf[type[t]] < MAX

LEMMA CountStep ==
  ASSUME TypeInv, Exclusive, CountInv, [Next]_vars
  PROVE  CountInv'
<1> USE DEF ghosts, shared, list
<1>0. /\ \A t \in Threads : CpuOf[t] \in Cpus
      /\ \A t \in Threads : pc[t] # "idle" => type[t] \in Types /\ CountOf[type[t]] \in Nat
      /\ \A c \in Cpus : CurrentBuffers[c] \in Nat
      /\ MAX \in Nat
  BY CreationAssumption DEF TypeInv
<1>1. \A c \in Cpus : serial'[c] => serial[c]
  BY StepFrame
<1>2. ASSUME NEW t \in Threads, NEW i \in Types, Begin(t, i)
      PROVE  CountInv'
  BY <1>0, <1>1, <1>2 DEF Begin, CountInv, BuffersFit, TypeInv, Goto
<1>3. ASSUME NEW t \in Threads, CountTest(t)
      PROVE  CountInv'
  <2>1. CASE CurrentBuffers[CpuOf[t]] + CountOf[type[t]] >= MAX
    BY <1>0, <1>3, <2>1 DEF CountTest, CountInv, BuffersFit, TypeInv, Store, Goto
  <2>2. CASE ~(CurrentBuffers[CpuOf[t]] + CountOf[type[t]] >= MAX)
    BY <1>0, <1>3, <2>2 DEF CountTest, CountInv, BuffersFit, TypeInv, Continue, Goto
  <2> QED
    BY <2>1, <2>2
<1>4. ASSUME NEW t \in Threads, SpaceTest(t)
      PROVE  CountInv'
  <2>1. UNCHANGED <<CurrentBuffers, serial>>
    BY <1>4 DEF SpaceTest
  <2>2. \A u \in Threads \ {t} : pc'[u] = pc[u] /\ type'[u] = type[u]
    BY <1>4 DEF SpaceTest, Store, Continue, Goto, TypeInv
  <2>3. pc'[t] \in {"space", "take", "move", "verify"} =>
          type'[t] = type[t] /\ pc[t] = "space"
    BY <1>4 DEF SpaceTest, Store, Continue, Goto, TypeInv
  <2> QED
    BY <1>0, <2>1, <2>2, <2>3 DEF CountInv, BuffersFit
<1>5. ASSUME NEW t \in Threads, TakeAp(t) \/ MoveAp(t) \/ MoveCp(t) \/ TakeCp(t)
      PROVE  CountInv'
  <2>1. UNCHANGED <<CurrentBuffers, serial, type>>
    BY <1>5 DEF TakeAp, MoveAp, MoveCp, TakeCp
  <2>2. /\ pc[t] \in {"take", "move"}
        /\ \A u \in Threads \ {t} : pc'[u] = pc[u]
    BY <1>5 DEF TakeAp, MoveAp, MoveCp, TakeCp, Goto, TypeInv
  <2> QED
    BY <1>0, <2>1, <2>2 DEF CountInv, BuffersFit
\* Only here do the buffers grow, by what the test has allowed for.
<1>6. ASSUME NEW t \in Threads, Verify(t)
      PROVE  CountInv'
  <2>1. CASE Crossed \/ mine[t] = 0
    BY <1>0, <1>6, <2>1 DEF Verify, CountInv, BuffersFit, TypeInv, Store, Goto
  <2>2. CASE ~(Crossed \/ mine[t] = 0)
    <3>1. /\ UNCHANGED <<serial, type>>
          /\ \A u \in Threads \ {t} : pc'[u] = pc[u]
          /\ pc[t] = "verify" /\ pc'[t] = "first"
      BY <1>6, <2>2 DEF Verify, Continue, Goto, TypeInv
    <3>2. /\ CurrentBuffers'[CpuOf[t]] = CurrentBuffers[CpuOf[t]] + CountOf[type[t]]
          /\ \A c \in Cpus \ {CpuOf[t]} : CurrentBuffers'[c] = CurrentBuffers[c]
      BY <1>0, <1>6, <2>2 DEF Verify, TypeInv
    <3> QED
      BY <1>0, <3>1, <3>2 DEF CountInv, BuffersFit, Exclusive
  <2> QED
    BY <2>1, <2>2
<1>7. ASSUME NEW t \in Threads, ListStep(t)
      PROVE  CountInv'
  BY <1>0, <1>7, ListStepFrame DEF CountInv, BuffersFit, After
<1>8. ASSUME NEW t \in Threads, StoreHandle(t)
      PROVE  CountInv'
  BY <1>0, <1>8 DEF StoreHandle, CountInv, BuffersFit, TypeInv, Store, Goto
<1>9. CASE UNCHANGED vars
  BY <1>9 DEF vars, CountInv, BuffersFit
<1> QED
  BY <1>2, <1>3, <1>4, <1>5, <1>6, <1>7, <1>8, <1>9 DEF Next, ListStep

\* What both invariants start from.
LEMMA InitSerial == Init => Exclusive /\ CountInv
BY CreationAssumption DEF Init, Exclusive, CountInv, BuffersFit

(***************************************************************************)
(* The buffers of a CPU that creates its pools one at a time stay below    *)
(* IPC_SM_MAX_BUFFERS (IPC_SmPoolAlloc), the bound IpcFifo's proofs need.  *)
(***************************************************************************)
THEOREM BuffersBounded == Spec => []BuffersFit
<1> DEFINE Inv == TypeInv /\ ListType /\ Exclusive /\ CountInv
<1>1. Init => Inv
  BY InitType, InitSerial
<1>2. ASSUME Inv, [Next]_vars
      PROVE  Inv'
  BY <1>2, TypeStep, StepFrame, CountStep
<1>3. Inv => BuffersFit
  BY DEF CountInv
<1> QED
  BY <1>1, <1>2, <1>3, PTL DEF Spec
-----------------------------------------------------------------------------
(* Handles and pools.                                                      *)

\* The pool a thread has been given.
Given(t) == [at |-> mine[t], type |-> type[t], cpu |-> CpuOf[t]]

\* The handle of a type is null until its pool is complete; a pool has its
\* handle, or a thread that is about to store it; a handle has its pool.
CreateInv ==
  /\ \A t \in Threads : serial[CpuOf[t]] /\ pc[t] # "idle" => handle[CpuOf[t]][type[t]] = 0
  /\ \A t \in Threads : pc[t] \in After => mine[t] # 0 /\ Given(t) \in pools
  /\ \A p \in pools : serial[p.cpu] =>
       /\ p.at # 0
       /\ \/ handle[p.cpu][p.type] = p.at
          \/ \E t \in Threads : pc[t] \in After /\ Given(t) = p
  /\ \A c \in Cpus, i \in Types : serial[c] /\ handle[c][i] # 0 =>
       [at |-> handle[c][i], type |-> i, cpu |-> c] \in pools

\* A creation that fails stores the null that is in the handle already.
LEMMA FailKeepsCreateInv ==
  ASSUME TypeInv, Exclusive, CreateInv, NEW t \in Threads, pc[t] \in Before,
         Store(t, 0), UNCHANGED <<serial, pools>>
  PROVE  CreateInv'
<1>0. /\ \A u \in Threads : CpuOf[u] \in Cpus
      /\ type[t] \in Types
      /\ \A p \in pools : p.cpu \in Cpus /\ p.type \in Types
  BY CreationAssumption DEF TypeInv, Before
<1>1. \A c \in Cpus, i \in Types : serial[c] => handle'[c][i] = handle[c][i]
  BY <1>0 DEF Store, CreateInv, TypeInv, Before
<1>2. /\ \A u \in Threads \ {t} : pc'[u] = pc[u] /\ type'[u] = type[u] /\ mine'[u] = mine[u]
      /\ pc'[t] = "idle"
  BY DEF Store, Goto, TypeInv
<1>3. \A u \in Threads : pc'[u] \in After => u # t /\ Given(u)' = Given(u)
  BY <1>2 DEF After, Given
<1>4. \A u \in Threads : pc[u] \in After => pc'[u] \in After /\ Given(u)' = Given(u)
  BY <1>2 DEF After, Before, Given
<1>5. \A u \in Threads : serial[CpuOf[u]] /\ pc'[u] # "idle" => handle'[CpuOf[u]][type'[u]] = 0
  <2> SUFFICES ASSUME NEW u \in Threads, serial[CpuOf[u]], pc'[u] # "idle"
               PROVE  handle'[CpuOf[u]][type'[u]] = 0
    OBVIOUS
  <2>1. u # t /\ pc[u] # "idle" /\ type'[u] = type[u] /\ type[u] \in Types
    BY <1>2 DEF TypeInv
  <2> QED
    BY <1>0, <1>1, <2>1 DEF CreateInv
<1>6. \A p \in pools : serial[p.cpu] =>
        /\ p.at # 0
        /\ \/ handle'[p.cpu][p.type] = p.at
           \/ \E u \in Threads : pc'[u] \in After /\ Given(u)' = p
  <2> SUFFICES ASSUME NEW p \in pools, serial[p.cpu]
               PROVE  /\ p.at # 0
                      /\ \/ handle'[p.cpu][p.type] = p.at
                         \/ \E u \in Threads : pc'[u] \in After /\ Given(u)' = p
    OBVIOUS
  <2>1. handle'[p.cpu][p.type] = handle[p.cpu][p.type]
    BY <1>0, <1>1
  <2> QED
    BY <2>1, <1>4 DEF CreateInv
<1>7. \A u \in Threads : pc'[u] \in After => mine'[u] # 0 /\ Given(u)' \in pools
  BY <1>2, <1>3 DEF CreateInv
<1>8. \A c \in Cpus, i \in Types : serial[c] /\ handle'[c][i] # 0 =>
        [at |-> handle'[c][i], type |-> i, cpu |-> c] \in pools
  BY <1>1 DEF CreateInv
<1> QED
  BY <1>5, <1>6, <1>7, <1>8 DEF CreateInv

\* A step between two tests, or on the list, of a creation that goes on.
LEMMA GoOnKeepsCreateInv ==
  ASSUME TypeInv, Exclusive, CreateInv, NEW t \in Threads,
         \/ pc[t] \in Before /\ pc'[t] \in Before
         \/ pc[t] \in After /\ pc'[t] \in After /\ mine'[t] = mine[t],
         \A u \in Threads \ {t} : pc'[u] = pc[u] /\ mine'[u] = mine[u],
         UNCHANGED <<handle, type, serial, pools>>
  PROVE  CreateInv'
<1>1. \A u \in Threads : pc'[u] \in After <=> pc[u] \in After
  BY DEF Before, After
<1>2. \A u \in Threads : pc[u] \in After => mine'[u] = mine[u]
  BY DEF Before, After
<1>3. \A u \in Threads : pc'[u] # "idle" => pc[u] # "idle"
  BY DEF Before, After
<1>4. \A u \in Threads : pc[u] \in After => Given(u)' = Given(u)
  BY <1>2 DEF Given
<1>5. \A u \in Threads : serial[CpuOf[u]] /\ pc'[u] # "idle" => handle[CpuOf[u]][type[u]] = 0
  BY <1>3 DEF CreateInv
<1>6. \A u \in Threads : pc'[u] \in After => mine'[u] # 0 /\ Given(u)' \in pools
  BY <1>1, <1>2, <1>4 DEF CreateInv
<1>7. \A p \in pools : serial[p.cpu] =>
        /\ p.at # 0
        /\ \/ handle[p.cpu][p.type] = p.at
           \/ \E u \in Threads : pc'[u] \in After /\ Given(u)' = p
  BY <1>1, <1>4 DEF CreateInv
<1> QED
  BY <1>5, <1>6, <1>7 DEF CreateInv

LEMMA CreateStep ==
  ASSUME TypeInv, Exclusive, CreateInv, [Next]_vars
  PROVE  CreateInv'
<1> USE DEF ghosts, shared, list
<1>0. /\ \A t \in Threads : CpuOf[t] \in Cpus
      /\ \A t \in Threads : pc[t] # "idle" => type[t] \in Types
      /\ \A p \in pools : p.cpu \in Cpus /\ p.type \in Types /\ p.at \in Addresses
  BY CreationAssumption DEF TypeInv
<1>1. ASSUME NEW t \in Threads, NEW i \in Types, Begin(t, i)
      PROVE  CreateInv'
  <2>1. \A c \in Cpus : serial'[c] => serial[c]
    BY StepFrame
  <2>2. /\ UNCHANGED <<handle, mine, pools>>
        /\ handle[CpuOf[t]][i] = 0
        /\ \A u \in Threads \ {t} : pc'[u] = pc[u] /\ type'[u] = type[u]
        /\ pc[t] = "idle" /\ pc'[t] = "count" /\ type'[t] = i
    BY <1>1 DEF Begin, TypeInv, Goto
  <2>3. \A u \in Threads : (pc[u] \in After <=> pc'[u] \in After)
                             /\ (pc[u] \in After => Given(u)' = Given(u))
    BY <2>2 DEF After, Given
  <2>4. \A u \in Threads : serial'[CpuOf[u]] /\ pc'[u] # "idle"
                             => handle'[CpuOf[u]][type'[u]] = 0
    BY <1>0, <2>1, <2>2 DEF CreateInv
  <2>5. \A u \in Threads : pc'[u] \in After => mine'[u] # 0 /\ Given(u)' \in pools'
    BY <2>2, <2>3 DEF CreateInv
  <2>6. \A p \in pools : serial'[p.cpu] =>
          /\ p.at # 0
          /\ \/ handle[p.cpu][p.type] = p.at
             \/ \E u \in Threads : pc'[u] \in After /\ Given(u)' = p
    BY <1>0, <2>1, <2>3 DEF CreateInv
  <2>7. \A c \in Cpus, j \in Types : serial'[c] /\ handle[c][j] # 0 =>
          [at |-> handle[c][j], type |-> j, cpu |-> c] \in pools
    BY <2>1 DEF CreateInv
  <2> QED
    BY <2>2, <2>4, <2>5, <2>6, <2>7 DEF CreateInv
<1>2. ASSUME NEW t \in Threads, CountTest(t) \/ SpaceTest(t)
      PROVE  CreateInv'
  <2>1. pc[t] \in Before /\ UNCHANGED <<serial, pools>>
    BY <1>2 DEF CountTest, SpaceTest, Before
  <2>2. CASE Store(t, 0)
    BY <2>1, <2>2, FailKeepsCreateInv
  <2>3. CASE \E s \in Before : Continue(t, s)
    <3>1. /\ pc'[t] \in Before
          /\ \A u \in Threads \ {t} : pc'[u] = pc[u] /\ mine'[u] = mine[u]
          /\ UNCHANGED <<handle, type>>
      BY <2>3 DEF Continue, Goto, TypeInv
    <3> QED
      BY <2>1, <3>1, GoOnKeepsCreateInv
  <2> QED
    BY <1>2, <2>2, <2>3 DEF CountTest, SpaceTest, Before
<1>3. ASSUME NEW t \in Threads, TakeAp(t) \/ MoveAp(t) \/ MoveCp(t) \/ TakeCp(t)
      PROVE  CreateInv'
  <2>1. /\ pc[t] \in Before /\ pc'[t] \in Before
        /\ \A u \in Threads \ {t} : pc'[u] = pc[u] /\ mine'[u] = mine[u]
        /\ UNCHANGED <<handle, type, serial, pools>>
    BY <1>3 DEF TakeAp, MoveAp, MoveCp, TakeCp, Goto, TypeInv, Before
  <2> QED
    BY <2>1, GoOnKeepsCreateInv
\* The pool is there, and its thread with it.
<1>4. ASSUME NEW t \in Threads, Verify(t)
      PROVE  CreateInv'
  <2>1. CASE Crossed \/ mine[t] = 0
    <3>1. pc[t] \in Before /\ Store(t, 0) /\ UNCHANGED <<serial, pools>>
      BY <1>4, <2>1 DEF Verify, Before
    <3> QED
      BY <3>1, FailKeepsCreateInv
  <2>2. CASE ~(Crossed \/ mine[t] = 0)
    <3>1. /\ UNCHANGED <<handle, type, mine, serial>>
          /\ \A u \in Threads \ {t} : pc'[u] = pc[u]
          /\ pc[t] = "verify" /\ pc'[t] = "first" /\ mine[t] # 0
          /\ pools' = pools \cup {Given(t)}
      BY <1>4, <2>2 DEF Verify, Continue, Goto, TypeInv, Given
    <3>2. \A u \in Threads : Given(u)' = Given(u)
      BY <3>1 DEF Given
    <3>3. \A u \in Threads : pc'[u] \in After <=> pc[u] \in After \/ u = t
      BY <3>1 DEF After
    <3>4. Given(t).at = mine[t]
      BY DEF Given
    <3>5. \A p \in pools' : serial[p.cpu] =>
            /\ p.at # 0
            /\ \/ handle[p.cpu][p.type] = p.at
               \/ \E u \in Threads : pc'[u] \in After /\ Given(u) = p
      BY <3>1, <3>3, <3>4 DEF CreateInv
    <3>6. \A u \in Threads : pc'[u] \in After => mine[u] # 0 /\ Given(u) \in pools'
      BY <3>1, <3>3 DEF CreateInv
    <3>7. \A u \in Threads : serial[CpuOf[u]] /\ pc'[u] # "idle" =>
                               handle[CpuOf[u]][type[u]] = 0
      BY <3>1 DEF CreateInv
    <3>8. \A c \in Cpus, i \in Types : serial[c] /\ handle[c][i] # 0 =>
            [at |-> handle[c][i], type |-> i, cpu |-> c] \in pools'
      BY <3>1 DEF CreateInv
    <3> QED
      BY <3>1, <3>2, <3>5, <3>6, <3>7, <3>8 DEF CreateInv
  <2> QED
    BY <2>1, <2>2
<1>5. ASSUME NEW t \in Threads, ListStep(t)
      PROVE  CreateInv'
  BY <1>5, ListStepFrame, GoOnKeepsCreateInv
\* The handle was null, so its type has no pool but this one.
<1>6. ASSUME NEW t \in Threads, StoreHandle(t)
      PROVE  CreateInv'
  <2> DEFINE c == CpuOf[t]
             i == type[t]
  <2>1. /\ UNCHANGED <<serial, pools>>
        /\ \A u \in Threads \ {t} : pc'[u] = pc[u] /\ type'[u] = type[u] /\ mine'[u] = mine[u]
        /\ pc[t] = "store" /\ pc'[t] = "idle"
    BY <1>6 DEF StoreHandle, Store, Goto, TypeInv
  <2>2. c \in Cpus /\ i \in Types /\ pc[t] \in After
    BY <1>0, <2>1 DEF After
  <2>3. /\ handle'[c][i] = mine[t]
        /\ \A d \in Cpus, j \in Types : d # c \/ j # i => handle'[d][j] = handle[d][j]
    BY <1>6, <2>2 DEF StoreHandle, Store, TypeInv
  <2>4. \A u \in Threads : pc'[u] \in After <=> pc[u] \in After /\ u # t
    BY <2>1 DEF After
  <2>5. \A u \in Threads : pc'[u] \in After => Given(u)' = Given(u)
    BY <2>1, <2>4 DEF Given
  <2>6. \A u \in Threads : serial[CpuOf[u]] /\ pc'[u] # "idle" =>
                             handle'[CpuOf[u]][type'[u]] = 0
    <3> SUFFICES ASSUME NEW u \in Threads, serial[CpuOf[u]], pc'[u] # "idle"
                 PROVE  handle'[CpuOf[u]][type'[u]] = 0
      OBVIOUS
    <3>1. u # t /\ pc[u] # "idle" /\ type'[u] = type[u] /\ pc[t] # "idle"
      BY <2>1
    <3>2. CpuOf[u] # c
      BY <3>1 DEF Exclusive
    <3> QED
      BY <1>0, <2>3, <3>1, <3>2 DEF CreateInv
  <2>7. \A u \in Threads : pc'[u] \in After => mine'[u] # 0 /\ Given(u)' \in pools
    BY <2>1, <2>4, <2>5 DEF CreateInv
  <2>8. \A p \in pools : serial[p.cpu] =>
          /\ p.at # 0
          /\ \/ handle'[p.cpu][p.type] = p.at
             \/ \E u \in Threads : pc'[u] \in After /\ Given(u)' = p
    <3> SUFFICES ASSUME NEW p \in pools, serial[p.cpu]
                 PROVE  /\ p.at # 0
                        /\ \/ handle'[p.cpu][p.type] = p.at
                           \/ \E u \in Threads : pc'[u] \in After /\ Given(u)' = p
      OBVIOUS
    <3>1. p.at # 0
      BY DEF CreateInv
    <3>2. CASE p.cpu = c /\ p.type = i
      <4>1. handle[p.cpu][p.type] = 0
        BY <3>2, <2>1 DEF CreateInv
      <4>2. PICK u \in Threads : pc[u] \in After /\ Given(u) = p
        BY <3>1, <4>1 DEF CreateInv
      <4>3. CpuOf[u] = p.cpu /\ mine[u] = p.at
        BY <4>2 DEF Given
      <4>4. u = t
        BY <3>2, <4>2, <4>3, <2>1 DEF Exclusive, After
      <4> QED
        BY <2>3, <3>1, <3>2, <4>3, <4>4
    <3>3. CASE ~(p.cpu = c /\ p.type = i)
      <4>1. handle'[p.cpu][p.type] = handle[p.cpu][p.type]
        BY <1>0, <2>3, <3>3
      <4>2. Given(t) # p
        BY <3>3 DEF Given
      <4> QED
        BY <3>1, <4>1, <4>2, <2>4, <2>5 DEF CreateInv
    <3> QED
      BY <3>2, <3>3
  <2>9. \A d \in Cpus, j \in Types : serial[d] /\ handle'[d][j] # 0 =>
          [at |-> handle'[d][j], type |-> j, cpu |-> d] \in pools
    <3> SUFFICES ASSUME NEW d \in Cpus, NEW j \in Types, serial[d], handle'[d][j] # 0
                 PROVE  [at |-> handle'[d][j], type |-> j, cpu |-> d] \in pools
      OBVIOUS
    <3>1. CASE d = c /\ j = i
      BY <2>2, <2>3, <3>1 DEF CreateInv, Given
    <3>2. CASE ~(d = c /\ j = i)
      BY <2>3, <3>2 DEF CreateInv
    <3> QED
      BY <3>1, <3>2
  <2> QED
    BY <2>1, <2>6, <2>7, <2>8, <2>9 DEF CreateInv
<1>7. CASE UNCHANGED vars
  BY <1>7 DEF vars, CreateInv, Given
<1> QED
  BY <1>1, <1>2, <1>3, <1>4, <1>5, <1>6, <1>7 DEF Next, ListStep

LEMMA InitCreate == Init => CreateInv
BY CreationAssumption DEF Init, CreateInv, After

-----------------------------------------------------------------------------
(* Memory.                                                                 *)

\* The marks stay in the shared memory until they are moved once too often.
Marks ==
  /\ Base <= Allocated["AP"] /\ Allocated["AP"] <= Area
  /\ Base <= Allocated["CP"] /\ Allocated["CP"] <= Area

\* The pools of the AP lie below its mark, those of the CP above theirs.
Below == \A p \in pools : p.cpu = "AP" => Base <= p.at /\ EndOf(p) <= Allocated["AP"]
Above == \A p \in pools : p.cpu = "CP" => Allocated["CP"] <= p.at /\ EndOf(p) <= Area

Apart(p, q) == EndOf(p) <= q.at \/ EndOf(q) <= p.at

AllApart == \A p, q \in pools : p # q => Apart(p, q)

\* The piece a thread of the AP is about to take, and has taken.
ApPlace(t) ==
  /\ pc[t] \in {"take", "move"} => Crossed \/ Allocated["AP"] + SizeOf[type[t]] <= Area
  /\ pc[t] = "move" => mine[t] = Allocated["AP"]
  /\ pc[t] = "verify" =>
       /\ Base <= mine[t] /\ mine[t] + SizeOf[type[t]] = Allocated["AP"]
       /\ \A p \in pools : p.cpu = "AP" => EndOf(p) <= mine[t]

\* The same for the CP, which moves its mark first.
CpPlace(t) ==
  /\ pc[t] = "take" => Crossed \/ Base <= Allocated["CP"] - SizeOf[type[t]]
  /\ pc[t] \in {"move", "verify"} =>
       /\ Allocated["CP"] + SizeOf[type[t]] <= Area
       /\ \A p \in pools : p.cpu = "CP" => Allocated["CP"] + SizeOf[type[t]] <= p.at
  /\ pc[t] = "verify" => mine[t] = Allocated["CP"]

Places ==
  \A t \in Threads : (CpuOf[t] = "AP" => ApPlace(t)) /\ (CpuOf[t] = "CP" => CpPlace(t))

MemoryInv == AllSerial /\ ~overrun => Marks /\ Below /\ Above /\ AllApart /\ Places

\* Numbers are numbers.
LEMMA MemoryTypes ==
  ASSUME TypeInv
  PROVE  /\ Allocated["AP"] \in Nat /\ Allocated["CP"] \in Nat
         /\ Allocated["AP"] < WORD /\ Allocated["CP"] < WORD
         /\ Base \in Nat /\ Area \in Nat /\ WORD \in Nat /\ Base > 0 /\ Area < WORD
         /\ \A t \in Threads : CpuOf[t] \in Cpus /\ mine[t] \in Nat
         /\ \A t \in Threads : pc[t] # "idle" =>
              /\ type[t] \in Types /\ SizeOf[type[t]] \in Nat
              /\ 0 < SizeOf[type[t]] /\ SizeOf[type[t]] < WORD
         /\ \A p \in pools : p.at \in Nat /\ EndOf(p) \in Nat /\ p.at < EndOf(p)
                               /\ p.cpu \in Cpus
<1>1. "AP" \in Cpus /\ "CP" \in Cpus
  BY DEF Cpus
<1>2. \A a \in Addresses : a \in Nat /\ a < WORD
  BY CreationAssumption DEF Addresses
<1>3. \A i \in Types : SizeOf[i] \in Nat /\ 0 < SizeOf[i] /\ SizeOf[i] < WORD
  BY CreationAssumption
<1>4. \A p \in pools : p.at \in Addresses /\ p.type \in Types /\ p.cpu \in Cpus
  BY DEF TypeInv
<1>5. \A p \in pools : p.at \in Nat /\ EndOf(p) \in Nat /\ p.at < EndOf(p)
  BY <1>2, <1>3, <1>4 DEF EndOf
<1> QED
  BY <1>1, <1>2, <1>3, <1>4, <1>5, CreationAssumption DEF TypeInv

\* Steps that leave marks and pools alone, and begin no new piece.
LEMMA QuietKeepsMemory ==
  ASSUME TypeInv, MemoryInv, NEW t \in Threads,
         pc'[t] \notin {"take", "move", "verify"},
         \A c \in Cpus : serial'[c] => serial[c],
         \A u \in Threads \ {t} : pc'[u] = pc[u] /\ type'[u] = type[u] /\ mine'[u] = mine[u],
         UNCHANGED <<Allocated, pools, overrun>>
  PROVE  MemoryInv'
<1> SUFFICES ASSUME AllSerial', ~overrun
             PROVE  (Marks /\ Below /\ Above /\ AllApart /\ Places)'
  BY DEF MemoryInv
<1>1. Marks /\ Below /\ Above /\ AllApart /\ Places
  BY DEF MemoryInv, AllSerial
<1>2. (Marks /\ Below /\ Above /\ AllApart)'
  BY <1>1 DEF Marks, Below, Above, AllApart, Apart, EndOf
<1>3. \A u \in Threads : (CpuOf[u] = "AP" => ApPlace(u)') /\ (CpuOf[u] = "CP" => CpPlace(u)')
  <2> SUFFICES ASSUME NEW u \in Threads
               PROVE  (CpuOf[u] = "AP" => ApPlace(u)') /\ (CpuOf[u] = "CP" => CpPlace(u)')
    OBVIOUS
  <2>1. CASE u = t
    BY <2>1 DEF ApPlace, CpPlace
  <2>2. CASE u # t
    BY <1>1, <2>2 DEF Places, ApPlace, CpPlace, Crossed, EndOf
  <2> QED
    BY <2>1, <2>2
<1> QED
  BY <1>2, <1>3 DEF Places

\* The others of a CPU that is creating are idle, and Places says nothing of them.
LEMMA OthersIdle ==
  ASSUME TypeInv, Exclusive, AllSerial, NEW t \in Threads, pc[t] # "idle"
  PROVE  \A u \in Threads \ {t} : CpuOf[u] = CpuOf[t] => pc[u] = "idle"
BY CreationAssumption DEF Exclusive, AllSerial

\* The difference of the marks is the space between them until they cross.
LEMMA SpaceKeepsMemory ==
  ASSUME TypeInv, Exclusive, MemoryInv, NEW t \in Threads, SpaceTest(t)
  PROVE  MemoryInv'
<1> USE DEF ghosts, shared, list
<1>1. /\ UNCHANGED <<Allocated, pools, overrun, serial>>
      /\ \A u \in Threads \ {t} : pc'[u] = pc[u] /\ type'[u] = type[u] /\ mine'[u] = mine[u]
      /\ pc[t] = "space"
  BY DEF SpaceTest, Store, Continue, Goto, TypeInv
<1>2. CASE pc'[t] \notin {"take", "move", "verify"}
  BY <1>1, <1>2, QuietKeepsMemory
<1>3. CASE pc'[t] \in {"take", "move", "verify"}
  <2>1. /\ pc'[t] = "take" /\ UNCHANGED <<type, mine>>
        /\ (Allocated["CP"] - Allocated["AP"]) % WORD >= SizeOf[type[t]]
    <3>1. ~Store(t, 0)
      BY <1>3 DEF Store, Goto, TypeInv
    <3>2. /\ ~((Allocated["CP"] - Allocated["AP"]) % WORD < SizeOf[type[t]])
          /\ Continue(t, "take")
      BY <3>1 DEF SpaceTest
    <3>3. (Allocated["CP"] - Allocated["AP"]) % WORD \in Int /\ SizeOf[type[t]] \in Int
      BY <1>1, MemoryTypes
    <3>4. pc'[t] = "take" /\ UNCHANGED <<type, mine>>
      BY <3>2 DEF Continue, Goto, TypeInv
    <3> QED
      BY <3>2, <3>3, <3>4
  <2> SUFFICES ASSUME AllSerial, ~overrun
               PROVE  (Marks /\ Below /\ Above /\ AllApart /\ Places)'
    BY <1>1 DEF MemoryInv, AllSerial
  <2>2. Marks /\ Below /\ Above /\ AllApart /\ Places
    BY DEF MemoryInv
  <2>3. (Marks /\ Below /\ Above /\ AllApart)'
    BY <1>1, <2>2 DEF Marks, Below, Above, AllApart, Apart, EndOf
  <2>4. Crossed \/ (/\ Allocated["AP"] + SizeOf[type[t]] <= Area
                    /\ Base <= Allocated["CP"] - SizeOf[type[t]])
    <3> SUFFICES ASSUME ~Crossed
                 PROVE  /\ Allocated["AP"] + SizeOf[type[t]] <= Area
                        /\ Base <= Allocated["CP"] - SizeOf[type[t]]
      OBVIOUS
    <3>1. Allocated["CP"] - Allocated["AP"] \in Addresses
      BY MemoryTypes DEF Crossed, Addresses
    <3>2. (Allocated["CP"] - Allocated["AP"]) % WORD = Allocated["CP"] - Allocated["AP"]
      BY <3>1, ModIsWord, MemoryTypes
    <3>3. Allocated["CP"] - Allocated["AP"] >= SizeOf[type[t]]
      BY <2>1, <3>2
    <3>4. SizeOf[type[t]] \in Nat
      BY <1>1, MemoryTypes
    <3> QED
      BY <2>2, <3>3, <3>4, MemoryTypes DEF Marks
  <2>5. \A u \in Threads : (CpuOf[u] = "AP" => ApPlace(u)') /\ (CpuOf[u] = "CP" => CpPlace(u)')
    <3> SUFFICES ASSUME NEW u \in Threads
                 PROVE  (CpuOf[u] = "AP" => ApPlace(u)') /\ (CpuOf[u] = "CP" => CpPlace(u)')
      OBVIOUS
    <3>1. CASE u = t
      BY <1>1, <2>1, <2>4, <3>1 DEF ApPlace, CpPlace, Crossed
    <3>2. CASE u # t
      BY <1>1, <2>2, <3>2 DEF Places, ApPlace, CpPlace, Crossed, EndOf
    <3> QED
      BY <3>1, <3>2
  <2> QED
    BY <2>3, <2>5 DEF Places
<1> QED
  BY <1>2, <1>3

\* The mark is where the pools of the AP end.
LEMMA TakeKeepsMemory ==
  ASSUME TypeInv, Exclusive, MemoryInv, NEW t \in Threads, TakeAp(t) \/ TakeCp(t)
  PROVE  MemoryInv'
<1> USE DEF ghosts, shared, list
<1>1. /\ UNCHANGED <<Allocated, pools, overrun, serial, type>>
      /\ \A u \in Threads \ {t} : pc'[u] = pc[u] /\ mine'[u] = mine[u]
  BY DEF TakeAp, TakeCp, Goto, TypeInv
<1>2. \/ CpuOf[t] = "AP" /\ pc[t] = "take" /\ pc'[t] = "move" /\ mine'[t] = Allocated["AP"]
      \/ CpuOf[t] = "CP" /\ pc[t] = "move" /\ pc'[t] = "verify" /\ mine'[t] = Allocated["CP"]
  BY DEF TakeAp, TakeCp, Goto, TypeInv
<1> SUFFICES ASSUME AllSerial, ~overrun
             PROVE  (Marks /\ Below /\ Above /\ AllApart /\ Places)'
  BY <1>1 DEF MemoryInv, AllSerial
<1>3. Marks /\ Below /\ Above /\ AllApart /\ Places
  BY DEF MemoryInv
<1>4. (Marks /\ Below /\ Above /\ AllApart)'
  BY <1>1, <1>3 DEF Marks, Below, Above, AllApart, Apart, EndOf
<1>5. \A u \in Threads : (CpuOf[u] = "AP" => ApPlace(u)') /\ (CpuOf[u] = "CP" => CpPlace(u)')
  <2> SUFFICES ASSUME NEW u \in Threads
               PROVE  (CpuOf[u] = "AP" => ApPlace(u)') /\ (CpuOf[u] = "CP" => CpPlace(u)')
    OBVIOUS
  <2>1. CASE u = t /\ CpuOf[t] = "AP"
    BY <1>1, <1>2, <1>3, <2>1 DEF Places, ApPlace, Crossed
  <2>2. CASE u = t /\ CpuOf[t] = "CP"
    BY <1>1, <1>2, <1>3, <2>2 DEF Places, CpPlace, Crossed
  <2>3. CASE u # t
    BY <1>1, <1>3, <2>3 DEF Places, ApPlace, CpPlace, Crossed, EndOf
  <2> QED
    BY <1>2, <2>1, <2>2, <2>3
<1> QED
  BY <1>4, <1>5 DEF Places

\* While the marks have not crossed, the AP's mark moves up without wrapping.
LEMMA MoveApKeepsMemory ==
  ASSUME TypeInv, Exclusive, MemoryInv, NEW t \in Threads, MoveAp(t)
  PROVE  MemoryInv'
<1> DEFINE size == SizeOf[type[t]]
<1>1. /\ UNCHANGED <<pools, serial, type, mine>>
      /\ \A u \in Threads \ {t} : pc'[u] = pc[u]
      /\ pc[t] = "move" /\ pc'[t] = "verify" /\ CpuOf[t] = "AP"
      /\ Allocated'["AP"] = (Allocated["AP"] + size) % WORD
      /\ Allocated'["CP"] = Allocated["CP"]
      /\ overrun' = (overrun \/ Crossed)
  BY DEF MoveAp, Goto, TypeInv, Cpus
<1> SUFFICES ASSUME AllSerial, ~overrun, ~Crossed
             PROVE  (Marks /\ Below /\ Above /\ AllApart /\ Places)'
  BY <1>1 DEF MemoryInv, AllSerial
<1>2. Marks /\ Below /\ Above /\ AllApart /\ Places
  BY DEF MemoryInv
<1>3. size \in Nat /\ Allocated["AP"] + size <= Area /\ mine[t] = Allocated["AP"]
  BY <1>1, <1>2, MemoryTypes DEF Places, ApPlace
<1>4. Allocated'["AP"] = Allocated["AP"] + size
  <2>1. Allocated["AP"] + size \in Addresses
    BY <1>3, MemoryTypes DEF Addresses
  <2> QED
    BY <1>1, <2>1, ModIsWord, MemoryTypes
<1>5. Marks'
  BY <1>1, <1>2, <1>3, <1>4, MemoryTypes DEF Marks
<1>6. Below'
  BY <1>1, <1>2, <1>3, <1>4, MemoryTypes DEF Below, EndOf
<1>7. Above' /\ AllApart'
  BY <1>1, <1>2 DEF Above, AllApart, Apart, EndOf
<1>8. ApPlace(t)'
  <2>1. Base <= mine'[t] /\ mine'[t] + SizeOf[type'[t]] = Allocated'["AP"]
    BY <1>1, <1>2, <1>3, <1>4 DEF Marks
  <2>2. \A p \in pools' : p.cpu = "AP" => EndOf(p) <= mine'[t]
    BY <1>1, <1>2, <1>3 DEF Below
  <2> QED
    BY <1>1, <2>1, <2>2 DEF ApPlace, EndOf
<1>9. \A u \in Threads \ {t} : CpuOf[u] = "AP" => ApPlace(u)'
  BY <1>1, OthersIdle DEF ApPlace
<1>10. \A u \in Threads : CpuOf[u] = "CP" => CpPlace(u)'
  <2> SUFFICES ASSUME NEW u \in Threads, CpuOf[u] = "CP"
               PROVE  CpPlace(u)'
    OBVIOUS
  <2>1. u # t /\ CpPlace(u)
    BY <1>1, <1>2 DEF Places
  <2> QED
    BY <1>1, <2>1 DEF CpPlace
<1> QED
  BY <1>5, <1>6, <1>7, <1>8, <1>9, <1>10, <1>1 DEF Places

\* And the CP's mark moves down.
LEMMA MoveCpKeepsMemory ==
  ASSUME TypeInv, Exclusive, MemoryInv, NEW t \in Threads, MoveCp(t)
  PROVE  MemoryInv'
<1> DEFINE size == SizeOf[type[t]]
<1>1. /\ UNCHANGED <<pools, serial, type, mine>>
      /\ \A u \in Threads \ {t} : pc'[u] = pc[u]
      /\ pc[t] = "take" /\ pc'[t] = "move" /\ CpuOf[t] = "CP"
      /\ Allocated'["CP"] = (Allocated["CP"] - size) % WORD
      /\ Allocated'["AP"] = Allocated["AP"]
      /\ overrun' = (overrun \/ Crossed)
  BY DEF MoveCp, Goto, TypeInv, Cpus
<1> SUFFICES ASSUME AllSerial, ~overrun, ~Crossed
             PROVE  (Marks /\ Below /\ Above /\ AllApart /\ Places)'
  BY <1>1 DEF MemoryInv, AllSerial
<1>2. Marks /\ Below /\ Above /\ AllApart /\ Places
  BY DEF MemoryInv
<1>3. size \in Nat /\ Base <= Allocated["CP"] - size
  BY <1>1, <1>2, MemoryTypes DEF Places, CpPlace
<1>4. Allocated'["CP"] = Allocated["CP"] - size
  <2>1. Allocated["CP"] - size \in Addresses
    BY <1>3, MemoryTypes DEF Addresses
  <2> QED
    BY <1>1, <2>1, ModIsWord, MemoryTypes
<1>5. Marks'
  BY <1>1, <1>2, <1>3, <1>4, MemoryTypes DEF Marks
<1>6. Above'
  BY <1>1, <1>2, <1>3, <1>4, MemoryTypes DEF Above, EndOf
<1>7. Below' /\ AllApart'
  BY <1>1, <1>2 DEF Below, AllApart, Apart, EndOf
<1>8. CpPlace(t)'
  <2>1. Allocated'["CP"] + SizeOf[type'[t]] <= Area
    BY <1>1, <1>2, <1>3, <1>4, MemoryTypes DEF Marks
  <2>2. \A p \in pools' : p.cpu = "CP" => Allocated'["CP"] + SizeOf[type'[t]] <= p.at
    BY <1>1, <1>2, <1>3, <1>4, MemoryTypes DEF Above
  <2> QED
    BY <1>1, <2>1, <2>2 DEF CpPlace
<1>9. \A u \in Threads \ {t} : CpuOf[u] = "CP" => CpPlace(u)'
  BY <1>1, OthersIdle DEF CpPlace
<1>10. \A u \in Threads : CpuOf[u] = "AP" => ApPlace(u)'
  <2> SUFFICES ASSUME NEW u \in Threads, CpuOf[u] = "AP"
               PROVE  ApPlace(u)'
    OBVIOUS
  <2>1. u # t /\ ApPlace(u)
    BY <1>1, <1>2 DEF Places
  <2> QED
    BY <1>1, <2>1 DEF ApPlace, EndOf
<1> QED
  BY <1>5, <1>6, <1>7, <1>8, <1>9, <1>10, <1>1 DEF Places

\* The pool lies between the marks' old and new places; if they have not
\* crossed, it meets no pool of the other CPU.
LEMMA VerifyKeepsMemory ==
  ASSUME TypeInv, Exclusive, MemoryInv, NEW t \in Threads, Verify(t)
  PROVE  MemoryInv'
<1> USE DEF ghosts, shared, list
<1> DEFINE size == SizeOf[type[t]]
<1>1. /\ UNCHANGED <<Allocated, overrun, serial>>
      /\ \A u \in Threads \ {t} : pc'[u] = pc[u] /\ type'[u] = type[u] /\ mine'[u] = mine[u]
      /\ pc[t] = "verify" /\ pc'[t] \notin {"take", "move", "verify"}
  BY DEF Verify, Store, Continue, Goto, TypeInv
<1>2. CASE Crossed \/ mine[t] = 0
  <2>1. UNCHANGED pools
    BY <1>2 DEF Verify
  <2> QED
    BY <1>1, <2>1, QuietKeepsMemory
<1>3. CASE ~(Crossed \/ mine[t] = 0)
  <2>1. pools' = pools \cup {Given(t)}
    BY <1>3 DEF Verify, Given
  <2>2. Given(t).at = mine[t] /\ Given(t).cpu = CpuOf[t] /\ EndOf(Given(t)) = mine[t] + size
    BY DEF Given, EndOf
  <2> HIDE DEF size
  <2>3. size \in Nat /\ mine[t] \in Nat /\ CpuOf[t] \in Cpus
    BY <1>1, MemoryTypes DEF size
  <2>4. Allocated["AP"] <= Allocated["CP"]
    BY <1>3, MemoryTypes DEF Crossed
  <2> SUFFICES ASSUME AllSerial, ~overrun
               PROVE  (Marks /\ Below /\ Above /\ AllApart /\ Places)'
    BY <1>1 DEF MemoryInv, AllSerial
  <2>5. Marks /\ Below /\ Above /\ AllApart /\ Places
    BY DEF MemoryInv
  <2>6. CASE CpuOf[t] = "AP"
    <3>1. /\ Base <= mine[t] /\ mine[t] + size = Allocated["AP"]
          /\ \A p \in pools : p.cpu = "AP" => EndOf(p) <= mine[t]
      BY <1>1, <2>5, <2>6 DEF Places, ApPlace, size
    <3>2. (Marks /\ Above)'
      BY <1>1, <2>1, <2>2, <2>5, <2>6 DEF Marks, Above, EndOf
    <3>3. Below'
      BY <1>1, <2>1, <2>2, <2>3, <2>5, <3>1, MemoryTypes DEF Below
    <3>4. \A p \in pools : Apart(p, Given(t))
      BY <2>2, <2>3, <2>4, <2>5, <3>1, MemoryTypes DEF Above, Apart, Cpus
    <3>5. AllApart'
      BY <2>1, <2>5, <3>4 DEF AllApart, Apart
    <3>6. \A u \in Threads \ {t} : CpuOf[u] = "AP" => ApPlace(u)'
      BY <1>1, <2>6, OthersIdle DEF ApPlace
    <3>7. \A u \in Threads \ {t} : CpuOf[u] = "CP" => CpPlace(u)'
      BY <1>1, <2>1, <2>2, <2>5, <2>6 DEF Places, CpPlace, Crossed
    <3> QED
      BY <1>1, <2>6, <3>2, <3>3, <3>5, <3>6, <3>7 DEF Places, ApPlace
  <2>7. CASE CpuOf[t] = "CP"
    <3>1. /\ mine[t] = Allocated["CP"] /\ mine[t] + size <= Area
          /\ \A p \in pools : p.cpu = "CP" => mine[t] + size <= p.at
      BY <1>1, <2>5, <2>7 DEF Places, CpPlace, size
    <3>2. (Marks /\ Below)'
      BY <1>1, <2>1, <2>2, <2>5, <2>7 DEF Marks, Below, EndOf
    <3>3. Above'
      BY <1>1, <2>1, <2>2, <2>3, <2>5, <3>1, MemoryTypes DEF Above
    <3>4. \A p \in pools : Apart(p, Given(t))
      BY <2>2, <2>3, <2>4, <2>5, <3>1, MemoryTypes DEF Below, Apart, Cpus
    <3>5. AllApart'
      BY <2>1, <2>5, <3>4 DEF AllApart, Apart
    <3>6. \A u \in Threads \ {t} : CpuOf[u] = "CP" => CpPlace(u)'
      BY <1>1, <2>7, OthersIdle DEF CpPlace
    <3>7. \A u \in Threads \ {t} : CpuOf[u] = "AP" => ApPlace(u)'
      BY <1>1, <2>1, <2>2, <2>5, <2>7 DEF Places, ApPlace, Crossed
    <3> QED
      BY <1>1, <2>7, <3>2, <3>3, <3>5, <3>6, <3>7 DEF Places, CpPlace
  <2> QED
    BY <2>3, <2>6, <2>7 DEF Cpus
<1> QED
  BY <1>2, <1>3

LEMMA MemoryStep ==
  ASSUME TypeInv, Exclusive, MemoryInv, [Next]_vars
  PROVE  MemoryInv'
<1> USE DEF ghosts, shared, list
<1>1. ASSUME NEW t \in Threads, NEW i \in Types, Begin(t, i)
      PROVE  MemoryInv'
  <2>1. \A c \in Cpus : serial'[c] => serial[c]
    BY StepFrame
  <2>2. /\ UNCHANGED <<Allocated, pools, overrun>>
        /\ \A u \in Threads \ {t} : pc'[u] = pc[u] /\ type'[u] = type[u] /\ mine'[u] = mine[u]
        /\ pc'[t] = "count"
    BY <1>1 DEF Begin, Goto, TypeInv
  <2> QED
    BY <2>1, <2>2, QuietKeepsMemory
<1>2. ASSUME NEW t \in Threads, CountTest(t) \/ ListStep(t) \/ StoreHandle(t)
      PROVE  MemoryInv'
  <2>1. /\ UNCHANGED <<Allocated, pools, overrun, serial>>
        /\ \A u \in Threads \ {t} : pc'[u] = pc[u] /\ type'[u] = type[u] /\ mine'[u] = mine[u]
        /\ pc'[t] \notin {"take", "move", "verify"}
    <3>1. CASE CountTest(t) \/ StoreHandle(t)
      BY <3>1 DEF CountTest, StoreHandle, Store, Continue, Goto, TypeInv
    <3>2. CASE ListStep(t)
      BY <3>2, ListStepFrame DEF After
    <3> QED
      BY <1>2, <3>1, <3>2
  <2> QED
    BY <2>1, QuietKeepsMemory
<1>3. CASE UNCHANGED vars
  BY <1>3 DEF vars, MemoryInv, AllSerial, Marks, Below, Above, AllApart, Apart, EndOf,
              Places, ApPlace, CpPlace, Crossed
<1> QED
  BY <1>1, <1>2, <1>3, SpaceKeepsMemory, TakeKeepsMemory, MoveApKeepsMemory,
     MoveCpKeepsMemory, VerifyKeepsMemory DEF Next, ListStep

LEMMA InitMemory == Init => MemoryInv
<1> SUFFICES ASSUME Init PROVE Marks /\ Below /\ Above /\ AllApart /\ Places
  BY DEF MemoryInv
<1>1. Marks
  BY CreationAssumption DEF Init, Marks, Cpus
<1> QED
  BY <1>1 DEF Init, Below, Above, AllApart, Places, ApPlace, CpPlace

(***************************************************************************)
(* Pools do not overlap although IPC_SmAlloc excludes nobody: the second   *)
(* test, after the mark was moved, is enough between the CPUs.  Only       *)
(* threads of one CPU have to be kept apart, and memory must not be asked  *)
(* for again once the marks have crossed.                                  *)
(***************************************************************************)
THEOREM PoolsDoNotOverlap == Spec => []PoolsDisjoint
<1> DEFINE Inv == TypeInv /\ ListType /\ Exclusive /\ MemoryInv
<1>1. Init => Inv
  BY InitType, InitSerial, InitMemory
<1>2. ASSUME Inv, [Next]_vars
      PROVE  Inv'
  BY <1>2, TypeStep, StepFrame, MemoryStep
<1>3. ASSUME Inv
      PROVE  PoolsDisjoint
  <2> SUFFICES ASSUME AllSerial, ~overrun
               PROVE  /\ \A p \in pools : Base <= p.at /\ EndOf(p) <= Area
                      /\ \A p, q \in pools : p # q => EndOf(p) <= q.at \/ EndOf(q) <= p.at
    BY DEF PoolsDisjoint
  <2>1. Marks /\ Below /\ Above /\ AllApart
    BY <1>3 DEF MemoryInv
  <2>2. \A p \in pools : Base <= p.at /\ EndOf(p) <= Area
    BY <1>3, <2>1, MemoryTypes DEF Marks, Below, Above, Cpus
  <2> QED
    BY <2>1, <2>2 DEF AllApart, Apart
<1> QED
  BY <1>1, <1>2, <1>3, PTL DEF Spec
-----------------------------------------------------------------------------
(* The list of pools: how IPC_PoolDumpAll walks it.                        *)

LEMMA LeastNumber ==
  ASSUME NEW S, S \subseteq Nat, S # {}
  PROVE  \E n \in S : \A m \in S : n <= m
<1>1. PICK x \in S : \A y \in S : ~(<<y, x>> \in OpToRel(<, Nat))
  BY NatLessThanWellFounded, WFMin
<1>2. ASSUME NEW y \in S, y < x
      PROVE  FALSE
  BY <1>1, <1>2 DEF OpToRel
<1> QED
  BY <1>2

\* Induction, for sets of numbers.
LEMMA AllNumbers ==
  ASSUME NEW S, 0 \in S, \A n \in Nat : n \in S => n + 1 \in S
  PROVE  \A n \in Nat : n \in S
<1> SUFFICES ASSUME NEW k \in Nat, k \notin S
             PROVE  FALSE
  OBVIOUS
<1> DEFINE T == {n \in Nat : n \notin S}
<1>1. PICK n \in T : \A m \in T : n <= m
  <2>1. T \subseteq Nat /\ T # {}
    OBVIOUS
  <2> HIDE DEF T
  <2> QED
    BY <2>1, LeastNumber
<1>2. n \in Nat /\ n # 0 /\ n \notin S
  BY <1>1
<1>3. n - 1 \in Nat /\ n - 1 \in S
  BY <1>1, <1>2
<1> QED
  BY <1>2, <1>3

\* A function can be applied again and again.
LEMMA Iterates ==
  ASSUME NEW A, NEW a \in A, NEW f \in [A -> A]
  PROVE  \E g \in [Nat -> A] : g[0] = a /\ \A n \in Nat : g[n + 1] = f[g[n]]
<1> DEFINE Start(n) ==
             {h \in [0..n -> A] : h[0] = a /\ \A i \in 0..n : i < n => h[i + 1] = f[h[i]]}
<1>1. \A n \in Nat : Start(n) # {}
  <2> DEFINE S == {n \in Nat : Start(n) # {}}
  <2>1. 0 \in S
    <3>1. [i \in 0..0 |-> a] \in Start(0)
      OBVIOUS
    <3> QED
      BY <3>1
  <2>2. ASSUME NEW n \in Nat, n \in S
        PROVE  n + 1 \in S
    <3>1. PICK h \in [0..n -> A] : h[0] = a /\ \A i \in 0..n : i < n => h[i + 1] = f[h[i]]
      BY <2>2
    <3> DEFINE k == [i \in 0..(n + 1) |-> IF i = n + 1 THEN f[h[n]] ELSE h[i]]
    <3>2. k \in [0..(n + 1) -> A] /\ k[0] = a
      BY <3>1
    <3>3. ASSUME NEW i \in 0..(n + 1), i < n + 1
          PROVE  k[i + 1] = f[k[i]]
      <4>1. k[i] = h[i] /\ i \in 0..n
        BY <3>3
      <4>2. CASE i = n
        BY <4>1, <4>2
      <4>3. CASE i < n
        <5>1. k[i + 1] = h[i + 1]
          BY <4>1, <4>3
        <5> QED
          BY <3>1, <4>1, <4>3, <5>1
      <4> QED
        BY <3>3, <4>2, <4>3
    <3> HIDE DEF k
    <3>4. k \in Start(n + 1)
      BY <3>2, <3>3
    <3> QED
      BY <3>4
  <2> HIDE DEF S
  <2>3. \A n \in Nat : n \in S
    BY <2>1, <2>2, AllNumbers
  <2> QED
    BY <2>3 DEF S
<1>2. ASSUME NEW n \in Nat, NEW h \in Start(n), NEW k \in Start(n + 1)
      PROVE  h[n] = k[n]
  <2> DEFINE S == {i \in Nat : i <= n => h[i] = k[i]}
  <2>1. 0 \in S
    OBVIOUS
  <2>2. ASSUME NEW i \in Nat, i \in S
        PROVE  i + 1 \in S
    <3> SUFFICES ASSUME i + 1 <= n
                 PROVE  h[i + 1] = k[i + 1]
      OBVIOUS
    <3>1. i \in 0..n /\ i < n /\ i \in 0..(n + 1) /\ i < n + 1 /\ h[i] = k[i]
      BY <2>2
    <3> QED
      BY <3>1
  <2> HIDE DEF S
  <2>3. n \in S
    BY <2>1, <2>2, AllNumbers
  <2> QED
    BY <2>3 DEF S
<1> DEFINE H(n) == CHOOSE h \in Start(n) : TRUE
<1>3. \A n \in Nat : H(n) \in Start(n)
  BY <1>1
<1> DEFINE g == [n \in Nat |-> H(n)[n]]
<1> HIDE DEF H
<1>4. g \in [Nat -> A]
  <2>1. \A n \in Nat : H(n)[n] \in A
    BY <1>3
  <2> QED
    BY <2>1
<1>5. g[0] = a
  BY <1>3
<1>6. ASSUME NEW n \in Nat
      PROVE  g[n + 1] = f[g[n]]
  <2>1. H(n) \in Start(n) /\ H(n + 1) \in Start(n + 1)
    BY <1>3
  <2>2. H(n)[n] = H(n + 1)[n]
    BY <1>2, <2>1
  <2>3. H(n + 1)[n + 1] = f[H(n + 1)[n]]
    BY <2>1
  <2> QED
    BY <2>2, <2>3
<1> HIDE DEF g
<1> QED
  BY <1>4, <1>5, <1>6

\* So the walk is defined, and goes from link to link.
LEMMA Walk ==
  ASSUME ListType
  PROVE  /\ Listed[0] = FirstPool
         /\ \A n \in Nat :
              /\ Listed[n] \in Addresses
              /\ Listed[n + 1] = IF Listed[n] = 0 THEN 0 ELSE NextPool[Listed[n]]
<1> DEFINE f == [x \in Addresses |-> IF x = 0 THEN 0 ELSE NextPool[x]]
<1>1. f \in [Addresses -> Addresses] /\ FirstPool \in Addresses
  BY CreationAssumption DEF ListType, Addresses
<1>2. PICK g \in [Nat -> Addresses] :
        g[0] = FirstPool /\ \A n \in Nat : g[n + 1] = f[g[n]]
  <2> HIDE DEF f
  <2> QED
    BY <1>1, Iterates
<1>3. g = [k \in Nat |-> IF k = 0 THEN FirstPool
                         ELSE IF g[k - 1] = 0 THEN 0 ELSE NextPool[g[k - 1]]]
  <2>1. ASSUME NEW k \in Nat
        PROVE  g[k] = IF k = 0 THEN FirstPool
                      ELSE IF g[k - 1] = 0 THEN 0 ELSE NextPool[g[k - 1]]
    <3>1. CASE k = 0
      BY <1>2, <3>1
    <3>2. CASE k # 0
      <4>1. k - 1 \in Nat /\ (k - 1) + 1 = k
        BY <3>2
      <4>2. g[k] = f[g[k - 1]] /\ g[k - 1] \in Addresses
        BY <1>2, <4>1
      <4> QED
        BY <3>2, <4>2
    <3> QED
      BY <3>1, <3>2
  <2> QED
    BY <2>1
<1>4. Listed = [k \in Nat |-> IF k = 0 THEN FirstPool
                              ELSE IF Listed[k - 1] = 0 THEN 0 ELSE NextPool[Listed[k - 1]]]
  BY <1>3 DEF Listed
<1> DEFINE S == {n \in Nat : Listed[n] \in Addresses}
<1>5. Listed[0] = FirstPool
  BY <1>4
<1>6. \A n \in Nat : Listed[n + 1] = IF Listed[n] = 0 THEN 0 ELSE NextPool[Listed[n]]
  <2> SUFFICES ASSUME NEW n \in Nat
               PROVE  Listed[n + 1] = IF Listed[n] = 0 THEN 0 ELSE NextPool[Listed[n]]
    OBVIOUS
  <2>1. n + 1 \in Nat /\ n + 1 # 0 /\ (n + 1) - 1 = n
    OBVIOUS
  <2> QED
    BY <1>4, <2>1
<1>7. 0 \in S
  BY <1>1, <1>5
<1>8. ASSUME NEW n \in Nat, n \in S
      PROVE  n + 1 \in S
  <2>1. Listed[n] \in Addresses /\ 0 \in Addresses
    BY <1>8, CreationAssumption DEF Addresses
  <2>2. NextPool[Listed[n]] \in Addresses
    BY <2>1 DEF ListType
  <2>3. Listed[n + 1] \in Addresses
    BY <1>6, <2>1, <2>2
  <2> QED
    BY <2>3
<1> HIDE DEF S
<1>9. \A n \in Nat : n \in S
  BY <1>7, <1>8, AllNumbers
<1> QED
  BY <1>5, <1>6, <1>9 DEF S

\* Where the pools are.
Ats == {p.at : p \in pools}

\* A thread that has a pool and has not made it the last of the list.
Unlinked == {"first", "set first", "last", "link", "set last"}

\* Only pools are on the list, and a pool that is not the last yet leads nowhere.
Nodes ==
  /\ 0 \notin Ats
  /\ FirstPool \in Ats \cup {0} /\ LastPool \in Ats \cup {0}
  /\ \A a \in Addresses : NextPool[a] # 0 => a \in Ats /\ NextPool[a] \in Ats
  /\ \A t \in Threads : pc[t] \in Unlinked => LastPool # mine[t] /\ NextPool[mine[t]] = 0
  /\ \A t \in Threads : pc[t] = "link" => LastPool # 0

\* The links go up in some order, so that no walk comes back.
Ranks(r) == \A a \in Addresses : NextPool[a] # 0 => r[a] < r[NextPool[a]]
Ordered == \E r \in [Addresses -> Nat] : Ranks(r)

\* Without an overlap of the CPUs one of them creates pools at a time.
Alone ==
  apart => \A t, u \in Threads : pc[t] # "idle" /\ pc[u] # "idle" => CpuOf[t] = CpuOf[u]

\* Then every pool is the first, or follows one, or is about to.
Followed(a) == a = FirstPool \/ \E b \in Ats : NextPool[b] = a
Waiting(a) == \E t \in Threads : pc[t] \in Unlinked \ {"set last"} /\ mine[t] = a

Whole ==
  /\ (\A t \in Threads : pc[t] # "set last") => NextPool[LastPool] = 0
  /\ (\A t \in Threads : pc[t] \notin {"last", "set last"}) => (FirstPool = 0 <=> LastPool = 0)
  /\ \A t \in Threads :
       /\ pc[t] = "set first" => FirstPool = 0
       /\ pc[t] \in {"last", "set last", "link"} => FirstPool # 0
       /\ pc[t] = "last" /\ LastPool = 0 => FirstPool = mine[t]
       /\ pc[t] = "init" => LastPool = mine[t]
  /\ \A a \in Ats : Followed(a) \/ Waiting(a)

ListInv ==
  /\ IsFiniteSet(pools)
  /\ Alone
  /\ AllSerial /\ ~overrun => Nodes /\ Ordered /\ (apart => Whole)

\* The walk meets pools until it ends.
LEMMA WalkMeetsPools ==
  ASSUME ListType, Nodes
  PROVE  \A n \in Nat : Listed[n] \in Ats \cup {0}
<1> DEFINE S == {n \in Nat : Listed[n] \in Ats \cup {0}}
<1>1. 0 \in S
  BY Walk DEF Nodes
<1>2. ASSUME NEW n \in Nat, n \in S
      PROVE  n + 1 \in S
  <2>1. Listed[n + 1] \in Ats \cup {0}
    BY Walk DEF Nodes
  <2> QED
    BY <2>1
<1> HIDE DEF S
<1>3. \A n \in Nat : n \in S
  BY <1>1, <1>2, AllNumbers
<1> QED
  BY <1>3 DEF S

\* The walk goes up: it does not meet a pool twice.
LEMMA WalkGoesUp ==
  ASSUME ListType, NEW r \in [Addresses -> Nat], Ranks(r), NEW N \in Nat,
         \A k \in 0..N : Listed[k] # 0
  PROVE  \A i, j \in 0..N : i < j => r[Listed[i]] < r[Listed[j]]
<1> DEFINE S == {d \in Nat : \A i \in Nat : i + d + 1 <= N => r[Listed[i]] < r[Listed[i + d + 1]]}
<1>0. \A n \in Nat : Listed[n] \in Addresses /\ r[Listed[n]] \in Nat
  BY Walk
<1>1. ASSUME NEW n \in Nat, n + 1 <= N
      PROVE  r[Listed[n]] < r[Listed[n + 1]]
  <2>1. Listed[n] # 0 /\ Listed[n + 1] # 0
    BY <1>1
  <2>2. Listed[n + 1] = NextPool[Listed[n]]
    BY <2>1, Walk
  <2> QED
    BY <1>0, <2>1, <2>2 DEF Ranks
<1>2. 0 \in S
  BY <1>1
<1>3. ASSUME NEW d \in Nat, d \in S
      PROVE  d + 1 \in S
  <2> SUFFICES ASSUME NEW i \in Nat, i + (d + 1) + 1 <= N
               PROVE  r[Listed[i]] < r[Listed[i + (d + 1) + 1]]
    OBVIOUS
  <2>1. i + d + 1 \in Nat /\ i + d + 1 <= N /\ (i + d + 1) + 1 = i + (d + 1) + 1
    OBVIOUS
  <2>2. r[Listed[i]] < r[Listed[i + d + 1]]
    BY <1>3, <2>1
  <2>3. r[Listed[i + d + 1]] < r[Listed[i + (d + 1) + 1]]
    BY <1>1, <2>1
  <2>4. i + (d + 1) + 1 \in Nat
    OBVIOUS
  <2> QED
    BY <1>0, <2>1, <2>2, <2>3, <2>4
<1> HIDE DEF S
<1>4. \A d \in Nat : d \in S
  BY <1>2, <1>3, AllNumbers
<1> SUFFICES ASSUME NEW i \in 0..N, NEW j \in 0..N, i < j
             PROVE  r[Listed[i]] < r[Listed[j]]
  OBVIOUS
<1>5. j - i - 1 \in Nat /\ i + (j - i - 1) + 1 = j /\ i \in Nat /\ j <= N
  OBVIOUS
<1>6. j - i - 1 \in S
  BY <1>4, <1>5
<1> QED
  BY <1>5, <1>6 DEF S

\* So it ends after as many pools as there are.
LEMMA WalkEnds ==
  ASSUME ListType, IsFiniteSet(pools), Nodes, Ordered
  PROVE  \E k \in 0..Cardinality(pools) : Listed[k] = 0
<1> DEFINE N == Cardinality(pools)
<1> SUFFICES ASSUME \A k \in 0..N : Listed[k] # 0
             PROVE  FALSE
  OBVIOUS
<1>1. N \in Nat
  BY FS_CardinalityType
<1>2. PICK r \in [Addresses -> Nat] : Ranks(r)
  BY DEF Ordered
<1>3. \A i, j \in 0..N : i < j => r[Listed[i]] < r[Listed[j]]
  <2> HIDE DEF N
  <2> QED
    BY <1>1, <1>2, WalkGoesUp
<1>4. \A k \in 0..N : \E p \in pools : p.at = Listed[k]
  BY <1>1, WalkMeetsPools DEF Ats
<1> DEFINE f == [k \in 0..N |-> CHOOSE p \in pools : p.at = Listed[k]]
<1>5. f \in [0..N -> pools] /\ \A k \in 0..N : f[k].at = Listed[k]
  BY <1>4
<1>6. IsFiniteSet(0..N) /\ Cardinality(0..N) = N + 1
  <2>1. 0 \in Int /\ N \in Int /\ ~(0 > N)
    BY <1>1
  <2> QED
    BY <2>1, FS_Interval
<1>7. Cardinality(pools) < Cardinality(0..N)
  BY <1>1, <1>6
<1> HIDE DEF f, N
<1>8. \E i, j \in 0..N : i # j /\ f[i] = f[j]
  <2> DEFINE S == 0..N
  <2>1. IsFiniteSet(S) /\ IsFiniteSet(pools) /\ f \in [S -> pools]
    BY <1>5, <1>6
  <2>2. Cardinality(pools) < Cardinality(S)
    BY <1>7
  <2> HIDE DEF S
  <2>3. \E i, j \in S : i # j /\ f[i] = f[j]
    BY <2>1, <2>2, FS_PigeonHole, Zenon
  <2> QED
    BY <2>3 DEF S
<1>9. PICK i \in 0..N, j \in 0..N : i # j /\ f[i] = f[j]
  BY <1>8
<1>10. Listed[i] = Listed[j]
  BY <1>5, <1>9
<1>11. i \in Nat /\ j \in Nat /\ (i < j \/ j < i)
  BY <1>1, <1>9
<1>12. Listed[i] \in Addresses /\ r[Listed[i]] \in Nat
  BY <1>2, <1>11, Walk
<1> QED
  BY <1>3, <1>10, <1>11, <1>12

\* It meets every pool that is the first or follows one.
LEMMA WalkMeetsFollowers ==
  ASSUME TypeInv, ListType, Nodes, Ordered, \A a \in Ats : Followed(a)
  PROVE  \A a \in Ats : \E n \in Nat : Listed[n] = a
<1>1. PICK r \in [Addresses -> Nat] : Ranks(r)
  BY DEF Ordered
<1>2. Ats \subseteq Addresses
  BY DEF Ats, TypeInv
<1> DEFINE Met(a) == \E n \in Nat : Listed[n] = a
           Missed == {a \in Ats : ~Met(a)}
           R == {r[a] : a \in Missed}
<1> SUFFICES ASSUME Missed # {}
             PROVE  FALSE
  OBVIOUS
<1>3. R \subseteq Nat /\ R # {}
  BY <1>1, <1>2
<1>4. PICK m \in R : \A k \in R : m <= k
  <2> HIDE DEF R
  <2> QED
    BY <1>3, LeastNumber
<1>5. PICK a \in Missed : m = r[a]
  OBVIOUS
<1>6. a # FirstPool
  BY <1>5, Walk
<1>7. PICK b \in Ats : NextPool[b] = a
  BY <1>5, <1>6 DEF Followed
<1>8. a # 0 /\ b # 0 /\ b \in Addresses /\ a \in Addresses
  BY <1>2, <1>5, <1>7 DEF Nodes
<1>9. r[b] < r[a] /\ r[b] \in Nat /\ r[a] \in Nat
  BY <1>1, <1>7, <1>8 DEF Ranks
<1>10. b \notin Missed
  BY <1>3, <1>4, <1>5, <1>9
<1>11. PICK n \in Nat : Listed[n] = b
  BY <1>7, <1>10
<1>12. Listed[n + 1] = a /\ n + 1 \in Nat
  BY <1>7, <1>8, <1>11, Walk
<1> QED
  BY <1>5, <1>12

LEMMA ListInvSuffices ==
  ASSUME TypeInv, ListType, ListInv
  PROVE  ListIsSound
<1> DEFINE met == {Listed[k] : k \in 0..Cardinality(pools)}
<1> SUFFICES ASSUME AllSerial, ~overrun, \A t \in Threads : pc[t] = "idle"
             PROVE  0 \in met /\ met \ {0} \subseteq Ats /\ (apart => Ats \subseteq met)
  BY DEF ListIsSound, Ats
<1>1. IsFiniteSet(pools) /\ Nodes /\ Ordered /\ (apart => Whole)
  BY DEF ListInv
<1>2. Cardinality(pools) \in Nat
  BY <1>1, FS_CardinalityType
<1>3. PICK k \in 0..Cardinality(pools) : Listed[k] = 0
  BY <1>1, WalkEnds
<1>4. met \ {0} \subseteq Ats
  BY <1>1, <1>2, WalkMeetsPools
<1>5. ASSUME apart, NEW a \in Ats
      PROVE  a \in met
  <2>1. \A b \in Ats : Followed(b)
    BY <1>1, <1>5 DEF Whole, Waiting, Unlinked
  <2>2. PICK n \in Nat : Listed[n] = a
    BY <1>1, <1>5, <2>1, WalkMeetsFollowers
  <2>3. Listed[n] # 0
    BY <1>1, <2>2 DEF Nodes
  <2>4. k \in Nat /\ n < k
    <3> DEFINE S == {d \in Nat : Listed[k + d] = 0}
    <3>1. k \in Nat
      BY <1>2
    <3>2. 0 \in S
      BY <1>3, <3>1
    <3>3. ASSUME NEW d \in Nat, d \in S
          PROVE  d + 1 \in S
      <4>1. k + d \in Nat /\ k + (d + 1) = (k + d) + 1 /\ Listed[k + d] = 0
        BY <3>1, <3>3
      <4>2. Listed[k + (d + 1)] = 0
        BY <4>1, Walk
      <4> QED
        BY <4>2
    <3> HIDE DEF S
    <3>4. \A d \in Nat : d \in S
      BY <3>2, <3>3, AllNumbers
    <3>5. ASSUME ~(n < k)
          PROVE  FALSE
      <4>1. n - k \in Nat /\ k + (n - k) = n
        BY <3>1, <3>5
      <4> QED
        BY <2>3, <3>4, <4>1 DEF S
    <3> QED
      BY <3>1, <3>5
  <2>5. n \in 0..Cardinality(pools)
    BY <1>2, <2>4
  <2> QED
    BY <2>2, <2>5
<1> QED
  BY <1>3, <1>4, <1>5

\* A new pool lies where no pool lies.
LEMMA NewPoolElsewhere ==
  ASSUME TypeInv, MemoryInv, AllSerial, ~overrun, NEW t \in Threads,
         pc[t] = "verify", ~Crossed
  PROVE  mine[t] \notin Ats
<1>1. Below /\ Above /\ Places
  BY DEF MemoryInv
<1>2. /\ CpuOf[t] \in Cpus /\ mine[t] \in Nat
      /\ SizeOf[type[t]] \in Nat /\ 0 < SizeOf[type[t]]
  BY MemoryTypes
<1>3. Allocated["AP"] <= Allocated["CP"]
  BY MemoryTypes DEF Crossed
<1>4. \A p \in pools : /\ p.at \in Nat /\ EndOf(p) \in Nat /\ p.at < EndOf(p)
                       /\ p.cpu \in {"AP", "CP"}
  BY MemoryTypes DEF Cpus
<1>5. Allocated["AP"] \in Nat /\ Allocated["CP"] \in Nat
  BY MemoryTypes
<1>6. CASE CpuOf[t] = "AP"
  <2>1. /\ mine[t] + SizeOf[type[t]] = Allocated["AP"]
        /\ \A p \in pools : p.cpu = "AP" => EndOf(p) <= mine[t]
    BY <1>1, <1>6 DEF Places, ApPlace
  <2>2. \A p \in pools : p.at # mine[t]
    BY <1>1, <1>2, <1>3, <1>4, <1>5, <2>1 DEF Above
  <2> QED
    BY <2>2 DEF Ats
<1>7. CASE CpuOf[t] = "CP"
  <2>1. /\ mine[t] = Allocated["CP"]
        /\ \A p \in pools : p.cpu = "CP" => Allocated["CP"] + SizeOf[type[t]] <= p.at
    BY <1>1, <1>7 DEF Places, CpPlace
  <2>2. \A p \in pools : p.at # mine[t]
    BY <1>1, <1>2, <1>3, <1>4, <1>5, <2>1 DEF Below
  <2> QED
    BY <2>2 DEF Ats
<1> QED
  BY <1>2, <1>6, <1>7 DEF Cpus

\* What a thread that has a pool knows of it.
LEMMA OwnPool ==
  ASSUME TypeInv, Exclusive, CreateInv, MemoryInv, AllSerial, ~overrun,
         NEW t \in Threads, pc[t] \in After
  PROVE  /\ mine[t] # 0 /\ mine[t] \in Ats /\ mine[t] \in Addresses
         /\ \A u \in Threads : u # t /\ pc[u] \in After => mine[u] # mine[t]
<1>1. mine[t] # 0 /\ Given(t) \in pools /\ mine[t] \in Addresses
  BY DEF CreateInv, TypeInv
<1>2. mine[t] \in Ats
  <2>1. Given(t).at = mine[t]
    BY DEF Given
  <2> QED
    BY <1>1, <2>1 DEF Ats
<1>3. ASSUME NEW u \in Threads, u # t, pc[u] \in After
      PROVE  mine[u] # mine[t]
  <2>1. CpuOf[u] # CpuOf[t]
    BY <1>3, OthersIdle DEF After
  <2>2. Given(u) \in pools /\ Given(u) # Given(t)
    BY <1>3, <2>1 DEF CreateInv, Given
  <2>3. Apart(Given(t), Given(u))
    BY <1>1, <2>2 DEF MemoryInv, AllApart
  <2>4. Given(t).at = mine[t] /\ Given(u).at = mine[u]
    BY DEF Given
  <2> QED
    BY <1>1, <2>2, <2>3, <2>4, MemoryTypes DEF Apart
<1> QED
  BY <1>1, <1>2, <1>3

\* Without an overlap the other threads are idle.
LEMMA OthersAllIdle ==
  ASSUME TypeInv, Exclusive, Alone, AllSerial, apart, NEW t \in Threads, pc[t] # "idle"
  PROVE  \A u \in Threads : u # t => pc[u] = "idle"
BY OthersIdle DEF Alone

\* A thread that is not at the list.
LEMMA OffListKeeps ==
  ASSUME Nodes, Ordered, UNCHANGED <<list, pools>>,
         \A u \in Threads : pc[u] \in After \ {"store"} \/ pc'[u] \in After \ {"store"} =>
           pc'[u] = pc[u] /\ mine'[u] = mine[u]
  PROVE  Nodes' /\ Ordered' /\ (Whole => Whole')
<1>1. UNCHANGED <<FirstPool, LastPool, NextPool>> /\ Ats' = Ats
  BY DEF list, Ats
<1>2. Nodes'
  BY <1>1 DEF Nodes, Unlinked, After
<1>3. Ordered'
  BY <1>1 DEF Ordered, Ranks
<1>4. ASSUME Whole
      PROVE  Whole'
  <2>1. \A a \in Ats : Waiting(a) => Waiting(a)'
    BY DEF Waiting, Unlinked, After
  <2>2. \A a \in Ats : Followed(a)' \/ Waiting(a)'
    BY <1>1, <1>4, <2>1 DEF Whole, Followed
  <2>3. /\ (\A t \in Threads : pc'[t] # "set last") => (\A t \in Threads : pc[t] # "set last")
        /\ (\A t \in Threads : pc'[t] \notin {"last", "set last"}) =>
             (\A t \in Threads : pc[t] \notin {"last", "set last"})
    BY DEF After
  <2>4. \A t \in Threads :
          /\ pc'[t] = "set first" => FirstPool = 0
          /\ pc'[t] \in {"last", "set last", "link"} => FirstPool # 0
          /\ pc'[t] = "last" /\ LastPool = 0 => FirstPool = mine'[t]
          /\ pc'[t] = "init" => LastPool = mine'[t]
    BY <1>4 DEF Whole, After
  <2> QED
    BY <1>1, <1>4, <2>2, <2>3, <2>4 DEF Whole
<1> QED
  BY <1>2, <1>3, <1>4

\* IPC_SmPoolAlloc hands out a pool that no link leads to or from.
LEMMA VerifyKeepsList ==
  ASSUME TypeInv, MemoryInv, AllSerial, ~overrun, Nodes, Ordered,
         NEW t \in Threads, Verify(t)
  PROVE  Nodes' /\ Ordered' /\ (Whole => Whole')
<1> USE DEF ghosts, shared, list
<1>1. /\ UNCHANGED <<FirstPool, LastPool, NextPool>>
      /\ \A u \in Threads : u # t => pc'[u] = pc[u] /\ mine'[u] = mine[u]
      /\ pc[t] = "verify" /\ pc'[t] \in {"idle", "first"}
  BY DEF Verify, Store, Continue, Goto, TypeInv
<1>2. CASE Crossed \/ mine[t] = 0
  <2>1. UNCHANGED pools /\ pc'[t] = "idle"
    BY <1>2 DEF Verify, Store, Goto, TypeInv
  <2> QED
    BY <1>1, <2>1, OffListKeeps DEF After
<1>3. CASE ~(Crossed \/ mine[t] = 0)
  <2>1. pools' = pools \cup {Given(t)} /\ pc'[t] = "first" /\ mine'[t] = mine[t]
    BY <1>3 DEF Verify, Given, Continue, Goto, TypeInv
  <2>2. Ats' = Ats \cup {mine[t]}
    <3>1. Given(t).at = mine[t]
      BY DEF Given
    <3> QED
      BY <2>1, <3>1 DEF Ats
  <2>3. mine[t] \notin Ats /\ mine[t] # 0 /\ mine[t] \in Addresses
    BY <1>1, <1>3, NewPoolElsewhere DEF TypeInv
  <2>4. LastPool # mine[t] /\ NextPool[mine[t]] = 0
    BY <2>3 DEF Nodes
  <2>5. Nodes'
    BY <1>1, <2>1, <2>2, <2>3, <2>4 DEF Nodes
  <2>6. Ordered'
    BY <1>1 DEF Ordered, Ranks
  <2>7. ASSUME Whole
        PROVE  Whole'
    <3>1. \A a \in Ats : Waiting(a) => Waiting(a)'
      BY <1>1 DEF Waiting, Unlinked
    <3>2. Waiting(mine[t])'
      BY <2>1 DEF Waiting, Unlinked
    <3>3. \A a \in Ats' : Followed(a)' \/ Waiting(a)'
      BY <1>1, <2>1, <2>2, <2>7, <3>1, <3>2 DEF Whole, Followed, Waiting
    <3> QED
      BY <1>1, <2>1, <2>7, <3>3 DEF Whole
  <2> QED
    BY <2>5, <2>6, <2>7
<1> QED
  BY <1>2, <1>3

\* IPC_SmAddPool, step by step.  With both CPUs in it links may be lost, but
\* none is made that leads back.
LEMMA TestFirstKeepsList ==
  ASSUME TypeInv, Exclusive, Alone, AllSerial, Nodes, Ordered, apart => Whole,
         NEW t \in Threads, TestFirst(t)
  PROVE  Nodes' /\ Ordered' /\ (apart => Whole')
<1> USE DEF ghosts, shared, list
<1>1. /\ UNCHANGED <<FirstPool, LastPool, NextPool, pools, mine>>
      /\ pc' = [pc EXCEPT ![t] = IF FirstPool = 0 THEN "set first" ELSE "last"]
      /\ pc[t] = "first"
  BY DEF TestFirst, Goto
<1>2. /\ pc'[t] \in {"set first", "last"}
      /\ pc'[t] = "set first" => FirstPool = 0
      /\ pc'[t] = "last" => FirstPool # 0
      /\ \A u \in Threads : u # t => pc'[u] = pc[u]
  BY <1>1 DEF TypeInv
<1>3. Ats' = Ats
  BY <1>1 DEF Ats
<1>4. Nodes'
  BY <1>1, <1>2, <1>3 DEF Nodes, Unlinked
<1>5. Ordered'
  BY <1>1 DEF Ordered, Ranks
<1>6. ASSUME apart
      PROVE  Whole'
  <2>1. \A u \in Threads : u # t => pc[u] = "idle"
    BY <1>1, <1>6, OthersAllIdle
  <2>2. ASSUME NEW a \in Ats
        PROVE  Followed(a)' \/ Waiting(a)'
    <3>1. CASE Followed(a)
      BY <1>1, <1>3, <3>1 DEF Followed
    <3>2. CASE Waiting(a)
      <4>1. a = mine[t]
        BY <2>1, <3>2 DEF Waiting, Unlinked
      <4> QED
        BY <1>1, <1>2, <4>1 DEF Waiting, Unlinked
    <3> QED
      BY <1>6, <3>1, <3>2 DEF Whole
  <2>3. FirstPool = 0 <=> LastPool = 0
    BY <1>1, <1>6, <2>1 DEF Whole
  <2> QED
    BY <1>1, <1>2, <1>3, <1>6, <2>1, <2>2, <2>3 DEF Whole
<1> QED
  BY <1>4, <1>5, <1>6

LEMMA SetFirstKeepsList ==
  ASSUME TypeInv, Exclusive, CreateInv, MemoryInv, Alone, AllSerial, ~overrun,
         Nodes, Ordered, apart => Whole, NEW t \in Threads, SetFirst(t)
  PROVE  Nodes' /\ Ordered' /\ (apart => Whole')
<1> USE DEF ghosts, shared, list
<1>1. /\ UNCHANGED <<LastPool, NextPool, pools, mine>>
      /\ FirstPool' = mine[t] /\ pc[t] = "set first"
      /\ pc'[t] = "last" /\ \A u \in Threads : u # t => pc'[u] = pc[u]
  BY DEF SetFirst, Goto, TypeInv
<1>2. mine[t] # 0 /\ mine[t] \in Ats
  BY <1>1, OwnPool DEF After
<1>3. Ats' = Ats
  BY <1>1 DEF Ats
<1>4. Nodes'
  BY <1>1, <1>2, <1>3 DEF Nodes, Unlinked
<1>5. Ordered'
  BY <1>1 DEF Ordered, Ranks
<1>6. ASSUME apart
      PROVE  Whole'
  <2>1. \A u \in Threads : u # t => pc[u] = "idle"
    BY <1>1, <1>6, OthersAllIdle
  <2>2. \A a \in Ats : a # FirstPool
    BY <1>1, <1>6 DEF Whole, Nodes
  <2>3. \A a \in Ats : Followed(a)' \/ Waiting(a)'
    BY <1>1, <1>3, <1>6, <2>2 DEF Whole, Followed, Waiting, Unlinked
  <2> QED
    BY <1>1, <1>2, <1>3, <1>6, <2>1, <2>3 DEF Whole
<1> QED
  BY <1>4, <1>5, <1>6

LEMMA TestLastKeepsList ==
  ASSUME TypeInv, Exclusive, Alone, AllSerial, Nodes, Ordered, apart => Whole,
         NEW t \in Threads, TestLast(t)
  PROVE  Nodes' /\ Ordered' /\ (apart => Whole')
<1> USE DEF ghosts, shared, list
<1>1. /\ UNCHANGED <<FirstPool, LastPool, NextPool, pools, mine>>
      /\ pc' = [pc EXCEPT ![t] = IF LastPool = 0 THEN "set last" ELSE "link"]
      /\ pc[t] = "last"
  BY DEF TestLast, Goto
<1>2. /\ pc'[t] \in {"set last", "link"}
      /\ pc'[t] = "set last" => LastPool = 0
      /\ pc'[t] = "link" => LastPool # 0
      /\ \A u \in Threads : u # t => pc'[u] = pc[u]
  BY <1>1 DEF TypeInv
<1>3. Ats' = Ats
  BY <1>1 DEF Ats
<1>4. Nodes'
  BY <1>1, <1>2, <1>3 DEF Nodes, Unlinked
<1>5. Ordered'
  BY <1>1 DEF Ordered, Ranks
<1>6. ASSUME apart
      PROVE  Whole'
  <2>1. \A u \in Threads : u # t => pc[u] = "idle"
    BY <1>1, <1>6, OthersAllIdle
  <2>2. FirstPool # 0 /\ (LastPool = 0 => FirstPool = mine[t])
    BY <1>1, <1>6 DEF Whole
  <2>3. ASSUME NEW a \in Ats
        PROVE  Followed(a)' \/ Waiting(a)'
    <3>1. CASE Followed(a)
      BY <1>1, <1>3, <3>1 DEF Followed
    <3>2. CASE Waiting(a)
      <4>1. a = mine[t]
        BY <2>1, <3>2 DEF Waiting, Unlinked
      <4> QED
        BY <1>1, <1>2, <2>2, <4>1 DEF Followed, Waiting, Unlinked
    <3> QED
      BY <1>6, <3>1, <3>2 DEF Whole
  <2>4. NextPool[LastPool] = 0
    BY <1>1, <1>6, <2>1 DEF Whole
  <2> QED
    BY <1>1, <1>2, <1>3, <1>6, <2>1, <2>2, <2>3, <2>4 DEF Whole
<1> QED
  BY <1>4, <1>5, <1>6

LEMMA LinkKeepsList ==
  ASSUME TypeInv, ListType, Exclusive, CreateInv, MemoryInv, Alone, AllSerial, ~overrun,
         Nodes, Ordered, apart => Whole, NEW t \in Threads, Link(t)
  PROVE  Nodes' /\ Ordered' /\ (apart => Whole')
<1> USE DEF ghosts, shared, list
<1>1. /\ UNCHANGED <<FirstPool, LastPool, pools, mine>>
      /\ NextPool' = [NextPool EXCEPT ![LastPool] = mine[t]] /\ pc[t] = "link"
      /\ pc'[t] = "set last" /\ \A u \in Threads : u # t => pc'[u] = pc[u]
  BY DEF Link, Goto, TypeInv
<1>2. mine[t] # 0 /\ mine[t] \in Ats /\ mine[t] \in Addresses
  BY <1>1, OwnPool DEF After
<1>3. Ats' = Ats
  BY <1>1 DEF Ats
<1>4. /\ LastPool \in Ats /\ LastPool \in Addresses /\ LastPool # mine[t]
      /\ NextPool[mine[t]] = 0
  BY <1>1 DEF Nodes, ListType, Unlinked
<1>5. /\ NextPool'[LastPool] = mine[t]
      /\ \A a \in Addresses : a # LastPool => NextPool'[a] = NextPool[a]
  BY <1>1, <1>4 DEF ListType
<1>6. Nodes'
  <2>1. \A u \in Threads : pc'[u] \in Unlinked =>
          LastPool # mine[u] /\ NextPool'[mine[u]] = 0
    BY <1>1, <1>5 DEF Nodes, Unlinked, TypeInv
  <2>2. \A a \in Addresses : NextPool'[a] # 0 => a \in Ats /\ NextPool'[a] \in Ats
    BY <1>2, <1>4, <1>5 DEF Nodes
  <2>3. 0 \notin Ats /\ FirstPool \in Ats \cup {0} /\ LastPool # 0
    BY <1>4 DEF Nodes
  <2> QED
    BY <1>1, <1>3, <1>4, <2>1, <2>2, <2>3 DEF Nodes
<1>7. Ordered'
  <2>1. PICK r \in [Addresses -> Nat] : Ranks(r)
    BY DEF Ordered
  <2> DEFINE up == r[LastPool] + r[mine[t]] + 1
             new == [r EXCEPT ![mine[t]] = up]
  <2>2. up \in Nat /\ r[LastPool] < up /\ r[mine[t]] < up
    BY <1>2, <1>4
  <2> HIDE DEF up
  <2>3. new \in [Addresses -> Nat] /\ new[mine[t]] = up
        /\ \A a \in Addresses : a # mine[t] => new[a] = r[a]
    BY <1>2, <2>2
  <2> HIDE DEF new
  <2>4. ASSUME NEW a \in Addresses, NextPool'[a] # 0
        PROVE  new[a] < new[NextPool'[a]]
    <3>1. CASE a = LastPool
      BY <1>4, <1>5, <2>2, <2>3, <3>1
    <3>2. CASE a # LastPool
      <4>1. NextPool'[a] = NextPool[a] /\ a # mine[t] /\ NextPool[a] \in Addresses
        BY <1>4, <1>5, <2>4, <3>2 DEF ListType
      <4>2. r[a] < r[NextPool[a]] /\ new[a] = r[a]
        BY <2>1, <2>3, <2>4, <4>1 DEF Ranks
      <4>3. CASE NextPool[a] = mine[t]
        BY <1>2, <2>1, <2>2, <2>3, <4>1, <4>2, <4>3
      <4>4. CASE NextPool[a] # mine[t]
        BY <2>3, <4>1, <4>2, <4>4
      <4> QED
        BY <4>3, <4>4
    <3> QED
      BY <3>1, <3>2
  <2> QED
    BY <2>3, <2>4 DEF Ordered, Ranks
<1>8. ASSUME apart
      PROVE  Whole'
  <2>1. \A u \in Threads : u # t => pc[u] = "idle"
    BY <1>1, <1>8, OthersAllIdle
  <2>2. NextPool[LastPool] = 0 /\ FirstPool # 0
    BY <1>1, <1>8, <2>1 DEF Whole
  <2>3. ASSUME NEW a \in Ats
        PROVE  Followed(a)'
    <3>1. CASE a = mine[t]
      BY <1>3, <1>4, <1>5, <3>1 DEF Followed
    <3>2. CASE a # mine[t]
      <4>1. ~Waiting(a)
        BY <2>1, <3>2 DEF Waiting, Unlinked
      <4>2. Followed(a) /\ a # 0
        BY <1>8, <4>1 DEF Whole, Nodes
      <4>3. CASE a = FirstPool
        BY <1>1, <4>3 DEF Followed
      <4>4. CASE a # FirstPool
        <5>1. PICK b \in Ats : NextPool[b] = a
          BY <4>2, <4>4 DEF Followed
        <5>2. b \in Addresses /\ b # LastPool
          BY <2>2, <4>2, <5>1 DEF Ats, TypeInv
        <5> QED
          BY <1>3, <1>5, <5>1, <5>2 DEF Followed
      <4> QED
        BY <4>3, <4>4
    <3> QED
      BY <3>1, <3>2
  <2> QED
    BY <1>1, <1>3, <1>4, <2>1, <2>2, <2>3 DEF Whole
<1> QED
  BY <1>6, <1>7, <1>8

LEMMA SetLastKeepsList ==
  ASSUME TypeInv, Exclusive, CreateInv, MemoryInv, Alone, AllSerial, ~overrun,
         Nodes, Ordered, apart => Whole, NEW t \in Threads, SetLast(t)
  PROVE  Nodes' /\ Ordered' /\ (apart => Whole')
<1> USE DEF ghosts, shared, list
<1>1. /\ UNCHANGED <<FirstPool, NextPool, pools, mine>>
      /\ LastPool' = mine[t] /\ pc[t] = "set last"
      /\ pc'[t] = "init" /\ \A u \in Threads : u # t => pc'[u] = pc[u]
  BY DEF SetLast, Goto, TypeInv
<1>2. /\ mine[t] # 0 /\ mine[t] \in Ats
      /\ \A u \in Threads : u # t /\ pc[u] \in After => mine[u] # mine[t]
  BY <1>1, OwnPool DEF After
<1>3. Ats' = Ats
  BY <1>1 DEF Ats
<1>4. NextPool[mine[t]] = 0
  BY <1>1 DEF Nodes, Unlinked
<1>5. Nodes'
  <2>1. \A u \in Threads : pc'[u] \in Unlinked =>
          LastPool' # mine[u] /\ NextPool[mine[u]] = 0
    BY <1>1, <1>2 DEF Nodes, Unlinked, After
  <2> QED
    BY <1>1, <1>2, <1>3, <2>1 DEF Nodes
<1>6. Ordered'
  BY <1>1 DEF Ordered, Ranks
<1>7. ASSUME apart
      PROVE  Whole'
  <2>1. \A u \in Threads : u # t => pc[u] = "idle"
    BY <1>1, <1>7, OthersAllIdle
  <2>2. \A a \in Ats : ~Waiting(a)
    BY <1>1, <2>1 DEF Waiting, Unlinked
  <2>3. \A a \in Ats : Followed(a)'
    BY <1>1, <1>3, <1>7, <2>2 DEF Whole, Followed
  <2>4. FirstPool # 0
    BY <1>1, <1>7 DEF Whole
  <2> QED
    BY <1>1, <1>2, <1>3, <1>4, <2>1, <2>3, <2>4 DEF Whole
<1> QED
  BY <1>5, <1>6, <1>7

\* IPC_CreateBufferPoolWithDescriptor clears the link of a pool that may have
\* a successor already, which is then lost.
LEMMA InitPoolKeepsList ==
  ASSUME TypeInv, ListType, Exclusive, CreateInv, MemoryInv, Alone, AllSerial, ~overrun,
         Nodes, Ordered, apart => Whole, NEW t \in Threads, InitPool(t)
  PROVE  Nodes' /\ Ordered' /\ (apart => Whole')
<1> USE DEF ghosts, shared, list
<1>1. /\ UNCHANGED <<FirstPool, LastPool, pools, mine>>
      /\ NextPool' = [NextPool EXCEPT ![mine[t]] = 0] /\ pc[t] = "init"
      /\ pc'[t] = "store" /\ \A u \in Threads : u # t => pc'[u] = pc[u]
  BY DEF InitPool, Goto, TypeInv
<1>2. mine[t] \in Addresses
  BY DEF TypeInv
<1>3. Ats' = Ats
  BY <1>1 DEF Ats
<1>4. /\ NextPool'[mine[t]] = 0
      /\ \A a \in Addresses : NextPool'[a] # 0 => NextPool'[a] = NextPool[a]
      /\ \A a \in Addresses : NextPool[a] = 0 => NextPool'[a] = 0
  BY <1>1, <1>2 DEF ListType
<1>5. Nodes'
  <2>1. \A u \in Threads : pc'[u] \in Unlinked =>
          LastPool # mine[u] /\ NextPool'[mine[u]] = 0
    BY <1>1, <1>4 DEF Nodes, Unlinked, TypeInv
  <2>2. \A a \in Addresses : NextPool'[a] # 0 => a \in Ats /\ NextPool'[a] \in Ats
    BY <1>4 DEF Nodes
  <2> QED
    BY <1>1, <1>3, <2>1, <2>2 DEF Nodes
<1>6. Ordered'
  BY <1>4 DEF Ordered, Ranks
<1>7. ASSUME apart
      PROVE  Whole'
  <2>1. \A u \in Threads : u # t => pc[u] = "idle"
    BY <1>1, <1>7, OthersAllIdle
  <2>2. NextPool[LastPool] = 0 /\ LastPool = mine[t] /\ (FirstPool = 0 <=> LastPool = 0)
    BY <1>1, <1>7, <2>1 DEF Whole
  <2>3. NextPool' = NextPool
    BY <1>1, <2>2 DEF ListType
  <2>4. \A a \in Ats : ~Waiting(a)
    BY <1>1, <2>1 DEF Waiting, Unlinked
  <2>5. \A a \in Ats : Followed(a)'
    BY <1>1, <1>3, <1>7, <2>3, <2>4 DEF Whole, Followed
  <2> QED
    BY <1>1, <1>3, <2>1, <2>2, <2>3, <2>5 DEF Whole
<1> QED
  BY <1>5, <1>6, <1>7

\* The set of pools stays finite, and overlaps are recorded.
LEMMA AloneStep ==
  ASSUME TypeInv, IsFiniteSet(pools), Alone, [Next]_vars
  PROVE  IsFiniteSet(pools)' /\ Alone' /\ (apart' => apart)
<1> USE DEF ghosts, shared, list
<1>1. ASSUME NEW t \in Threads, NEW i \in Types, Begin(t, i)
      PROVE  pools' = pools /\ Alone' /\ (apart' => apart)
  <2>1. /\ pools' = pools
        /\ \A u \in Threads : u # t => pc'[u] = pc[u]
    BY <1>1 DEF Begin, Goto, TypeInv
  <2>2. ASSUME apart'
        PROVE  apart /\ \A u \in Threads : pc[u] # "idle" => CpuOf[u] = CpuOf[t]
    BY <1>1, <2>2, CreationAssumption DEF Begin, Creating
  <2> QED
    BY <2>1, <2>2 DEF Alone
<1>2. ASSUME NEW t \in Threads, pc[t] # "idle", UNCHANGED apart,
             \A u \in Threads : u # t => pc'[u] = pc[u]
      PROVE  Alone' /\ (apart' => apart)
  BY <1>2 DEF Alone
<1>3. ASSUME NEW t \in Threads, Verify(t)
      PROVE  IsFiniteSet(pools)' /\ Alone' /\ (apart' => apart)
  <2>1. pools' = pools \/ \E p : pools' = pools \cup {p}
    BY <1>3 DEF Verify
  <2>2. pc[t] # "idle" /\ UNCHANGED apart /\ \A u \in Threads : u # t => pc'[u] = pc[u]
    BY <1>3 DEF Verify, Store, Continue, Goto, TypeInv
  <2> QED
    BY <1>2, <2>1, <2>2, FS_AddElement
<1>4. ASSUME NEW t \in Threads,
             CountTest(t) \/ SpaceTest(t) \/ TakeAp(t) \/ MoveAp(t) \/ MoveCp(t)
               \/ TakeCp(t) \/ StoreHandle(t)
      PROVE  pools' = pools /\ Alone' /\ (apart' => apart)
  <2>1. /\ pc[t] # "idle" /\ UNCHANGED <<apart, pools>>
        /\ \A u \in Threads : u # t => pc'[u] = pc[u]
    BY <1>4 DEF CountTest, SpaceTest, TakeAp, MoveAp, MoveCp, TakeCp,
                StoreHandle, Store, Continue, Goto, TypeInv
  <2> QED
    BY <1>2, <2>1
<1>5. ASSUME NEW t \in Threads, ListStep(t)
      PROVE  pools' = pools /\ Alone' /\ (apart' => apart)
  <2>1. /\ pc[t] # "idle" /\ UNCHANGED <<apart, pools>>
        /\ \A u \in Threads : u # t => pc'[u] = pc[u]
    BY <1>5, ListStepFrame DEF After
  <2> QED
    BY <1>2, <2>1
<1>6. CASE UNCHANGED vars
  BY <1>6 DEF vars, Alone
<1> QED
  BY <1>1, <1>3, <1>4, <1>5, <1>6 DEF Next, ListStep

LEMMA ListInvStep ==
  ASSUME TypeInv, ListType, Exclusive, CreateInv, MemoryInv, ListInv, [Next]_vars
  PROVE  ListInv'
<1> USE DEF ghosts, shared, list
<1>1. IsFiniteSet(pools)' /\ Alone' /\ (apart' => apart) /\ Alone
  BY AloneStep DEF ListInv
<1> SUFFICES ASSUME AllSerial', ~overrun'
             PROVE  Nodes' /\ Ordered' /\ (apart' => Whole')
  BY <1>1 DEF ListInv
<1>2. AllSerial
  BY StepFrame DEF AllSerial
<1>3. ~overrun
  BY DEF Next, vars, Begin, CountTest, SpaceTest, TakeAp, MoveAp, MoveCp, TakeCp, Verify,
         TestFirst, SetFirst, TestLast, Link, SetLast, InitPool, StoreHandle
<1>4. Nodes /\ Ordered /\ (apart => Whole)
  BY <1>2, <1>3 DEF ListInv
<1>5. ASSUME NEW t \in Threads, UNCHANGED <<list, pools>>,
             pc[t] \notin After \ {"store"}, pc'[t] \notin After \ {"store"},
             \A u \in Threads : u # t => pc'[u] = pc[u] /\ mine'[u] = mine[u]
      PROVE  Nodes' /\ Ordered' /\ (apart' => Whole')
  <2>1. \A u \in Threads : pc[u] \in After \ {"store"} \/ pc'[u] \in After \ {"store"} =>
          pc'[u] = pc[u] /\ mine'[u] = mine[u]
    BY <1>5
  <2> QED
    BY <1>1, <1>4, <1>5, <2>1, OffListKeeps
<1>6. ASSUME NEW t \in Threads, NEW i \in Types, Begin(t, i)
      PROVE  Nodes' /\ Ordered' /\ (apart' => Whole')
  <2>1. /\ UNCHANGED <<list, pools>> /\ pc[t] = "idle" /\ pc'[t] = "count"
        /\ \A u \in Threads : u # t => pc'[u] = pc[u] /\ mine'[u] = mine[u]
    BY <1>6 DEF Begin, Goto, TypeInv
  <2> QED
    BY <1>5, <2>1 DEF After
<1>7. ASSUME NEW t \in Threads,
             CountTest(t) \/ SpaceTest(t) \/ TakeAp(t) \/ MoveAp(t) \/ MoveCp(t)
               \/ TakeCp(t) \/ StoreHandle(t)
      PROVE  Nodes' /\ Ordered' /\ (apart' => Whole')
  <2>1. /\ UNCHANGED <<list, pools>> /\ pc[t] \in Before \cup {"store"}
        /\ pc'[t] \in Before \cup {"idle"}
        /\ \A u \in Threads : u # t => pc'[u] = pc[u] /\ mine'[u] = mine[u]
    BY <1>7 DEF CountTest, SpaceTest, TakeAp, MoveAp, MoveCp, TakeCp,
                StoreHandle, Store, Continue, Goto, TypeInv, Before
  <2> QED
    BY <1>5, <2>1 DEF After, Before
<1>8. CASE UNCHANGED vars
  <2>1. UNCHANGED <<list, pools, pc, mine>>
    BY <1>8 DEF vars
  <2> QED
    BY <1>1, <1>4, <2>1, OffListKeeps
<1>9. ASSUME NEW t \in Threads, Verify(t) \/ ListStep(t)
       PROVE  Nodes' /\ Ordered' /\ (apart' => Whole')
  BY <1>1, <1>2, <1>3, <1>4, <1>9, VerifyKeepsList, TestFirstKeepsList,
     SetFirstKeepsList, TestLastKeepsList, LinkKeepsList, SetLastKeepsList,
     InitPoolKeepsList DEF ListStep
<1> QED
  BY <1>6, <1>7, <1>8, <1>9 DEF Next, ListStep

LEMMA InitList == Init => ListInv
<1> SUFFICES ASSUME Init PROVE ListInv
  OBVIOUS
<1>1. Ats = {} /\ IsFiniteSet(pools) /\ Alone
  BY FS_EmptySet DEF Init, Ats, Alone
<1>2. Nodes
  BY <1>1 DEF Init, Nodes, Unlinked
<1>3. Ordered
  <2>1. [a \in Addresses |-> 0] \in [Addresses -> Nat] /\ \A a \in Addresses : NextPool[a] = 0
    BY DEF Init
  <2> QED
    BY <2>1 DEF Ordered, Ranks
<1>4. Whole
  <2>1. NextPool[LastPool] = 0
    BY CreationAssumption DEF Init, Addresses
  <2> QED
    BY <1>1, <2>1 DEF Init, Whole
<1> QED
  BY <1>1, <1>2, <1>3, <1>4 DEF ListInv

(***************************************************************************)
(* IPC_PoolDumpAll can walk the list that IPC_SmAddPool builds without a   *)
(* lock: it meets only pools and comes to the end, though both CPUs        *)
(* appended at the same time; and it meets every pool if they did not.     *)
(* For any number of pools and any order of the two CPUs' stores.          *)
(***************************************************************************)
THEOREM ListCanBeWalked == Spec => []ListIsSound
<1> DEFINE Inv == TypeInv /\ ListType /\ Exclusive /\ CreateInv /\ MemoryInv /\ ListInv
<1>1. Init => Inv
  BY InitType, InitSerial, InitCreate, InitMemory, InitList
<1>2. ASSUME Inv, [Next]_vars
      PROVE  Inv'
  BY <1>2, TypeStep, StepFrame, CreateStep, MemoryStep, ListInvStep
<1>3. Inv => ListIsSound
  BY ListInvSuffices
<1> QED
  BY <1>1, <1>2, <1>3, PTL DEF Spec
=============================================================================
