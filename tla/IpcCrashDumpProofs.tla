------------------------- MODULE IpcCrashDumpProofs -------------------------
(***************************************************************************)
(* Proofs about the crash dump, for every build, dump device, length of    *)
(* the CP's log, number of retries and of assertions that fail on the AP.  *)
(***************************************************************************)
EXTENDS IpcCrashDump, TLAPS

USE DEF device, PanicOnCpCrash, CpCrashDump

\* Which context can be where.  The notifier's dump needs a panic, and a panic
\* reaches the notifier only in builds that have it.
PanicInv ==
  /\ ap = "up" => ppc = "check"
  /\ ppc # "dumping" => dpc["panic"] = "idle"
  /\ ap = "panic" => CpCrashDump

\* The request word: once the dump is published the CP stores no more codes,
\* and a context that waits or reads has asked since then.  An assertion can
\* only overwrite the request or the answer of the worker.
AskInv ==
  /\ CrashDump => cp \in {"raise crashed", "dumping"}
  /\ cp \in {"raise crashed", "dumping"} => CrashDump
  /\ dumpQueued \/ dpc["worker"] # "idle" => CrashDump
  /\ dpc["panic"] \notin {"idle", "enter", "spin"} => CrashDump
  /\ At("panic", "wait") => CrashCode \in {"cts", "packet"}
  /\ At("worker", "wait") => CrashCode \in {"cts", "packet", "assert"}
  /\ AnswerOrAssert
  /\ CrashCode = "packet" => buf \in 1..End

\* The counter done keeps a second call out.
OnceInv ==
  /\ done = 0 => \A x \in Contexts : dpc[x] \in {"idle", "enter"}
  /\ OneDump

\* The worker runs once, for the first report, and that call is the one that
\* gives up the wake lock the work item has left behind.
LockInv ==
  /\ ap = "up" /\ crashCount = 0 =>
       ~dumpQueued /\ dpc["worker"] = "idle" /\ done = 0
  /\ ap = "up" /\ (dumpQueued \/ dpc["worker"] = "enter") => done = 0
  /\ dumpQueued => dpc["worker"] = "idle"
  /\ ap = "up" /\ lock /\ wpc = "events locked" =>
       queued \/ dumpQueued \/ dpc["worker"] # "idle"
  /\ LockHasOwner

\* Nothing newer than the CP's buffer is logged, and the buffer itself is not
\* while its address is the answer to an open request.
LogInv ==
  /\ \A i \in DOMAIN logged : logged[i] <= buf
  /\ \A x \in Contexts :
       (At(x, "wait") \/ At(x, "read")) /\ CrashCode = "packet"
         => \A i \in DOMAIN logged : logged[i] < buf
  /\ LogInOrder

IInv == TypeOK /\ PanicInv /\ AskInv /\ OnceInv /\ LockInv /\ LogInv

\* The CP answers with its next packet.
LEMMA NextPacket ==
  ASSUME CountType, CpAnswer
  PROVE  buf \in Nat /\ buf' = buf + 1 /\ buf' \in 1..End
BY CrashDumpAssumption DEF CountType, CpAnswer, End

\* Reports are counted from zero, and only the first is a crash.
LEMMA FirstReport ==
  ASSUME CountType, NEW code, CountReport(code)
  PROVE  /\ IsCrash(code) => crashCount = 0 /\ crashCount' # 0
         /\ crashCount' = 0 => crashCount = 0
         /\ crashCount' \in 0..1
<1>1. CASE Reported(code)
  BY <1>1 DEF CountReport, IsCrash, CountType
<1>2. CASE ~Reported(code)
  BY <1>2 DEF CountReport, IsCrash, CountType
<1> QED BY <1>1, <1>2

\* Every call of ProcessCPCrashedDump is counted.
LEMMA EntryIsCounted ==
  ASSUME NEW x \in Contexts, DumpEnter(x)
  PROVE  done' # 0
BY DEF DumpEnter

\* Logged packets are numbers, and the buffer's too.
LEMMA LoggedNat ==
  ASSUME LogType
  PROVE  /\ \A i \in DOMAIN logged : logged[i] \in Nat
         /\ buf \in 1..End => buf \in Nat
BY CrashDumpAssumption DEF LogType, End

\* The packet of an answer is newer than all that are logged.
LEMMA AnswerIsNewer ==
  ASSUME CountType, LogType, CpAnswer, \A i \in DOMAIN logged : logged[i] <= buf
  PROVE  buf' \in Nat /\ \A i \in DOMAIN logged : logged[i] < buf'
<1>1. buf \in Nat /\ buf' = buf + 1
  BY NextPacket
<1>2. \A i \in DOMAIN logged : logged[i] \in Nat
  BY LoggedNat
<1> QED BY <1>1, <1>2

\* What is mapped is the packet of the answer, or nothing of the CP's.
LEMMA MappedPacket ==
  ASSUME CountType, LogType, CrashCode = "packet" => buf \in 1..End
  PROVE  /\ Mapped \in Nat /\ Mapped <= buf /\ buf \in Nat
         /\ Mapped # 0 => CrashCode = "packet" /\ Mapped = buf
         /\ Mapped < End => Append(logged, Mapped) \in Seq(0..Packets)
<1>1. /\ Mapped \in Nat /\ Mapped <= buf /\ buf \in Nat
      /\ Mapped # 0 => CrashCode = "packet" /\ Mapped = buf
      /\ Mapped < End => Mapped \in 0..Packets
  BY CrashDumpAssumption DEF Mapped, CountType, End
<1> QED BY <1>1 DEF LogType

\* Appending nothing of the CP's, or a packet newer than all that are logged,
\* keeps the order.
LEMMA AppendNewer ==
  ASSUME LogType, LogInOrder, buf \in Nat, NEW v \in Nat, v <= buf,
         \A i \in DOMAIN logged : logged[i] <= buf,
         v # 0 => \A i \in DOMAIN logged : logged[i] < v,
         logged' = Append(logged, v), buf' = buf
  PROVE  LogInOrder' /\ \A i \in DOMAIN logged' : logged'[i] <= buf'
<1>1. /\ Len(logged) \in Nat /\ DOMAIN logged = 1..Len(logged)
      /\ \A i \in DOMAIN logged : logged[i] \in Nat
  BY CrashDumpAssumption DEF LogType
<1>2. /\ DOMAIN logged' = 1..Len(logged)+1
      /\ \A i \in 1..Len(logged) : logged'[i] = logged[i]
      /\ logged'[Len(logged)+1] = v
  BY DEF LogType
<1>3. ASSUME NEW i \in DOMAIN logged', NEW j \in DOMAIN logged', i < j, logged'[j] # 0
      PROVE  logged'[i] < logged'[j]
  <2>1. i \in 1..Len(logged)
    BY <1>1, <1>2, <1>3
  <2>2. CASE j = Len(logged) + 1
    BY <1>1, <1>2, <1>3, <2>1, <2>2
  <2>3. CASE j \in 1..Len(logged)
    BY <1>1, <1>2, <1>3, <2>1, <2>3 DEF LogInOrder
  <2> QED BY <1>1, <1>2, <2>2, <2>3
<1>4. ASSUME NEW i \in DOMAIN logged'
      PROVE  logged'[i] <= buf'
  <2>1. CASE i = Len(logged) + 1
    BY <1>2, <2>1
  <2>2. CASE i \in 1..Len(logged)
    BY <1>1, <1>2, <2>2
  <2> QED BY <1>1, <1>2, <2>1, <2>2
<1> QED BY <1>3, <1>4 DEF LogInOrder

LEMMA FlagStep ==
  ASSUME FlagType, [Next]_vars
  PROVE  FlagType'
<1> USE CrashDumpAssumption
        DEF FlagType, shared, cpVars, workVars, panicVars, dumpVars
<1>1. CASE CpSend \/ CpAnalyse \/ CpSignalCode \/ CpSignalDump \/ CpRaise \/
          CpAnswer
  BY <1>1 DEF CpSend, CpAnalyse, CpSignalCode, CpSignalDump, CpRaise, CpAnswer
<1>2. CASE WorkCheck
  BY <1>2 DEF WorkCheck, CountReport, Reported, IsCrash, Abort
<1>3. CASE WorkEvents
  BY <1>3 DEF WorkEvents
<1>4. CASE Interrupt \/ WorkLoad \/ WorkUnlock
  BY <1>4 DEF Interrupt, WorkLoad, WorkUnlock
<1>5. CASE ApAssert \/ ApPanic \/ PanicCheck \/ PanicAssert \/ PanicDump \/ DumpStart
  BY <1>5 DEF ApAssert, ApPanic, Abort, PanicCheck, CountReport, Reported, IsCrash,
     PanicAssert, PanicDump, DumpStart
<1>6. ASSUME NEW x \in Contexts,
             DumpOpen(x)
      PROVE  FlagType'
  BY <1>6 DEF DumpOpen
<1>7. ASSUME NEW x \in Contexts,
             DumpEnter(x) \/ DumpSpin(x) \/ DumpSummary(x) \/
             DumpClearToSend(x) \/ DumpTest(x) \/ DumpRead(x)
             \/ DumpRam(x) \/ DumpCleanup(x)
      PROVE  FlagType'
  BY <1>7 DEF DumpEnter, Return, DumpSpin, DumpSummary, DumpClearToSend,
     DumpTest, DumpRead, Writable, DumpRam, Abort, DumpCleanup
<1>8. CASE UNCHANGED vars
  BY <1>8 DEF vars
<1> QED
  BY <1>1, <1>2, <1>3, <1>4, <1>5, <1>6, <1>7, <1>8 DEF Next, CP, Work, Panic,
     Dump

LEMMA StepStep ==
  ASSUME StepType, [Next]_vars
  PROVE  StepType'
<1> USE CrashDumpAssumption
        DEF StepType, Steps, Contexts, At, Goto, shared, cpVars, workVars,
            panicVars, dumpVars
<1>1. CASE CpSend
  BY <1>1 DEF CpSend
<1>2. CASE CpAnalyse
  BY <1>2 DEF CpAnalyse
<1>3. CASE CpSignalCode
  BY <1>3 DEF CpSignalCode
<1>4. CASE CpSignalDump
  BY <1>4 DEF CpSignalDump
<1>5. CASE CpRaise
  BY <1>5 DEF CpRaise
<1>6. CASE CpAnswer
  BY <1>6 DEF CpAnswer
<1>7. CASE Interrupt
  BY <1>7 DEF Interrupt
<1>8. CASE WorkLoad
  BY <1>8 DEF WorkLoad
<1>9. CASE WorkCheck
  BY <1>9 DEF WorkCheck, CountReport, Reported, IsCrash, Abort
<1>10. CASE WorkEvents
  BY <1>10 DEF WorkEvents
<1>11. CASE WorkUnlock
  BY <1>11 DEF WorkUnlock
<1>12. CASE ApPanic
  BY <1>12 DEF ApPanic, Abort
<1>13. CASE PanicCheck
  BY <1>13 DEF PanicCheck, CountReport, Reported, IsCrash
<1>14. CASE ApAssert \/ PanicAssert
  <2>1. CASE ApAssert
    BY <2>1 DEF ApAssert
  <2>2. CASE PanicAssert
    BY <2>2 DEF PanicAssert
  <2> QED BY <1>14, <2>1, <2>2
<1>15. CASE PanicDump
  BY <1>15 DEF PanicDump
<1>16. CASE DumpStart
  BY <1>16 DEF DumpStart
<1>17. ASSUME NEW x \in Contexts,
             DumpEnter(x)
      PROVE  StepType'
  BY <1>17 DEF DumpEnter, Return
<1>18. ASSUME NEW x \in Contexts,
             DumpSpin(x)
      PROVE  StepType'
  BY <1>18 DEF DumpSpin
<1>19. ASSUME NEW x \in Contexts,
             DumpSummary(x)
      PROVE  StepType'
  BY <1>19 DEF DumpSummary
<1>20. ASSUME NEW x \in Contexts,
             DumpOpen(x)
      PROVE  StepType'
  BY <1>20 DEF DumpOpen
<1>21. ASSUME NEW x \in Contexts,
             DumpClearToSend(x)
      PROVE  StepType'
  BY <1>21 DEF DumpClearToSend
<1>23. ASSUME NEW x \in Contexts,
             DumpTest(x)
      PROVE  StepType'
  BY <1>23 DEF DumpTest
<1>24. ASSUME NEW x \in Contexts,
             DumpRead(x)
      PROVE  StepType'
  BY <1>24 DEF DumpRead, Writable
<1>25. ASSUME NEW x \in Contexts,
             DumpRam(x)
      PROVE  StepType'
  BY <1>25 DEF DumpRam, Abort
<1>26. ASSUME NEW x \in Contexts,
             DumpCleanup(x)
      PROVE  StepType'
  BY <1>26 DEF DumpCleanup, Return, Abort
<1>27. CASE UNCHANGED vars
  BY <1>27 DEF vars
<1> QED
  BY <1>1, <1>2, <1>3, <1>4, <1>5, <1>6, <1>7, <1>8, <1>9, <1>10, <1>11,
     <1>12, <1>13, <1>14, <1>15, <1>16, <1>17, <1>18, <1>19, <1>20, <1>21,
     <1>23, <1>24, <1>25, <1>26, <1>27 DEF Next, CP, Work, Panic, Dump

LEMMA CodeStep ==
  ASSUME CodeType, [Next]_vars
  PROVE  CodeType'
<1> USE CrashDumpAssumption
        DEF CodeType, shared, cpVars, workVars, panicVars, dumpVars
<1>1. CASE CpSend \/ CpAnalyse \/ CpSignalCode \/ CpSignalDump \/ CpRaise \/
          CpAnswer
  BY <1>1 DEF CpSend, CpAnalyse, CpSignalCode, CpSignalDump, CpRaise, CpAnswer
<1>2. CASE Interrupt \/ WorkLoad \/ WorkCheck \/ WorkEvents \/ WorkUnlock
  BY <1>2 DEF Interrupt, WorkLoad, WorkCheck, CountReport, Reported, IsCrash,
     Abort, WorkEvents, WorkUnlock
<1>3. CASE ApAssert \/ ApPanic \/ PanicCheck \/ PanicAssert \/ PanicDump \/ DumpStart
  BY <1>3 DEF ApAssert, ApPanic, Abort, PanicCheck, CountReport, Reported, IsCrash,
     PanicAssert, PanicDump, DumpStart
<1>4. ASSUME NEW x \in Contexts,
             DumpEnter(x) \/ DumpSpin(x) \/ DumpSummary(x) \/ DumpOpen(x) \/
             DumpClearToSend(x) \/ DumpTest(x) \/ DumpRead(x)
             \/ DumpRam(x) \/ DumpCleanup(x)
      PROVE  CodeType'
  BY <1>4 DEF DumpEnter, Return, DumpSpin, DumpSummary, DumpOpen,
     DumpClearToSend, DumpTest, DumpRead, Writable, DumpRam, Abort,
     DumpCleanup
<1>5. CASE UNCHANGED vars
  BY <1>5 DEF vars
<1> QED
  BY <1>1, <1>2, <1>3, <1>4, <1>5 DEF Next, CP, Work, Panic, Dump

LEMMA CountStep ==
  ASSUME CountType, [Next]_vars
  PROVE  CountType'
<1> USE CrashDumpAssumption
        DEF CountType, End, shared, cpVars, workVars, panicVars, dumpVars
<1>1. CASE CpAnswer
  BY <1>1 DEF CpAnswer
<1>2. CASE CpSend \/ CpAnalyse \/ CpSignalCode \/ CpSignalDump \/ CpRaise
  BY <1>2 DEF CpSend, CpAnalyse, CpSignalCode, CpSignalDump, CpRaise
<1>3. CASE WorkCheck
  <2>1. crashCount' \in 0..1
    BY <1>3, FirstReport DEF WorkCheck
  <2> QED BY <1>3, <2>1 DEF WorkCheck, Abort
<1>4. CASE Interrupt \/ WorkLoad \/ WorkEvents \/ WorkUnlock
  BY <1>4 DEF Interrupt, WorkLoad, WorkEvents, WorkUnlock
<1>5. CASE PanicCheck
  <2>1. crashCount' \in 0..1
    BY <1>5, FirstReport DEF PanicCheck
  <2> QED BY <1>5, <2>1 DEF PanicCheck
<1>6. CASE ApAssert \/ ApPanic \/ PanicAssert \/ PanicDump \/ DumpStart
  BY <1>6 DEF ApAssert, ApPanic, Abort, PanicAssert, PanicDump, DumpStart
<1>7. ASSUME NEW x \in Contexts,
             DumpEnter(x)
      PROVE  CountType'
  BY <1>7 DEF DumpEnter, Return
<1>8. ASSUME NEW x \in Contexts,
             DumpOpen(x)
      PROVE  CountType'
  BY <1>8 DEF DumpOpen
<1>9. ASSUME NEW x \in Contexts,
             DumpTest(x)
      PROVE  CountType'
  BY <1>9 DEF DumpTest
<1>10. ASSUME NEW x \in Contexts,
             DumpSpin(x) \/ DumpSummary(x) \/ DumpClearToSend(x) \/
             DumpRead(x) \/ DumpRam(x) \/ DumpCleanup(x)
      PROVE  CountType'
  BY <1>10 DEF DumpSpin, DumpSummary, DumpClearToSend, DumpRead,
     Writable, DumpRam, Abort, DumpCleanup, Return
<1>11. CASE UNCHANGED vars
  BY <1>11 DEF vars
<1> QED
  BY <1>1, <1>2, <1>3, <1>4, <1>5, <1>6, <1>7, <1>8, <1>9, <1>10, <1>11 DEF
     Next, CP, Work, Panic, Dump

LEMMA LogTypeStep ==
  ASSUME CountType, LogType, AskInv, [Next]_vars
  PROVE  LogType'
<1> USE CrashDumpAssumption
        DEF LogType, End, shared, cpVars, workVars, panicVars, dumpVars
<1>1. CASE CpSend \/ CpAnalyse \/ CpSignalCode \/ CpSignalDump \/ CpRaise \/
          CpAnswer
  BY <1>1 DEF CpSend, CpAnalyse, CpSignalCode, CpSignalDump, CpRaise, CpAnswer
<1>2. CASE Interrupt \/ WorkLoad \/ WorkCheck \/ WorkEvents \/ WorkUnlock
  BY <1>2 DEF Interrupt, WorkLoad, WorkCheck, CountReport, Reported, IsCrash,
     Abort, WorkEvents, WorkUnlock
<1>3. CASE ApAssert \/ ApPanic \/ PanicCheck \/ PanicAssert \/ PanicDump \/ DumpStart
  BY <1>3 DEF ApAssert, ApPanic, Abort, PanicCheck, CountReport, Reported, IsCrash,
     PanicAssert, PanicDump, DumpStart
<1>4. ASSUME NEW x \in Contexts,
             DumpRead(x)
      PROVE  LogType'
  <2>1. Mapped < End => Append(logged, Mapped) \in Seq(0..Packets)
    BY MappedPacket DEF AskInv
  <2> QED BY <1>4, <2>1 DEF DumpRead
<1>5. ASSUME NEW x \in Contexts,
             DumpEnter(x) \/ DumpSpin(x) \/ DumpSummary(x) \/ DumpOpen(x) \/
             DumpClearToSend(x) \/ DumpTest(x) \/ DumpRam(x) \/
             DumpCleanup(x)
      PROVE  LogType'
  BY <1>5 DEF DumpEnter, Return, DumpSpin, DumpSummary, DumpOpen,
     DumpClearToSend, DumpTest, DumpRam, Abort, DumpCleanup
<1>6. CASE UNCHANGED vars
  BY <1>6 DEF vars
<1> QED
  BY <1>1, <1>2, <1>3, <1>4, <1>5, <1>6 DEF Next, CP, Work, Panic, Dump

LEMMA PanicStep ==
  ASSUME StepType, PanicInv, [Next]_vars
  PROVE  PanicInv'
<1> USE CrashDumpAssumption
        DEF StepType, PanicInv, Contexts, At, Goto, shared, cpVars, workVars,
            panicVars, dumpVars
<1>1. CASE CpSend
  BY <1>1 DEF CpSend
<1>2. CASE CpAnalyse \/ CpSignalCode \/ CpSignalDump \/ CpRaise \/ CpAnswer
  BY <1>2 DEF CpAnalyse, CpSignalCode, CpSignalDump, CpRaise, CpAnswer
<1>3. CASE WorkCheck
  BY <1>3 DEF WorkCheck, CountReport, Reported, IsCrash, Abort
<1>4. CASE Interrupt \/ WorkLoad \/ WorkEvents \/ WorkUnlock
  BY <1>4 DEF Interrupt, WorkLoad, WorkEvents, WorkUnlock
<1>5. CASE ApPanic
  BY <1>5 DEF ApPanic, Abort
<1>6. CASE PanicCheck
  BY <1>6 DEF PanicCheck, CountReport, Reported, IsCrash
<1>7. CASE ApAssert \/ PanicAssert
  BY <1>7 DEF ApAssert, PanicAssert
<1>8. CASE PanicDump
  BY <1>8 DEF PanicDump
<1>9. CASE DumpStart
  BY <1>9 DEF DumpStart
<1>10. ASSUME NEW x \in Contexts,
             DumpEnter(x)
      PROVE  PanicInv'
  BY <1>10 DEF DumpEnter, Return
<1>11. ASSUME NEW x \in Contexts,
             DumpSpin(x)
      PROVE  PanicInv'
  BY <1>11 DEF DumpSpin
<1>12. ASSUME NEW x \in Contexts,
             DumpSummary(x)
      PROVE  PanicInv'
  BY <1>12 DEF DumpSummary
<1>13. ASSUME NEW x \in Contexts,
             DumpOpen(x)
      PROVE  PanicInv'
  BY <1>13 DEF DumpOpen
<1>14. ASSUME NEW x \in Contexts,
             DumpClearToSend(x)
      PROVE  PanicInv'
  BY <1>14 DEF DumpClearToSend
<1>16. ASSUME NEW x \in Contexts,
             DumpTest(x)
      PROVE  PanicInv'
  BY <1>16 DEF DumpTest
<1>17. ASSUME NEW x \in Contexts,
             DumpRead(x)
      PROVE  PanicInv'
  BY <1>17 DEF DumpRead, Writable
<1>18. ASSUME NEW x \in Contexts,
             DumpRam(x)
      PROVE  PanicInv'
  BY <1>18 DEF DumpRam, Abort
<1>19. ASSUME NEW x \in Contexts,
             DumpCleanup(x)
      PROVE  PanicInv'
  BY <1>19 DEF DumpCleanup, Return, Abort
<1>20. CASE UNCHANGED vars
  BY <1>20 DEF vars
<1> QED
  BY <1>1, <1>2, <1>3, <1>4, <1>5, <1>6, <1>7, <1>8, <1>9, <1>10, <1>11,
     <1>12, <1>13, <1>14, <1>16, <1>17, <1>18, <1>19, <1>20 DEF Next,
     CP, Work, Panic, Dump

LEMMA AskStep ==
  ASSUME FlagType, StepType, CountType, PanicInv, AskInv, [Next]_vars
  PROVE  AskInv'
<1> USE CrashDumpAssumption
        DEF FlagType, StepType, PanicInv, AskInv, AnswerOrAssert, Contexts,
            At, Goto, shared, cpVars, workVars, panicVars, dumpVars
<1>1. CASE CpSend
  BY <1>1 DEF CpSend
<1>2. CASE CpAnalyse
  BY <1>2 DEF CpAnalyse
<1>3. CASE CpSignalCode
  BY <1>3 DEF CpSignalCode
<1>4. CASE CpSignalDump
  BY <1>4 DEF CpSignalDump
<1>5. CASE CpRaise
  BY <1>5 DEF CpRaise
<1>6. CASE CpAnswer
  <2>1. buf' \in 1..End
    BY <1>6, NextPacket
  <2> QED BY <1>6, <2>1 DEF CpAnswer
<1>7. CASE Interrupt
  BY <1>7 DEF Interrupt
<1>8. CASE WorkLoad
  BY <1>8 DEF WorkLoad
<1>9. CASE WorkCheck
  BY <1>9 DEF WorkCheck, CountReport, Reported, IsCrash, Abort
<1>10. CASE WorkEvents
  BY <1>10 DEF WorkEvents
<1>11. CASE WorkUnlock
  BY <1>11 DEF WorkUnlock
<1>12. CASE ApPanic
  BY <1>12 DEF ApPanic, Abort
<1>13. CASE PanicCheck
  BY <1>13 DEF PanicCheck, CountReport, Reported, IsCrash
<1>14. CASE ApAssert \/ PanicAssert
  <2>1. CASE ApAssert
    BY <2>1 DEF ApAssert
  <2>2. CASE PanicAssert
    BY <2>2 DEF PanicAssert
  <2> QED BY <1>14, <2>1, <2>2
<1>15. CASE PanicDump
  BY <1>15 DEF PanicDump
<1>16. CASE DumpStart
  BY <1>16 DEF DumpStart
<1>17. ASSUME NEW x \in Contexts,
             DumpEnter(x)
      PROVE  AskInv'
  BY <1>17 DEF DumpEnter, Return
<1>18. ASSUME NEW x \in Contexts,
             DumpSpin(x)
      PROVE  AskInv'
  BY <1>18 DEF DumpSpin
<1>19. ASSUME NEW x \in Contexts,
             DumpSummary(x)
      PROVE  AskInv'
  BY <1>19 DEF DumpSummary
<1>20. ASSUME NEW x \in Contexts,
             DumpOpen(x)
      PROVE  AskInv'
  BY <1>20 DEF DumpOpen
<1>21. ASSUME NEW x \in Contexts,
             DumpClearToSend(x)
      PROVE  AskInv'
  BY <1>21 DEF DumpClearToSend
<1>23. ASSUME NEW x \in Contexts,
             DumpTest(x)
      PROVE  AskInv'
  BY <1>23 DEF DumpTest
<1>24. ASSUME NEW x \in Contexts,
             DumpRead(x)
      PROVE  AskInv'
  BY <1>24 DEF DumpRead, Writable
<1>25. ASSUME NEW x \in Contexts,
             DumpRam(x)
      PROVE  AskInv'
  BY <1>25 DEF DumpRam, Abort
<1>26. ASSUME NEW x \in Contexts,
             DumpCleanup(x)
      PROVE  AskInv'
  BY <1>26 DEF DumpCleanup, Return, Abort
<1>27. CASE UNCHANGED vars
  BY <1>27 DEF vars
<1> QED
  BY <1>1, <1>2, <1>3, <1>4, <1>5, <1>6, <1>7, <1>8, <1>9, <1>10, <1>11,
     <1>12, <1>13, <1>14, <1>15, <1>16, <1>17, <1>18, <1>19, <1>20, <1>21,
     <1>23, <1>24, <1>25, <1>26, <1>27 DEF Next, CP, Work, Panic, Dump

LEMMA OnceStep ==
  ASSUME StepType, CountType, OnceInv, [Next]_vars
  PROVE  OnceInv'
<1> USE CrashDumpAssumption
        DEF StepType, OnceInv, OneDump, Contexts, At, Goto, shared, cpVars,
            workVars, panicVars, dumpVars
<1>1. CASE CpSend \/ CpAnalyse \/ CpSignalCode \/ CpSignalDump \/ CpRaise \/
          CpAnswer
  BY <1>1 DEF CpSend, CpAnalyse, CpSignalCode, CpSignalDump, CpRaise, CpAnswer
<1>2. CASE Interrupt \/ WorkLoad \/ WorkCheck \/ WorkEvents \/ WorkUnlock
  BY <1>2 DEF Interrupt, WorkLoad, WorkCheck, CountReport, Reported, IsCrash,
     Abort, WorkEvents, WorkUnlock
<1>3. CASE ApAssert \/ ApPanic \/ PanicCheck \/ PanicAssert \/ PanicDump \/ DumpStart
  BY <1>3 DEF ApAssert, ApPanic, Abort, PanicCheck, CountReport, Reported, IsCrash,
     PanicAssert, PanicDump, DumpStart
<1>4. ASSUME NEW x \in Contexts,
             DumpEnter(x)
      PROVE  OnceInv'
  <2>1. CASE done = 0
    <3>1. dpc' = [dpc EXCEPT ![x] = "spin"]
      BY <1>4, <2>1 DEF DumpEnter
    <3>2. \A y \in Contexts : y # x => dpc'[y] \in {"idle", "enter"}
      BY <2>1, <3>1
    <3>3. \E y \in Contexts : y # x
      OBVIOUS
    <3>4. OneDump'
      BY <3>2, <3>3
    <3>5. done' # 0
      BY <1>4, EntryIsCounted
    <3> HIDE DEF OneDump
    <3> QED BY <3>4, <3>5
  <2>2. CASE done # 0
    <3>1. dpc' = [dpc EXCEPT ![x] = "idle"]
      BY <1>4, <2>2 DEF DumpEnter, Return
    <3>2. dpc'[x] = "idle"
      BY <3>1
    <3>3. OneDump'
      BY <3>2
    <3>4. done' # 0
      BY <1>4, EntryIsCounted
    <3> HIDE DEF OneDump
    <3> QED BY <3>3, <3>4
  <2> QED BY <2>1, <2>2
<1>5. ASSUME NEW x \in Contexts,
             DumpSpin(x)
      PROVE  OnceInv'
  BY <1>5 DEF DumpSpin
<1>6. ASSUME NEW x \in Contexts,
             DumpSummary(x)
      PROVE  OnceInv'
  BY <1>6 DEF DumpSummary
<1>7. ASSUME NEW x \in Contexts,
             DumpOpen(x)
      PROVE  OnceInv'
  BY <1>7 DEF DumpOpen
<1>8. ASSUME NEW x \in Contexts,
             DumpClearToSend(x)
      PROVE  OnceInv'
  BY <1>8 DEF DumpClearToSend
<1>10. ASSUME NEW x \in Contexts,
             DumpTest(x)
      PROVE  OnceInv'
  BY <1>10 DEF DumpTest
<1>11. ASSUME NEW x \in Contexts,
             DumpRead(x)
      PROVE  OnceInv'
  BY <1>11 DEF DumpRead, Writable
<1>12. ASSUME NEW x \in Contexts,
             DumpRam(x)
      PROVE  OnceInv'
  BY <1>12 DEF DumpRam, Abort
<1>13. ASSUME NEW x \in Contexts,
             DumpCleanup(x)
      PROVE  OnceInv'
  BY <1>13 DEF DumpCleanup, Return, Abort
<1>14. CASE UNCHANGED vars
  BY <1>14 DEF vars
<1> QED
  BY <1>1, <1>2, <1>3, <1>4, <1>5, <1>6, <1>7, <1>8, <1>10, <1>11,
     <1>12, <1>13, <1>14 DEF Next, CP, Work, Panic, Dump

LEMMA LockStep ==
  ASSUME FlagType, StepType, CountType, PanicInv, LockInv, [Next]_vars
  PROVE  LockInv'
<1> USE CrashDumpAssumption
        DEF FlagType, StepType, PanicInv, LockInv, LockHasOwner, Contexts, At,
            Goto, shared, cpVars, workVars, panicVars, dumpVars
<1>1. CASE CpSend
  BY <1>1 DEF CpSend
<1>2. CASE CpAnalyse
  BY <1>2 DEF CpAnalyse
<1>3. CASE CpSignalCode
  BY <1>3 DEF CpSignalCode
<1>4. CASE CpSignalDump
  BY <1>4 DEF CpSignalDump
<1>5. CASE CpRaise
  BY <1>5 DEF CpRaise
<1>6. CASE CpAnswer
  BY <1>6 DEF CpAnswer
<1>7. CASE Interrupt
  BY <1>7 DEF Interrupt
<1>8. CASE WorkLoad
  BY <1>8 DEF WorkLoad
<1>9. CASE WorkCheck
  <2>1. CASE IsCrash(seen) /\ device = "MTD"
    BY <1>9, <2>1 DEF WorkCheck, Abort
  <2>2. CASE IsCrash(seen) /\ device # "MTD"
    <3>1. crashCount = 0 /\ crashCount' # 0
      BY <1>9, <2>2, FirstReport DEF WorkCheck
    <3>2. dpc["worker"] = "idle" /\ done = 0
      BY <1>9, <3>1 DEF WorkCheck
    <3>3. /\ dumpQueued' = TRUE /\ ap = "up" /\ wpc' = "events locked"
          /\ UNCHANGED <<ap, dpc, done>>
      BY <1>9, <2>2 DEF WorkCheck
    <3> QED BY <3>1, <3>2, <3>3
  <2>3. CASE ~IsCrash(seen)
    <3>1. crashCount' = 0 => crashCount = 0
      BY <1>9, FirstReport DEF WorkCheck
    <3> QED BY <1>9, <2>3, <3>1 DEF WorkCheck
  <2> QED BY <2>1, <2>2, <2>3
<1>10. CASE WorkEvents
  BY <1>10 DEF WorkEvents
<1>11. CASE WorkUnlock
  BY <1>11 DEF WorkUnlock
<1>12. CASE ApPanic
  BY <1>12 DEF ApPanic, Abort
<1>13. CASE PanicCheck
  BY <1>13 DEF PanicCheck, CountReport, Reported, IsCrash
<1>14. CASE ApAssert \/ PanicAssert
  <2>1. CASE ApAssert
    BY <2>1 DEF ApAssert
  <2>2. CASE PanicAssert
    BY <2>2 DEF PanicAssert
  <2> QED BY <1>14, <2>1, <2>2
<1>15. CASE PanicDump
  BY <1>15 DEF PanicDump
<1>16. CASE DumpStart
  BY <1>16 DEF DumpStart
<1>17. ASSUME NEW x \in Contexts,
             DumpEnter(x)
      PROVE  LockInv'
  BY <1>17 DEF DumpEnter, Return
<1>18. ASSUME NEW x \in Contexts,
             DumpSpin(x)
      PROVE  LockInv'
  BY <1>18 DEF DumpSpin
<1>19. ASSUME NEW x \in Contexts,
             DumpSummary(x)
      PROVE  LockInv'
  BY <1>19 DEF DumpSummary
<1>20. ASSUME NEW x \in Contexts,
             DumpOpen(x)
      PROVE  LockInv'
  BY <1>20 DEF DumpOpen
<1>21. ASSUME NEW x \in Contexts,
             DumpClearToSend(x)
      PROVE  LockInv'
  BY <1>21 DEF DumpClearToSend
<1>23. ASSUME NEW x \in Contexts,
             DumpTest(x)
      PROVE  LockInv'
  BY <1>23 DEF DumpTest
<1>24. ASSUME NEW x \in Contexts,
             DumpRead(x)
      PROVE  LockInv'
  BY <1>24 DEF DumpRead, Writable
<1>25. ASSUME NEW x \in Contexts,
             DumpRam(x)
      PROVE  LockInv'
  BY <1>25 DEF DumpRam, Abort
<1>26. ASSUME NEW x \in Contexts,
             DumpCleanup(x)
      PROVE  LockInv'
  BY <1>26 DEF DumpCleanup, Return, Abort
<1>27. CASE UNCHANGED vars
  BY <1>27 DEF vars
<1> QED
  BY <1>1, <1>2, <1>3, <1>4, <1>5, <1>6, <1>7, <1>8, <1>9, <1>10, <1>11,
     <1>12, <1>13, <1>14, <1>15, <1>16, <1>17, <1>18, <1>19, <1>20, <1>21,
     <1>23, <1>24, <1>25, <1>26, <1>27 DEF Next, CP, Work, Panic, Dump

LEMMA LogStep ==
  ASSUME StepType, CountType, LogType, PanicInv, AskInv, LogInv, [Next]_vars
  PROVE  LogInv'
<1> USE CrashDumpAssumption
        DEF StepType, CountType, LogType, PanicInv, LogInv, LogInOrder, End,
            Contexts, At, Goto, shared, cpVars, workVars, panicVars, dumpVars
<1>1. CASE CpSend
  BY <1>1 DEF CpSend
<1>2. CASE CpAnalyse
  BY <1>2 DEF CpAnalyse
<1>3. CASE CpSignalCode
  BY <1>3 DEF CpSignalCode
<1>4. CASE CpSignalDump
  BY <1>4 DEF CpSignalDump
<1>5. CASE CpRaise
  BY <1>5 DEF CpRaise
<1>6. CASE CpAnswer
  <2>1. buf' \in Nat /\ \A i \in DOMAIN logged : logged[i] < buf'
    BY <1>6, AnswerIsNewer
  <2>2. UNCHANGED <<logged, dpc, ap>>
    BY <1>6 DEF CpAnswer
  <2>3. \A i \in DOMAIN logged : logged[i] \in Nat
    BY LoggedNat
  <2> HIDE DEF LogType, CountType, StepType, PanicInv
  <2> QED BY <2>1, <2>2, <2>3
<1>7. CASE Interrupt
  BY <1>7 DEF Interrupt
<1>8. CASE WorkLoad
  BY <1>8 DEF WorkLoad
<1>9. CASE WorkCheck
  BY <1>9 DEF WorkCheck, CountReport, Reported, IsCrash, Abort
<1>10. CASE WorkEvents
  BY <1>10 DEF WorkEvents
<1>11. CASE WorkUnlock
  BY <1>11 DEF WorkUnlock
<1>12. CASE ApPanic
  BY <1>12 DEF ApPanic, Abort
<1>13. CASE PanicCheck
  BY <1>13 DEF PanicCheck, CountReport, Reported, IsCrash
<1>14. CASE ApAssert \/ PanicAssert
  <2>1. CASE ApAssert
    BY <2>1 DEF ApAssert
  <2>2. CASE PanicAssert
    BY <2>2 DEF PanicAssert
  <2> QED BY <1>14, <2>1, <2>2
<1>15. CASE PanicDump
  BY <1>15 DEF PanicDump
<1>16. CASE DumpStart
  BY <1>16 DEF DumpStart
<1>17. ASSUME NEW x \in Contexts,
             DumpEnter(x)
      PROVE  LogInv'
  BY <1>17 DEF DumpEnter, Return
<1>18. ASSUME NEW x \in Contexts,
             DumpSpin(x)
      PROVE  LogInv'
  BY <1>18 DEF DumpSpin
<1>19. ASSUME NEW x \in Contexts,
             DumpSummary(x)
      PROVE  LogInv'
  BY <1>19 DEF DumpSummary
<1>20. ASSUME NEW x \in Contexts,
             DumpOpen(x)
      PROVE  LogInv'
  BY <1>20 DEF DumpOpen
<1>21. ASSUME NEW x \in Contexts,
             DumpClearToSend(x)
      PROVE  LogInv'
  BY <1>21 DEF DumpClearToSend
<1>23. ASSUME NEW x \in Contexts,
             DumpTest(x)
      PROVE  LogInv'
  BY <1>23 DEF DumpTest
<1>24. ASSUME NEW x \in Contexts,
             DumpRead(x)
      PROVE  LogInv'
  <2>1. /\ Mapped \in Nat /\ Mapped <= buf /\ buf \in Nat
        /\ Mapped # 0 => CrashCode = "packet" /\ Mapped = buf
    BY MappedPacket DEF AskInv
  <2>2. CASE UNCHANGED logged
    BY <1>24, <2>2 DEF DumpRead
  <2>3. CASE logged' = Append(logged, Mapped)
    <3>1. Mapped # 0 => \A i \in DOMAIN logged : logged[i] < Mapped
      BY <1>24, <2>1 DEF DumpRead
    <3>2. buf' = buf /\ \A i \in DOMAIN logged : logged[i] <= buf
      BY <1>24 DEF DumpRead
    <3>3. LogInOrder' /\ \A i \in DOMAIN logged' : logged'[i] <= buf'
      BY <2>1, <2>3, <3>1, <3>2, AppendNewer
    <3>4. \A y \in Contexts : ~(At(y, "wait") \/ At(y, "read"))'
      BY <1>24 DEF DumpRead
    <3> QED BY <3>3, <3>4
  <2> QED BY <1>24, <2>2, <2>3 DEF DumpRead
<1>25. ASSUME NEW x \in Contexts,
             DumpRam(x)
      PROVE  LogInv'
  BY <1>25 DEF DumpRam, Abort
<1>26. ASSUME NEW x \in Contexts,
             DumpCleanup(x)
      PROVE  LogInv'
  BY <1>26 DEF DumpCleanup, Return, Abort
<1>27. CASE UNCHANGED vars
  BY <1>27 DEF vars
<1> QED
  BY <1>1, <1>2, <1>3, <1>4, <1>5, <1>6, <1>7, <1>8, <1>9, <1>10, <1>11,
     <1>12, <1>13, <1>14, <1>15, <1>16, <1>17, <1>18, <1>19, <1>20, <1>21,
     <1>23, <1>24, <1>25, <1>26, <1>27 DEF Next, CP, Work, Panic, Dump

LEMMA Initially ==
  ASSUME Init
  PROVE  IInv
<1> USE CrashDumpAssumption DEF Init, Contexts
<1>1. TypeOK
  <2>1. FlagType /\ CodeType
    BY DEF FlagType, CodeType
  <2>2. StepType
    BY DEF StepType, Steps
  <2>3. CountType
    BY DEF CountType, End
  <2>4. LogType
    BY DEF LogType
  <2> QED BY <2>1, <2>2, <2>3, <2>4 DEF TypeOK
<1>2. PanicInv /\ AskInv
  BY DEF PanicInv, AskInv, AnswerOrAssert, At
<1>3. OnceInv /\ LockInv
  BY DEF OnceInv, OneDump, LockInv, LockHasOwner
<1>4. LogInv
  BY DEF LogInv, LogInOrder, At
<1> QED BY <1>1, <1>2, <1>3, <1>4 DEF IInv

LEMMA Invariance ==
  SafeSpec => []IInv
<1>1. Init => IInv
  BY Initially
<1>2. IInv /\ [Next]_vars => IInv'
  BY FlagStep, StepStep, CodeStep, CountStep, LogTypeStep, PanicStep, AskStep, OnceStep,
     LockStep, LogStep DEF IInv, TypeOK
<1> QED BY <1>1, <1>2, PTL DEF SafeSpec

\* The variables of the crash dump keep their types; the retries their limit.
THEOREM TypeCorrect ==
  SafeSpec => []TypeOK
<1>1. IInv => TypeOK
  BY DEF IInv
<1> QED BY <1>1, Invariance, PTL

\* Whatever the two processors store, and whenever assertions fail on the AP:
\* the notifier's dump maps only the CP's answers as its log buffer, and the
\* worker's besides them only the code of such an assertion.
THEOREM OnlyAnswersOrAsserts ==
  SafeSpec => []AnswerOrAssert
<1>1. IInv => AnswerOrAssert
  BY DEF IInv, AskInv
<1> QED BY <1>1, Invariance, PTL

\* Worker and panic notifier never both run the dump.
THEOREM DumpedOnce ==
  SafeSpec => []OneDump
<1>1. IInv => OneDump
  BY DEF IInv, OnceInv
<1> QED BY <1>1, Invariance, PTL

\* A running AP that holds the wake lock has work or a dump to do.
THEOREM LockIsOwned ==
  SafeSpec => []LockHasOwner
<1>1. IInv => LockHasOwner
  BY DEF IInv, LockInv
<1> QED BY <1>1, Invariance, PTL

\* No packet of the CP's log is written twice or out of order.
THEOREM LoggedInOrder ==
  SafeSpec => []LogInOrder
<1>1. IInv => LogInOrder
  BY DEF IInv, LogInv
<1> QED BY <1>1, Invariance, PTL
=============================================================================
