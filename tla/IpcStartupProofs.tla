-------------------------- MODULE IpcStartupProofs --------------------------
(***************************************************************************)
(* Proofs about start-up: both CPUs initialise concurrently in any order,  *)
(* the CP may crash at any point.                                          *)
(***************************************************************************)
EXTENDS IpcStartup, TLAPS

Before == {"test", "basic", "own", "endpoints", "configure"}

\* The published word Initialised[c] agrees with where CPU c is, and IPC is
\* reported up only when both words say "configured".  A CPU that skips the
\* basic set-up does so because the other one has published its word after it.
ReadyInv ==
  /\ \A c \in CPU : pc[c] \in {"own", "endpoints", "configure"} => basicDone
  /\ \A c \in CPU : Initialised[c] # "no" => basicDone
  /\ \A c \in CPU : pc[c] \in {"endpoints", "configure"} => c \in fifosReset
  /\ \A c \in CPU : pc[c] \in Before => Initialised[c] # "conf"
  /\ \A c \in CPU : pc[c] = "configured" => Initialised[c] = "conf"
  /\ \A c \in CPU : Initialised[c] = "conf" => c \in fifosReset
  /\ \A c \in CPU : ConfiguredReported[c] => \A d \in CPU : Initialised[d] = "conf"

\* An interrupt for the AP before ap_ipc_init_done comes from a crash.
EarlyInv ==
  /\ pc["AP"] \in {"configure", "configured"} => ap_ipc_init_done
  /\ Initialised["AP"] = "conf" => ap_ipc_init_done
  /\ irq["AP"] => ap_ipc_init_done \/ pc["CP"] \in Crashed
  /\ EarlyMeansCrash

\* polls counts the rounds of the wait for the CP.
PollsInv ==
  /\ pc["AP"] \notin {"poll", "up", "failed"} => polls = 0
  /\ pc["AP"] = "poll" => polls <= MaxPolls

IInv == TypeOK /\ ReadyInv /\ EarlyInv /\ PollsInv

LEMMA TypeStep ==
  ASSUME TypeOK, PollsInv, [Next]_vars
  PROVE  TypeOK'
<1> USE StartupAssumption
        DEF TypeOK, PollsInv, CPU, Crashed, Other, Goto, smVars, apVars
<1>1. ASSUME NEW c \in CPU, InitTest(c)
      PROVE  TypeOK'
  BY <1>1 DEF InitTest
<1>2. ASSUME NEW c \in CPU, InitBasic(c)
      PROVE  TypeOK'
  BY <1>2 DEF InitBasic
<1>3. ASSUME NEW c \in CPU, InitOwn(c)
      PROVE  TypeOK'
  BY <1>3 DEF InitOwn
<1>4. ASSUME NEW c \in CPU, InitDone(c)
      PROVE  TypeOK'
  BY <1>4 DEF InitDone
<1>5. ASSUME NEW c \in CPU, Configure(c)
      PROVE  TypeOK'
  BY <1>5 DEF Configure
<1>6. ASSUME NEW c \in CPU, ConfigureTest(c)
      PROVE  TypeOK'
  <2>1. UNCHANGED <<smVars, apVars, work, wpc, crashCount, dump>>
    BY <1>6 DEF ConfigureTest
  <2>2. pc' \in [CPU -> {"test", "basic", "own", "endpoints", "configure",
                          "configured", "early", "poll", "up", "failed"} \cup Crashed]
    BY <1>6 DEF ConfigureTest
  <2>3. /\ ConfiguredReported' \in [CPU -> BOOLEAN] /\ ipc_state' \in {0, 1}
        /\ irq' \in [CPU -> BOOLEAN]
    BY <1>6 DEF ConfigureTest, Report
  <2> QED BY <2>1, <2>2, <2>3
<1>7. CASE CheckEarly
  BY <1>7 DEF CheckEarly
<1>8. CASE Poll
  BY <1>8 DEF Poll
<1>9. CASE ApInterrupt
  BY <1>9 DEF ApInterrupt
<1>10. CASE WorkCrashCheck
  <2>1. crashCount' \in 0..2
    BY <1>10 DEF WorkCrashCheck
  <2>2. dump' \in BOOLEAN
    BY <1>10 DEF WorkCrashCheck
  <2> QED BY <1>10, <2>1, <2>2 DEF WorkCrashCheck
<1>11. CASE WorkEvents
  BY <1>11 DEF WorkEvents, ProcessEvents, Report
<1>12. CASE CpInterrupt
  BY <1>12 DEF CpInterrupt, ProcessEvents, Report
<1>13. CASE CpAnalyse
  BY <1>13 DEF CpAnalyse
<1>14. CASE CpCrash
  BY <1>14 DEF CpCrash
<1>15. CASE UNCHANGED vars
  BY <1>15 DEF vars
<1> QED
  BY <1>1, <1>2, <1>3, <1>4, <1>5, <1>6, <1>7, <1>8, <1>9, <1>10, <1>11, <1>12,
     <1>13, <1>14, <1>15 DEF Next

LEMMA ReadyStep ==
  ASSUME TypeOK, ReadyInv, [Next]_vars
  PROVE  ReadyInv'
<1> USE StartupAssumption
        DEF TypeOK, ReadyInv, Before, Crashed, CPU, Other, Goto, smVars, apVars
<1>1. ASSUME NEW c \in CPU, InitTest(c)
      PROVE  ReadyInv'
  BY <1>1 DEF InitTest
<1>2. ASSUME NEW c \in CPU, InitBasic(c)
      PROVE  ReadyInv'
  BY <1>2 DEF InitBasic
<1>3. ASSUME NEW c \in CPU, InitOwn(c)
      PROVE  ReadyInv'
  BY <1>3 DEF InitOwn
<1>4. ASSUME NEW c \in CPU, InitDone(c)
      PROVE  ReadyInv'
  BY <1>4 DEF InitDone
<1>5. ASSUME NEW c \in CPU, Configure(c)
      PROVE  ReadyInv'
  BY <1>5 DEF Configure
\* Reported here only if the other CPU's word says so as well.
<1>6. ASSUME NEW c \in CPU, ConfigureTest(c)
      PROVE  ReadyInv'
  BY <1>6 DEF ConfigureTest, Report
<1>7. CASE CheckEarly
  BY <1>7 DEF CheckEarly
<1>8. CASE Poll
  BY <1>8 DEF Poll
<1>9. CASE ApInterrupt
  BY <1>9 DEF ApInterrupt
<1>10. CASE WorkCrashCheck
  BY <1>10 DEF WorkCrashCheck
<1>11. CASE WorkEvents
  BY <1>11 DEF WorkEvents, ProcessEvents, Report
<1>12. CASE CpInterrupt
  BY <1>12 DEF CpInterrupt, ProcessEvents, Report
<1>13. CASE CpAnalyse
  BY <1>13 DEF CpAnalyse
<1>14. CASE CpCrash
  BY <1>14 DEF CpCrash
<1>15. CASE UNCHANGED vars
  BY <1>15 DEF vars
<1> QED
  BY <1>1, <1>2, <1>3, <1>4, <1>5, <1>6, <1>7, <1>8, <1>9, <1>10, <1>11, <1>12,
     <1>13, <1>14, <1>15 DEF Next

LEMMA EarlyStep ==
  ASSUME TypeOK, ReadyInv, EarlyInv, [Next]_vars
  PROVE  EarlyInv'
<1> USE StartupAssumption
        DEF TypeOK, ReadyInv, Before, EarlyInv, EarlyMeansCrash,
            Crashed, CPU, Other, Goto, smVars, apVars
<1>1. ASSUME NEW c \in CPU, InitTest(c)
      PROVE  EarlyInv'
  BY <1>1 DEF InitTest
<1>2. ASSUME NEW c \in CPU, InitBasic(c)
      PROVE  EarlyInv'
  BY <1>2 DEF InitBasic
<1>3. ASSUME NEW c \in CPU, InitOwn(c)
      PROVE  EarlyInv'
  BY <1>3 DEF InitOwn
<1>4. ASSUME NEW c \in CPU, InitDone(c)
      PROVE  EarlyInv'
  BY <1>4 DEF InitDone
<1>5. ASSUME NEW c \in CPU, Configure(c)
      PROVE  EarlyInv'
  BY <1>5 DEF Configure
\* The CP's interrupt follows Initialised["AP"] = "conf".
<1>6. ASSUME NEW c \in CPU, ConfigureTest(c)
      PROVE  EarlyInv'
  BY <1>6 DEF ConfigureTest, Report
<1>7. CASE CheckEarly
  BY <1>7 DEF CheckEarly
<1>8. CASE Poll
  BY <1>8 DEF Poll
<1>9. CASE ApInterrupt
  BY <1>9 DEF ApInterrupt
<1>10. CASE WorkCrashCheck
  BY <1>10 DEF WorkCrashCheck
<1>11. CASE WorkEvents
  BY <1>11 DEF WorkEvents, ProcessEvents, Report
<1>12. CASE CpInterrupt
  BY <1>12 DEF CpInterrupt, ProcessEvents, Report
<1>13. CASE CpAnalyse
  BY <1>13 DEF CpAnalyse
<1>14. CASE CpCrash
  BY <1>14 DEF CpCrash
<1>15. CASE UNCHANGED vars
  BY <1>15 DEF vars
<1> QED
  BY <1>1, <1>2, <1>3, <1>4, <1>5, <1>6, <1>7, <1>8, <1>9, <1>10, <1>11, <1>12,
     <1>13, <1>14, <1>15 DEF Next

LEMMA PollsStep ==
  ASSUME TypeOK, PollsInv, [Next]_vars
  PROVE  PollsInv'
<1> USE StartupAssumption
        DEF TypeOK, PollsInv, Crashed, CPU, Other, Goto, smVars, apVars
<1>1. ASSUME NEW c \in CPU, InitTest(c)
      PROVE  PollsInv'
  BY <1>1 DEF InitTest
<1>2. ASSUME NEW c \in CPU, InitBasic(c)
      PROVE  PollsInv'
  BY <1>2 DEF InitBasic
<1>3. ASSUME NEW c \in CPU, InitOwn(c)
      PROVE  PollsInv'
  BY <1>3 DEF InitOwn
<1>4. ASSUME NEW c \in CPU, InitDone(c)
      PROVE  PollsInv'
  BY <1>4 DEF InitDone
<1>5. ASSUME NEW c \in CPU, Configure(c)
      PROVE  PollsInv'
  BY <1>5 DEF Configure
<1>6. ASSUME NEW c \in CPU, ConfigureTest(c)
      PROVE  PollsInv'
  BY <1>6 DEF ConfigureTest, Report
<1>7. CASE CheckEarly
  BY <1>7 DEF CheckEarly
<1>8. CASE Poll
  BY <1>8 DEF Poll
<1>9. CASE ApInterrupt
  BY <1>9 DEF ApInterrupt
<1>10. CASE WorkCrashCheck
  BY <1>10 DEF WorkCrashCheck
<1>11. CASE WorkEvents
  BY <1>11 DEF WorkEvents, ProcessEvents, Report
<1>12. CASE CpInterrupt
  BY <1>12 DEF CpInterrupt, ProcessEvents, Report
<1>13. CASE CpAnalyse
  BY <1>13 DEF CpAnalyse
<1>14. CASE CpCrash
  BY <1>14 DEF CpCrash
<1>15. CASE UNCHANGED vars
  BY <1>15 DEF vars
<1> QED
  BY <1>1, <1>2, <1>3, <1>4, <1>5, <1>6, <1>7, <1>8, <1>9, <1>10, <1>11, <1>12,
     <1>13, <1>14, <1>15 DEF Next

LEMMA Initially ==
  ASSUME Init
  PROVE  IInv
<1> USE StartupAssumption DEF Init, CPU
<1>1. TypeOK
  <2>1. polls \in 0..MaxPolls+1 /\ crashCount \in 0..2
    OBVIOUS
  <2>2. pc \in [CPU -> {"test"}] /\ ConfiguredReported \in [CPU -> BOOLEAN]
        /\ irq \in [CPU -> BOOLEAN] /\ Initialised \in [CPU -> {"no", "init", "conf"}]
    OBVIOUS
  <2> QED BY <2>1, <2>2 DEF TypeOK
<1>2. ReadyInv
  BY DEF ReadyInv
<1>3. EarlyInv
  BY DEF EarlyInv, EarlyMeansCrash
<1>4. PollsInv
  BY DEF PollsInv
<1> QED BY <1>1, <1>2, <1>3, <1>4 DEF IInv

LEMMA Invariance ==
  SafeSpec => []IInv
<1>1. Init => IInv
  BY Initially
<1>2. IInv /\ [Next]_vars => IInv'
  BY TypeStep, ReadyStep, EarlyStep, PollsStep DEF IInv
<1> QED BY <1>1, <1>2, PTL DEF SafeSpec

\* The variables of start-up keep their types; the poll count its bound.
THEOREM TypeCorrect ==
  SafeSpec => []TypeOK
<1>1. IInv => TypeOK
  BY DEF IInv
<1> QED BY <1>1, Invariance, PTL

\* When IPCInitialisedFunction has been called on a CPU, neither CPU has a
\* step of IPC_Initialise or IPC_Configured left that could undo a message.
THEOREM UpIsReady ==
  SafeSpec => []UpMeansReady
<1>1. IInv => UpMeansReady
  BY DEF IInv, TypeOK, ReadyInv, UpMeansReady, Before, CPU
<1> QED BY <1>1, Invariance, PTL

\* sEarlyCPInterrupt is set by a crash only: the interrupt of the CP's own
\* IPC_Configured cannot come before ap_ipc_init_done.
THEOREM EarlyIsCrash ==
  SafeSpec => []EarlyMeansCrash
<1>1. IInv => EarlyMeansCrash
  BY DEF IInv, EarlyInv
<1> QED BY <1>1, Invariance, PTL
=============================================================================
