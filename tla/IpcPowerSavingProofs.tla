------------------------ MODULE IpcPowerSavingProofs ------------------------
(***************************************************************************)
(* Proofs about the deep-sleep handshake: mutual exclusion whatever the    *)
(* timing, and obedience to the AP when the CP's delay is long enough.     *)
(***************************************************************************)
EXTENDS IpcPowerSaving, TLAPS

\* Each flag is up exactly while its CPU is past the claim.
FlagsMatch ==
  /\ ApAccess <=> apc \in {"decide", "recheck", "read", "enable", "disable", "release"}
  /\ CpAccess <=> cpc \in {"settle", "decide", "read", "enable", "disable", "release"}

ExclusionInv == TypeOK /\ FlagsMatch /\ MutualExclusion

LEMMA ExclusionInvariance ==
  SafeSpec => []ExclusionInv
<1> USE DEF ExclusionInv, TypeOK, FlagsMatch, MutualExclusion, ApInside, CpInside
<1>1. Init => ExclusionInv
  BY DEF Init
<1>2. ASSUME ExclusionInv, [Next]_vars
      PROVE  ExclusionInv'
  <2>1. CASE ApWait
    BY <1>2, <2>1 DEF ApWait
  <2>2. CASE ApClaim
    BY <1>2, <2>2 DEF ApClaim
  <2>3. CASE ApDecide
    BY <1>2, <2>3 DEF ApDecide
  \* The AP goes in only after it saw the CP's flag down.
  <2>4. CASE ApRecheck
    BY <1>2, <2>4 DEF ApRecheck
  <2>5. CASE ApRead
    BY <1>2, <2>5 DEF ApRead
  <2>6. CASE ApSwitch
    BY <1>2, <2>6 DEF ApSwitch
  <2>7. CASE ApRelease
    BY <1>2, <2>7 DEF ApRelease
  <2>8. CASE CpWakeup
    BY <1>2, <2>8 DEF CpWakeup
  <2>9. CASE CpWait
    BY <1>2, <2>9 DEF CpWait
  <2>10. CASE CpClaim
    BY <1>2, <2>10 DEF CpClaim
  \* The CP goes in only after it saw the AP's flag down, its own being up.
  <2>11. CASE CpSettle
    BY <1>2, <2>11 DEF CpSettle
  <2>12. CASE CpDecide
    BY <1>2, <2>12 DEF CpDecide
  <2>13. CASE CpRead
    BY <1>2, <2>13 DEF CpRead
  <2>14. CASE CpSwitch
    BY <1>2, <2>14 DEF CpSwitch
  <2>15. CASE CpRelease
    BY <1>2, <2>15 DEF CpRelease
  <2>16. CASE UNCHANGED vars
    BY <1>2, <2>16 DEF vars
  <2> QED
    BY <1>2, <2>1, <2>2, <2>3, <2>4, <2>5, <2>6, <2>7, <2>8, <2>9, <2>10, <2>11,
       <2>12, <2>13, <2>14, <2>15, <2>16 DEF Next
<1> QED BY <1>1, <1>2, PTL DEF SafeSpec

\* The variables of the handshake keep their types.
THEOREM TypeCorrect ==
  SafeSpec => []TypeOK
<1>1. ExclusionInv => TypeOK
  BY DEF ExclusionInv
<1> QED BY <1>1, ExclusionInvariance, PTL

\* IPC_ApCheckDeepSleepAllowed and IPC_CpCheckDeepSleepAllowed never work on
\* the hardware together, whether or not SemaphoreAccessDelay is long enough.
THEOREM AccessIsExclusive ==
  SafeSpec => []MutualExclusion
<1>1. ExclusionInv => MutualExclusion
  BY DEF ExclusionInv
<1> QED BY <1>1, ExclusionInvariance, PTL
-----------------------------------------------------------------------------
\* With a delay that covers the AP's window, the CP inside finds the AP idle,
\* so nobody changes the AP's answer under the CP's hands.
ObeyInv ==
  /\ ExclusionInv
  /\ HwObeysAp
  /\ cpc \in {"decide", "read", "enable", "disable", "release"} => apc = "idle"
  /\ apc = "enable" => ApEnabled
  /\ cpc = "enable" => ApEnabled

\* Hardware deep sleep does not stay on against the AP's published answer,
\* although the AP returns early when the CP's flag is up.  This one needs
\* SemaphoreAccessDelay to outlast the AP's window.
THEOREM HardwareObeysAp ==
  ASSUME DelayCovers
  PROVE  SafeSpec => []HwObeysAp
<1> USE DelayCovers
        DEF ObeyInv, ExclusionInv, TypeOK, FlagsMatch, HwObeysAp
<1>1. Init => ObeyInv
  BY DEF Init, MutualExclusion, ApInside, CpInside
<1>2. ASSUME ObeyInv, ExclusionInv', [Next]_vars
      PROVE  ObeyInv'
  <2>1. CASE ApWait
    BY <1>2, <2>1 DEF ApWait
  <2>2. CASE ApClaim
    BY <1>2, <2>2 DEF ApClaim
  <2>3. CASE ApDecide
    BY <1>2, <2>3 DEF ApDecide
  \* The early return: the CP's flag is up and the CP still has to settle.
  <2>4. CASE ApRecheck
    BY <1>2, <2>4 DEF ApRecheck
  <2>5. CASE ApRead
    BY <1>2, <2>5 DEF ApRead
  <2>6. CASE ApSwitch
    BY <1>2, <2>6 DEF ApSwitch
  <2>7. CASE ApRelease
    BY <1>2, <2>7 DEF ApRelease
  <2>8. CASE CpWakeup
    BY <1>2, <2>8 DEF CpWakeup
  <2>9. CASE CpWait
    BY <1>2, <2>9 DEF CpWait
  <2>10. CASE CpClaim
    BY <1>2, <2>10 DEF CpClaim
  <2>11. CASE CpSettle
    BY <1>2, <2>11 DEF CpSettle
  <2>12. CASE CpDecide
    BY <1>2, <2>12 DEF CpDecide
  <2>13. CASE CpRead
    BY <1>2, <2>13 DEF CpRead
  <2>14. CASE CpSwitch
    BY <1>2, <2>14 DEF CpSwitch
  <2>15. CASE CpRelease
    BY <1>2, <2>15 DEF CpRelease
  <2>16. CASE UNCHANGED vars
    BY <1>2, <2>16 DEF vars
  <2> QED
    BY <1>2, <2>1, <2>2, <2>3, <2>4, <2>5, <2>6, <2>7, <2>8, <2>9, <2>10, <2>11,
       <2>12, <2>13, <2>14, <2>15, <2>16 DEF Next
<1>3. ObeyInv => HwObeysAp
  OBVIOUS
<1> QED BY <1>1, <1>2, <1>3, ExclusionInvariance, PTL DEF SafeSpec
=============================================================================
