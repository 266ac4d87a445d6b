--------------------------- MODULE IpcPowerSaving ---------------------------
(***************************************************************************)
(* The deep-sleep handshake of the two CPUs (ipc_powersaving.c).  Each CPU *)
(* publishes whether it allows deep sleep and then, alone, switches the    *)
(* hardware on or off; the two Access flags of the shared memory keep them *)
(* apart.  The AP gives way when both want in, the CP waits.               *)
(***************************************************************************)
EXTENDS Naturals

CONSTANT
  DelayCovers   \* SemaphoreAccessDelay outlasts the AP's window between
                \* seeing the CP's flag down and raising its own

ASSUME DelayAssumption == DelayCovers \in BOOLEAN

VARIABLES
  ApAccess, CpAccess,     \* the two AccessSharedPowerDWORD flags
  ApEnabled, CpEnabled,   \* the two DeepSleepEnabled flags
  hw,                     \* hardware deep sleep is enabled
  apc, cpc                \* next step of either CPU

vars == <<ApAccess, CpAccess, ApEnabled, CpEnabled, hw, apc, cpc>>

\* The flags as IPC_Initialise leaves them.
Init ==
  /\ ApAccess = FALSE
  /\ CpAccess = FALSE
  /\ ApEnabled = FALSE
  /\ CpEnabled = FALSE
  /\ hw = FALSE
  /\ apc = "idle"
  /\ cpc = "idle"
-----------------------------------------------------------------------------
(* IPC_ApCheckDeepSleepAllowed.                                            *)

\* while (CpAccessSharedPowerDWORD == IPC_TRUE);
ApWait ==
  /\ apc = "idle"
  /\ ~CpAccess
  /\ apc' = "claim"
  /\ UNCHANGED <<ApAccess, CpAccess, ApEnabled, CpEnabled, hw, cpc>>

ApClaim ==
  /\ apc = "claim"
  /\ ApAccess' = TRUE
  /\ apc' = "decide"
  /\ UNCHANGED <<CpAccess, ApEnabled, CpEnabled, hw, cpc>>

\* CheckDeepSleepAllowed answers; the answer is published.
ApDecide ==
  /\ apc = "decide"
  /\ ApEnabled' \in BOOLEAN
  /\ apc' = "recheck"
  /\ UNCHANGED <<ApAccess, CpAccess, CpEnabled, hw, cpc>>

ApRecheck ==
  /\ apc = "recheck"
  /\ apc' = IF CpAccess THEN "release" ELSE "read"
  /\ UNCHANGED <<ApAccess, CpAccess, ApEnabled, CpEnabled, hw, cpc>>

ApRead ==
  /\ apc = "read"
  /\ apc' = IF ApEnabled /\ CpEnabled THEN "enable" ELSE "disable"
  /\ UNCHANGED <<ApAccess, CpAccess, ApEnabled, CpEnabled, hw, cpc>>

ApSwitch ==
  /\ apc \in {"enable", "disable"}
  /\ hw' = (apc = "enable")
  /\ apc' = "release"
  /\ UNCHANGED <<ApAccess, CpAccess, ApEnabled, CpEnabled, cpc>>

ApRelease ==
  /\ apc = "release"
  /\ ApAccess' = FALSE
  /\ apc' = "idle"
  /\ UNCHANGED <<CpAccess, ApEnabled, CpEnabled, hw, cpc>>
-----------------------------------------------------------------------------
(* IPC_CpWakeup and IPC_CpCheckDeepSleepAllowed.                           *)

\* Takes no flag: the AP may be between reading CpEnabled and the switch.
CpWakeup ==
  /\ cpc = "idle"
  /\ CpEnabled' = FALSE
  /\ UNCHANGED <<ApAccess, CpAccess, ApEnabled, hw, apc, cpc>>

CpWait ==
  /\ cpc = "idle"
  /\ ~ApAccess
  /\ cpc' = "claim"
  /\ UNCHANGED <<ApAccess, CpAccess, ApEnabled, CpEnabled, hw, apc>>

CpClaim ==
  /\ cpc = "claim"
  /\ CpAccess' = TRUE
  /\ cpc' = "settle"
  /\ UNCHANGED <<ApAccess, ApEnabled, CpEnabled, hw, apc>>

\* Seeded fault: the CP waits out the delay and does not look again.
CpSettleOnce ==
  /\ cpc = "settle"
  /\ DelayCovers => apc # "claim"
  /\ cpc' = "decide"
  /\ UNCHANGED <<ApAccess, CpAccess, ApEnabled, CpEnabled, hw, apc>>

\* do SemaphoreAccessDelay while (ApAccessSharedPowerDWORD == IPC_TRUE);
CpSettle ==
  /\ cpc = "settle"
  /\ DelayCovers => apc # "claim"
  /\ ~ApAccess
  /\ cpc' = "decide"
  /\ UNCHANGED <<ApAccess, CpAccess, ApEnabled, CpEnabled, hw, apc>>

CpDecide ==
  /\ cpc = "decide"
  /\ CpEnabled' \in BOOLEAN
  /\ cpc' = "read"
  /\ UNCHANGED <<ApAccess, CpAccess, ApEnabled, hw, apc>>

\* Seeded fault: the CP does not ask for the AP's answer.
CpReadOwn ==
  /\ cpc = "read"
  /\ cpc' = IF CpEnabled THEN "enable" ELSE "disable"
  /\ UNCHANGED <<ApAccess, CpAccess, ApEnabled, CpEnabled, hw, apc>>

CpRead ==
  /\ cpc = "read"
  /\ cpc' = IF CpEnabled /\ ApEnabled THEN "enable" ELSE "disable"
  /\ UNCHANGED <<ApAccess, CpAccess, ApEnabled, CpEnabled, hw, apc>>

CpSwitch ==
  /\ cpc \in {"enable", "disable"}
  /\ hw' = (cpc = "enable")
  /\ cpc' = "release"
  /\ UNCHANGED <<ApAccess, CpAccess, ApEnabled, CpEnabled, apc>>

\* Seeded fault: the CP leaves its flag up.
CpKeep ==
  /\ cpc = "release"
  /\ cpc' = "idle"
  /\ UNCHANGED <<ApAccess, CpAccess, ApEnabled, CpEnabled, hw, apc>>

CpRelease ==
  /\ cpc = "release"
  /\ CpAccess' = FALSE
  /\ cpc' = "idle"
  /\ UNCHANGED <<ApAccess, ApEnabled, CpEnabled, hw, apc>>
-----------------------------------------------------------------------------
Ap == ApClaim \/ ApDecide \/ ApRecheck \/ ApRead \/ ApSwitch \/ ApRelease
Cp == CpClaim \/ CpSettle \/ CpDecide \/ CpRead \/ CpSwitch \/ CpRelease

Next ==
  \/ ApWait \/ ApClaim \/ ApDecide \/ ApRecheck \/ ApRead \/ ApSwitch \/ ApRelease
  \/ CpWakeup \/ CpWait \/ CpClaim \/ CpSettle \/ CpDecide \/ CpRead \/ CpSwitch
  \/ CpRelease

SafeSpec == Init /\ [][Next]_vars

\* Both CPUs run with interrupts off from their first store to the last.
Fairness == WF_vars(Ap) /\ WF_vars(Cp)

Spec == SafeSpec /\ Fairness
-----------------------------------------------------------------------------
(* Properties.                                                             *)

ApInside == apc \in {"read", "enable", "disable"}
CpInside == cpc \in {"decide", "read", "enable", "disable"}

\* Types of the shared flags and of the steps of the two handlers.
TypeOK ==
  /\ ApAccess \in BOOLEAN /\ CpAccess \in BOOLEAN
  /\ ApEnabled \in BOOLEAN /\ CpEnabled \in BOOLEAN
  /\ hw \in BOOLEAN
  /\ apc \in {"idle", "claim", "decide", "recheck", "read", "enable",
              "disable", "release"}
  /\ cpc \in {"idle", "claim", "settle", "decide", "read", "enable",
              "disable", "release"}

\* The CPUs never work on the deep-sleep hardware at the same time.
MutualExclusion == ~(ApInside /\ CpInside)

\* Hardware deep sleep is on against the AP's published answer only while a
\* CPU is about to put that right: the AP's early return, which leaves the
\* hardware alone, relies on the CP to read the answer afterwards.
HwObeysAp ==
  hw /\ ~ApEnabled =>
    \/ apc \in {"recheck", "read", "disable"}
    \/ cpc \in {"settle", "decide", "read", "disable"}

\* A CPU that has raised its flag takes it down again: the two spin loops
\* cannot wait for each other.
NoMutualSpin == (CpAccess ~> ~CpAccess) /\ (ApAccess ~> ~ApAccess)
=============================================================================
