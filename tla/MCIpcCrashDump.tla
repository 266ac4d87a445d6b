--------------------------- MODULE MCIpcCrashDump ---------------------------
(* TLC instances of IpcCrashDump. *)
EXTENDS IpcCrashDump

\* Every build, every dump device.
MCConfigs == [device : {"SDCARD", "BMTT", "MTD"}, panic : BOOLEAN, dump : BOOLEAN]
=============================================================================
