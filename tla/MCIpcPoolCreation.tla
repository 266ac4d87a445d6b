------------------------- MODULE MCIpcPoolCreation -------------------------
(* TLC instances of IpcPoolCreation. *)
EXTENDS IpcPoolCreation, TLC

CONSTANTS a1, a2, c1, csd, pkt, log

MCThreads == {a1, a2, c1}
MCCpuOf == [t \in MCThreads |-> IF t = c1 THEN "CP" ELSE "AP"]
MCTypes == {csd, pkt, log}
MCSizeOf == [i \in MCTypes |-> IF i = log THEN 3 ELSE 2]
MCCountOf == [i \in MCTypes |-> IF i = log THEN 2 ELSE 1]

\* The threads of the AP are interchangeable, and so are two of the types.
Symmetry == Permutations({a1, a2}) \cup Permutations({csd, pkt})
=============================================================================
