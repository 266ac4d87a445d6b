----------------------------- MODULE MCIpcFifo -----------------------------
(* TLC instances of IpcFifo. *)
EXTENDS IpcFifo, TLC

\* Buffers and threads are interchangeable; used for safety runs only.
Symmetry == Permutations(Buffers) \cup Permutations(Threads)
=============================================================================
