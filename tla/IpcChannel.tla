----------------------------- MODULE IpcChannel -----------------------------
(***************************************************************************)
(* What one shared-memory FIFO of fuse_ipc promises to its users: the      *)
(* buffers that the sending CPU puts in are handed to the receiving CPU    *)
(* once each and in order.  IpcFifo, the ring buffer with its interrupt,   *)
(* is shown to implement this specification.                               *)
(***************************************************************************)
EXTENDS Sequences

CONSTANT Buffers      \* the buffers owned by the CPUs that use the FIFO

VARIABLES
  held,     \* buffers the sending CPU may send
  chan,     \* buffers sent and not yet taken out, oldest first
  got       \* buffers the receiving CPU has taken out

chanVars == <<held, chan, got>>

Init ==
  /\ held = Buffers
  /\ chan = << >>
  /\ got = {}

\* IPC_SmFifoWrite takes effect.
Send(b) ==
  /\ b \in held
  /\ held' = held \ {b}
  /\ chan' = Append(chan, b)
  /\ UNCHANGED got

\* IPC_SmFifoRead takes effect.
Receive ==
  /\ chan # << >>
  /\ got' = got \cup {Head(chan)}
  /\ chan' = Tail(chan)
  /\ UNCHANGED held

\* The buffer comes back to the sending CPU by the opposite path.
Recycle(b) ==
  /\ b \in got
  /\ got' = got \ {b}
  /\ held' = held \cup {b}
  /\ UNCHANGED chan

Next ==
  \/ \E b \in Buffers : Send(b) \/ Recycle(b)
  \/ Receive

SafeSpec == Init /\ [][Next]_chanVars

\* The receiving CPU does not leave a sent buffer in the channel.
Spec == SafeSpec /\ WF_chanVars(Receive)
=============================================================================
