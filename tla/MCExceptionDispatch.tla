------------------------ MODULE MCExceptionDispatch -------------------------
(***************************************************************************)
(* Small instances of ExceptionDispatch for TLC.  Addresses are 6-bit      *)
(* words (0..63, EXCEPTION_CHAIN_END = 63) and a registration record is 8  *)
(* bytes, as on x86.  The thread stack is [24, 56); the DPC stack is the   *)
(* KERNEL_STACK_SIZE = 16 bytes below DpcStack = 20, i.e. [4, 20).         *)
(***************************************************************************)
EXTENDS ExceptionDispatch

MCWidth == 6
MCRecordSize == 8
MCKernelStackSize == 16
MCStackLow == 24
MCStackHigh == 56
MCDpcStack == 20

\* A record on the DPC stack, three on the thread stack (the last one ends
\* exactly at the high limit) and an unaligned one.
MCAddrs == {8, 24, 40, 48, 50}

\* Two records on the thread stack: enough for a chain that loops.
MCLoopAddrs == {24, 40}

\* A record on the thread stack and one at the top of the address space,
\* whose HighAddress wraps around to 4.
MCWrapAddrs == {24, 60}
=============================================================================
