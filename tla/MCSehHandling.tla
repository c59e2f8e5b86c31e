---------------------------- MODULE MCSehHandling ---------------------------
(***************************************************************************)
(* Small instances of the dispatch-then-unwind composition: 6-bit words,   *)
(* 8-byte records, thread stack [16, 56) with the protector at its bottom. *)
(***************************************************************************)
EXTENDS SehHandling

MCWidth == 6
MCRecordSize == 8
MCKernelStackSize == 16
MCStackLow == 16
MCStackHigh == 56
MCDpcStack == 20

\* The protector, two frames on the thread stack, a frame that ends above
\* the stack (52 + 8 > 56) and an unaligned one.
MCAddrs == {16, 24, 40, 50, 52}

MCProtector == 16
=============================================================================
