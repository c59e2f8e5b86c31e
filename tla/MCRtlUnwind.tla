---------------------------- MODULE MCRtlUnwind -----------------------------
(***************************************************************************)
(* Small instances of RtlUnwind for TLC, on the address layout of          *)
(* MCExceptionDispatch: 6-bit words, 8-byte records, thread stack [24, 56) *)
(* and DPC stack [4, 20).                                                  *)
(***************************************************************************)
EXTENDS RtlUnwind

MCWidth == 6
MCRecordSize == 8
MCKernelStackSize == 16
MCStackLow == 24
MCStackHigh == 56
MCDpcStack == 20

\* A DPC-stack record, three thread-stack records and an aligned one that
\* ends above the stack top.
MCAddrs == {8, 24, 40, 48, 52}

\* NULL (exit unwind), two records, an address that holds no record, and
\* EXCEPTION_CHAIN_END.
MCTargets == {0, 24, 40, 44, 63}

\* Two records on the thread stack, linked in any way.
MCLoopAddrs == {24, 40}

\* A target beyond both records: the unwind has to walk all of them.
MCLoopTargets == {44}

\* A record on the thread stack and one at the top of the address space,
\* whose HighAddress, 60 + 8 as a 6-bit ULONG, wraps around to 4.
MCWrapAddrs == {24, 60}

\* EXCEPTION_CHAIN_END: the unwind has to pass every record.
MCWrapTargets == {63}
=============================================================================
