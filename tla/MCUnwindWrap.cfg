\* Unwinds to EXCEPTION_CHAIN_END over intact chains with a record near
\* the top of the address space, where HighAddress wraps around.
CONSTANTS
  Width <- MCWidth
  RecordSize <- MCRecordSize
  KernelStackSize <- MCKernelStackSize
  StackLow <- MCStackLow
  StackHigh <- MCStackHigh
  DpcStack <- MCDpcStack
  Addrs <- MCWrapAddrs
  Targets <- MCWrapTargets
  IntactOnly = TRUE
SPECIFICATION Spec
INVARIANT UnwoundOnStack
