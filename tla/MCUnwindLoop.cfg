\* Unwinds over any memory on two thread-stack records: the chain may loop.
CONSTANTS
  Width <- MCWidth
  RecordSize <- MCRecordSize
  KernelStackSize <- MCKernelStackSize
  StackLow <- MCStackLow
  StackHigh <- MCStackHigh
  DpcStack <- MCDpcStack
  Addrs <- MCLoopAddrs
  Targets <- MCLoopTargets
  IntactOnly = FALSE
SPECIFICATION Spec
INVARIANT HandlerRunsOnce
