\* Dispatch over chains as the code maintains them (every link to an older
\* frame), with records on the thread stack, the DPC stack and unaligned.
CONSTANTS
  Width <- MCWidth
  RecordSize <- MCRecordSize
  KernelStackSize <- MCKernelStackSize
  StackLow <- MCStackLow
  StackHigh <- MCStackHigh
  DpcStack <- MCDpcStack
  Addrs <- MCAddrs
  IntactOnly = TRUE
SPECIFICATION Spec
INVARIANT NestedFlagConsistent
INVARIANT NestedRegionVisible
PROPERTY DispatchTerminates
