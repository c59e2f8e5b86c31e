\* Dispatch over any memory with a record near the top of the address
\* space, where HighAddress wraps around.
CONSTANTS
  Width <- MCWidth
  RecordSize <- MCRecordSize
  KernelStackSize <- MCKernelStackSize
  StackLow <- MCStackLow
  StackHigh <- MCStackHigh
  DpcStack <- MCDpcStack
  Addrs <- MCWrapAddrs
  IntactOnly = FALSE
SPECIFICATION Spec
INVARIANT InvokedOnStack
