\* Dispatch over any memory on two thread-stack records, so a chain may
\* loop back on itself while staying inside the stack limits.
CONSTANTS
  Width <- MCWidth
  RecordSize <- MCRecordSize
  KernelStackSize <- MCKernelStackSize
  StackLow <- MCStackLow
  StackHigh <- MCStackHigh
  DpcStack <- MCDpcStack
  Addrs <- MCLoopAddrs
  IntactOnly = FALSE
SPECIFICATION Spec
PROPERTY DispatchTerminates
