\* Dispatch over intact chains, with NtGlobalFlag free to change between
\* its two reads around each handler call.
CONSTANTS
  Width <- MCWidth
  RecordSize <- MCRecordSize
  KernelStackSize <- MCKernelStackSize
  StackLow <- MCStackLow
  StackHigh <- MCStackHigh
  DpcStack <- MCDpcStack
  Addrs <- MCAddrs
  IntactOnly = TRUE
SPECIFICATION Spec
INVARIANT DispositionLoggedToItsEntry
