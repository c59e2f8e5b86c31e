\* Dispatch and global unwind over chains whose links go to older frames.
CONSTANTS
  Width <- MCWidth
  RecordSize <- MCRecordSize
  KernelStackSize <- MCKernelStackSize
  StackLow <- MCStackLow
  StackHigh <- MCStackHigh
  DpcStack <- MCDpcStack
  Addrs <- MCAddrs
  Protector <- MCProtector
  IntactOnly = TRUE
SPECIFICATION Spec
INVARIANT UnwindMatchesSearch
INVARIANT GlobalUnwindReachesHandler
PROPERTY HandlingTerminates
