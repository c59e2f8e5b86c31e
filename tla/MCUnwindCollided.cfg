\* Unwinds over intact chains, where a collided unwind may hand back the
\* target frame itself.
CONSTANTS
  Width <- MCWidth
  RecordSize <- MCRecordSize
  KernelStackSize <- MCKernelStackSize
  StackLow <- MCStackLow
  StackHigh <- MCStackHigh
  DpcStack <- MCDpcStack
  Addrs <- MCAddrs
  Targets <- MCTargets
  IntactOnly = TRUE
SPECIFICATION Spec
INVARIANT TargetSurvives
